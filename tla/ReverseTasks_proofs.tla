------------------------- MODULE ReverseTasks_proofs -------------------------
(***************************************************************************)
(* Proofs about ReverseTasks, for any tasks, runs and number of checks: the  *)
(* type invariant; that a check is worked on at most once and only a user    *)
(* reopens a task, whatever happens to Pods, controller and lease; that a    *)
(* stopped task is restored when a check a user asked for tells nothing; and  *)
(* that runs and tasks stay together when no Pod is interrupted.             *)
(***************************************************************************)
EXTENDS ReverseTasks, FiniteSetTheorems, WellFoundedInduction, TLAPS

-----------------------------------------------------------------------------
(* The inductive invariants                                                  *)

RunRows == [ended : BOOLEAN, detached : BOOLEAN]
PodRows ==
    [pc : {"absent", "queued", "leased", "working", "delivered", "waiting", "dead"}, run : 0 .. MaxRuns,
     changed : BOOLEAN, lost : BOOLEAN, stalled : BOOLEAN, stop : BOOLEAN]

TaskType == task \in [Tasks -> TaskRows \cup {None}]
RunType == runs \in Seq(RunRows) /\ Len(runs) <= setting.runs /\ setting \in Settings
PodType == pod \in [Pods -> PodRows]
SmallType ==
    /\ lease \in Pods \cup {None}
    /\ scanned \subseteq Pods /\ asked \subseteq Tasks /\ overtaken \subseteq Tasks
    /\ starts \in [Pods -> Nat]
TypeInv == TaskType /\ RunType /\ PodType /\ SmallType

(* A Pod that has found its task and its run. *)
Busy == {"working", "delivered", "waiting"}

(* A task waits with a schedule and runs without one; its worker is one of its *)
(* Pods, and a worker of a waiting task is a check.                            *)
RowOK(t, row) ==
    /\ row.status = "PENDING" => row.sched # None
    /\ row.status = "RUNNING" => row.sched = None
    /\ row.active => row.worker \in Pods /\ row.worker[1] = t
    /\ row.status = "PENDING" /\ row.active => row.worker[2] >= 0
RowInv == \A t \in Tasks : Exists(t) => RowOK(t, task[t])

(* A user's request stands while the task waits. *)
AskedInv == \A t \in asked : Exists(t) /\ task[t].status = "PENDING"

(* The run of a schedule exists; that of a worker's schedule is its own. *)
RunInv ==
    /\ \A t \in Tasks : Scheduled(t) => task[t].sched.run \in DOMAIN runs
    /\ \A p \in Pods : pod[p].pc \in Busy => pod[p].run \in DOMAIN runs
    /\ \A p \in Pods : pod[p].pc \in Busy /\ Owns(p) /\ Scheduled(p[1]) => task[p[1]].sched.run = pod[p].run

(* A check that was started is behind its task's schedule, or is the one whose *)
(* number the schedule still has, and then no further Pod can start it.        *)
Past(p, row) ==
    row.sched # None =>
        \/ p[2] < row.sched.attempt
        \/ p[2] = row.sched.attempt /\ (row.active \/ row.status \in Terminal \/ row.sched.suspended)
StartsInv ==
    \A p \in Pods : starts[p] > 0 =>
        /\ Exists(p[1]) /\ task[p[1]].status # "RUNNING"
        /\ p[1] \notin overtaken => starts[p] = 1 /\ Past(p, task[p[1]])

Inv == TypeInv /\ RowInv /\ AskedInv /\ RunInv /\ StartsInv

(* Without stalled Pods and failing heartbeats a busy Pod has the lease and its *)
(* task's row, and has lost neither unless its task was cancelled.              *)
Calm == Faults \cap {"verdict", "stall", "report"} = {}
Holder(p) ==
    /\ ~pod[p].stalled
    /\ pod[p].pc \in Busy \cup {"leased"} => lease = p
    /\ pod[p].pc \in Busy => Owns(p)
    /\ pod[p].lost => pod[p].pc \in Busy /\ task[p[1]].status \in Terminal
    /\ pod[p].pc = "delivered" => ~Open(pod[p].run)
HolderInv == \A p \in Pods : Holder(p)

(* A failed task that may be checked has no status stored to be restored.      *)
FailedInv ==
    \A t \in Tasks : Scheduled(t) /\ task[t].status = "FAILED" /\ Open(task[t].sched.run) => task[t].sched.previous = None

Kept == HolderInv /\ FailedInv /\ StopsAreRestored
CalmInv == Calm => Kept

(* A run that is waited for is waited for by one task, and no other one has it *)
(* in its schedule.                                                            *)
SoleInv ==
    \A t, u \in Tasks :
        Scheduled(t) /\ Scheduled(u) /\ task[t].status = "PENDING" /\ task[u].sched.run = task[t].sched.run => t = u

(* What becomes of tasks: nothing is cancelled or restored; a check works on    *)
(* the number it was launched for, and that number is behind when it is over.  *)
PlainRow(row) ==
    /\ row.status # "CANCELLED" /\ row.previous \in {None, "PENDING"}
    /\ row.status = "RUNNING" => row.active /\ row.worker[2] = -1
    /\ row.sched # None => row.status \in {"PENDING", "FAILED"} /\ row.sched.previous = None
    /\ row.status = "PENDING" /\ row.active => row.worker[2] = row.sched.attempt
    /\ row.status = "PENDING" /\ ~row.active /\ row.worker # None =>
         row.worker[2] < row.sched.attempt \/ row.sched.suspended
PlainInv == \A t \in Tasks : Exists(t) => PlainRow(task[t])

(* A failed task with an open run has no checks left.                          *)
SpentInv ==
    \A t \in Tasks : Scheduled(t) /\ task[t].status = "FAILED" /\ Open(task[t].sched.run) => task[t].sched.left = 0

(* A worker that has not signed off is at work, for a task that is not over.   *)
WorkedInv ==
    \A t \in Tasks : Active(t) => task[t].status \notin Terminal /\ pod[task[t].worker].pc \in Busy

(* Checks are launched for the present number or a past one.                   *)
Launched(p) == pod[p].pc # "absent" \/ p \in scanned
LaunchedInv ==
    \A p \in Pods : p[2] >= 0 /\ Launched(p) =>
        /\ Exists(p[1]) /\ task[p[1]].status # "RUNNING"
        /\ Scheduled(p[1]) => p[2] <= task[p[1]].sched.attempt

(* A Pod that is told to stop has nothing to do any more.                      *)
Obsolete(p) ==
    /\ Exists(p[1])
    /\ p[2] >= 0 /\ task[p[1]].status = "PENDING" =>
         p[2] < task[p[1]].sched.attempt \/ (task[p[1]].sched.suspended /\ ~task[p[1]].active)
ObsoleteInv == \A p \in Pods : pod[p].stop => pod[p].pc # "absent" /\ Obsolete(p)

(* A busy Pod works on an open run, and nobody waits for the run of a Pod that *)
(* created its task.                                                           *)
BusyPod(p) ==
    /\ ~pod[p].stop
    /\ pod[p].pc # "delivered" => Open(pod[p].run)
    /\ p[2] = -1 =>
         /\ pod[p].pc = "working" => pod[p].run \in Attached
         /\ \A u \in Tasks : Scheduled(u) /\ task[u].sched.run = pod[p].run => task[u].status # "PENDING"
BusyInv == \A p \in Pods : pod[p].pc \in Busy => BusyPod(p)

Whole ==
    /\ SoleInv /\ PlainInv /\ SpentInv /\ WorkedInv /\ LaunchedInv /\ ObsoleteInv /\ BusyInv
    /\ RunsStayReachable /\ NoWaitForEnded
TogetherInv == Uninterrupted => Whole

-----------------------------------------------------------------------------
(* Data                                                                      *)

(* A Pod is a task and a number. *)
LEMMA PodFacts ==
    ASSUME NEW p \in Pods
    PROVE  p[1] \in Tasks /\ p[2] \in Int /\ p[2] >= -1 /\ p[2] <= MaxAttempt /\ p = <<p[1], p[2]>> /\ p # None
  BY ConstantsAssumption, NoneAssumption DEF Pods

(* Fields of a row. *)
LEMMA RowFields ==
    ASSUME NEW row \in TaskRows
    PROVE  /\ row.seq \in Nat /\ row.status \in Statuses /\ row.worker \in Pods \cup {None} /\ row.active \in BOOLEAN
           /\ row.previous \in Checkable \cup {None} /\ row.sched \in Schedules \cup {None}
           /\ row # None
  BY NoneAssumption DEF TaskRows

(* Fields of a schedule. *)
LEMMA SchedFields ==
    ASSUME NEW s \in Schedules
    PROVE  /\ s.run \in Nat /\ s.attempt \in Nat /\ s.left \in Nat /\ s.left <= MaxPolls /\ s.due \in BOOLEAN
           /\ s.suspended \in BOOLEAN /\ s.previous \in Checkable \cup {None} /\ s # None
  BY NoneAssumption, ConstantsAssumption DEF Schedules

(* A row that exists is a row. *)
LEMMA ExistingRow ==
    ASSUME TaskType, NEW t \in Tasks
    PROVE  /\ Exists(t) => task[t] \in TaskRows
           /\ Scheduled(t) => task[t].sched \in Schedules
<1>1. Exists(t) => task[t] \in TaskRows
  BY DEF TaskType, Exists
<1>2. Scheduled(t) => task[t].sched \in Schedules
  BY <1>1, RowFields DEF Scheduled
<1> QED
  BY <1>1, <1>2

(* Tasks.finish() *)
LEMMA FinishedRow ==
    ASSUME NEW p, NEW status \in Statuses, task[p[1]] \in TaskRows
    PROVE  LET new == Finished(p, status) IN
           /\ new \in TaskRows /\ new.seq = task[p[1]].seq /\ new.worker = task[p[1]].worker /\ new.status = status
           /\ new.active = FALSE /\ new.previous = None
           /\ new.sched = IF status = "FAILED" THEN task[p[1]].sched ELSE None
<1>1. task[p[1]].sched \in Schedules \cup {None}
  BY RowFields
<1> QED
  BY <1>1 DEF Finished, TaskRows

(* nextRecoveryCheck() *)
LEMMA NextFacts ==
    ASSUME NEW s \in Schedules \cup {None}, NEW r \in Nat
    PROVE  LET next == NextCheck(s, r) IN
           /\ next \in Schedules \cup {None}
           /\ next = None <=> s # None /\ s.left = 0
           /\ next # None => next.previous = None /\ next.suspended = FALSE /\ next.due = FALSE
           /\ s = None => next.run = r /\ next.attempt = 0
           /\ s # None /\ s.left # 0 => next.run = s.run /\ next.attempt = s.attempt + 1
<1> DEFINE first == [run |-> r, attempt |-> 0, left |-> MaxPolls, due |-> FALSE, suspended |-> FALSE, previous |-> None]
           later == [s EXCEPT !.attempt = @ + 1, !.left = @ - 1, !.due = FALSE, !.suspended = FALSE, !.previous = None]
<1>1. NextCheck(s, r) = IF s = None THEN first ELSE IF s.left = 0 THEN None ELSE later
  BY DEF NextCheck
<1>2. /\ first \in Schedules /\ first.previous = None /\ first.suspended = FALSE /\ first.due = FALSE
      /\ first.run = r /\ first.attempt = 0
  BY ConstantsAssumption DEF Schedules
<1>3. s # None /\ s.left # 0 =>
          /\ later \in Schedules /\ later.previous = None /\ later.suspended = FALSE /\ later.due = FALSE
          /\ later.run = s.run /\ later.attempt = s.attempt + 1
  <2> SUFFICES ASSUME s \in Schedules, s.left # 0
               PROVE  /\ later \in Schedules /\ later.previous = None /\ later.suspended = FALSE /\ later.due = FALSE
                      /\ later.run = s.run /\ later.attempt = s.attempt + 1
    OBVIOUS
  <2>1. s.attempt + 1 \in Nat /\ s.left - 1 \in 0 .. MaxPolls
    BY SchedFields, ConstantsAssumption
  <2> QED
    BY <2>1 DEF Schedules
<1> HIDE DEF first, later
<1>4. None \notin Schedules
  BY NoneAssumption
<1> QED
  BY <1>1, <1>2, <1>3, <1>4

(* Some task of a run was created last. *)
LEMMA LatestFacts ==
    ASSUME TaskType, NEW r, WithRun(r) # {}
    PROVE  Latest(r) \in WithRun(r)
<1> DEFINE W == WithRun(r)
           Above(t) == {u \in W : task[u].seq > task[t].seq}
           T == {Above(t) : t \in W}
           R == StrictSubsetOrdering(W)
<1>1. \A t \in W : task[t].seq \in Nat
  <2> SUFFICES ASSUME NEW t \in W PROVE task[t].seq \in Nat
    OBVIOUS
  <2>1. t \in Tasks /\ Exists(t)
    BY DEF WithRun, Scheduled
  <2>2. task[t] \in TaskRows
    BY <2>1, ExistingRow
  <2> QED
    BY <2>2, RowFields
<1>2. IsFiniteSet(W)
  BY ConstantsAssumption, FS_Subset DEF WithRun
<1> HIDE DEF W
<1>3. T \subseteq FiniteSubsetsOf(W) /\ T # {}
  <2>1. \A t \in W : Above(t) \subseteq W
    OBVIOUS
  <2>2. \A t \in W : IsFiniteSet(Above(t))
    BY <1>2, <2>1, FS_Subset
  <2>3. T # {}
    BY DEF W
  <2> QED
    BY <2>1, <2>2, <2>3 DEF FiniteSubsetsOf
<1>4. \E x \in T : \A y \in T : ~(<<y, x>> \in R)
  <2>1. IsWellFoundedOn(R, FiniteSubsetsOf(W))
    BY FS_StrictSubsetOrderingWellFounded
  <2> HIDE DEF R, T
  <2> QED
    BY <1>3, <2>1, WFMin
<1>5. PICK t \in W : \A u \in W : ~(<<Above(u), Above(t)>> \in R)
  BY <1>4
<1>6. ASSUME NEW u \in W, task[u].seq > task[t].seq PROVE FALSE
  <2>1. Above(u) \subseteq Above(t)
    BY <1>1, <1>6
  <2>2. u \in Above(t) /\ u \notin Above(u)
    BY <1>1, <1>6
  <2>3. <<Above(u), Above(t)>> \in R
    BY <2>1, <2>2 DEF StrictSubsetOrdering
  <2> QED
    BY <1>5, <2>3
<1>7. \A u \in W : task[u].seq <= task[t].seq
  BY <1>1, <1>6
<1> QED
  BY <1>7 DEF Latest, W

(* The schedule Tasks.wait() continues. *)
LEMMA LastFacts ==
    ASSUME TaskType, NEW p
    PROVE  LET last == LastSchedule(p)
               r == pod[p].run IN
           /\ WithRun(r) = {} => last = None
           /\ WithRun(r) # {} =>
                /\ Latest(r) \in Tasks /\ Scheduled(Latest(r)) /\ task[Latest(r)].sched.run = r
                /\ last \in Schedules /\ last.run = r /\ last.suspended = FALSE /\ last.previous = None
                /\ last.attempt = task[Latest(r)].sched.attempt /\ last.left = task[Latest(r)].sched.left
<1> DEFINE r == pod[p].run
           s == task[Latest(r)].sched
<1>1. CASE WithRun(r) = {}
  BY <1>1 DEF LastSchedule
<1>2. CASE WithRun(r) # {}
  <2>1. Latest(r) \in Tasks /\ Scheduled(Latest(r)) /\ s.run = r
    BY <1>2, LatestFacts DEF WithRun
  <2>2. s \in Schedules
    BY <2>1, ExistingRow
  <2>3. LastSchedule(p) = [s EXCEPT !.suspended = FALSE, !.previous = None]
    BY <1>2 DEF LastSchedule
  <2> HIDE DEF s
  <2>4. LastSchedule(p) \in Schedules /\ LastSchedule(p).run = s.run /\ LastSchedule(p).attempt = s.attempt
        /\ LastSchedule(p).left = s.left /\ LastSchedule(p).suspended = FALSE /\ LastSchedule(p).previous = None
    BY <2>2, <2>3 DEF Schedules
  <2> QED
    BY <1>2, <2>1, <2>4 DEF s
<1> QED
  BY <1>1, <1>2

(* Tasks.wait() *)
LEMMA WaitingRow ==
    ASSUME TaskType, NEW p, task[p[1]] \in TaskRows, pod[p].run \in Nat
    PROVE  LET new == Waiting(p)
               r == pod[p].run IN
           /\ new \in TaskRows /\ new.seq = task[p[1]].seq /\ new.worker = task[p[1]].worker
           /\ new.active = FALSE /\ new.previous = None /\ new.status \in {"FAILED", "PENDING"}
           /\ new.sched \in Schedules /\ new.sched.run = r /\ new.sched.previous = None
           /\ new.status = "FAILED" =>
                /\ WithRun(r) # {} /\ new.sched.left = 0 /\ new.sched.attempt = task[Latest(r)].sched.attempt
           /\ new.status = "PENDING" =>
                /\ ~new.sched.suspended
                /\ WithRun(r) # {} =>
                     task[Latest(r)].sched.left # 0 /\ new.sched.attempt = task[Latest(r)].sched.attempt + 1
<1> DEFINE r == pod[p].run
           last == LastSchedule(p)
           next == NextCheck(last, r)
<1>1. Waiting(p) = IF next = None THEN [Finished(p, "FAILED") EXCEPT !.sched = last]
                   ELSE [Finished(p, "PENDING") EXCEPT !.sched = next]
  BY DEF Waiting
<1>2. /\ WithRun(r) = {} => last = None
      /\ WithRun(r) # {} =>
            /\ last \in Schedules /\ last.run = r /\ last.suspended = FALSE /\ last.previous = None
            /\ last.attempt = task[Latest(r)].sched.attempt /\ last.left = task[Latest(r)].sched.left
  BY LastFacts
<1> HIDE DEF last
<1>3. last \in Schedules \cup {None} /\ None \notin Schedules
  BY <1>2, NoneAssumption
<1>4. /\ next \in Schedules \cup {None}
      /\ next = None <=> last # None /\ last.left = 0
      /\ next # None => next.previous = None /\ next.suspended = FALSE
      /\ last = None => next.run = r
      /\ last # None /\ last.left # 0 => next.run = last.run /\ next.attempt = last.attempt + 1
  BY <1>3, NextFacts
<1> HIDE DEF next
<1>5. ASSUME NEW status \in {"FAILED", "PENDING"}, NEW s \in Schedules
      PROVE  LET new == [Finished(p, status) EXCEPT !.sched = s] IN
             /\ new \in TaskRows /\ new.seq = task[p[1]].seq /\ new.worker = task[p[1]].worker
             /\ new.active = FALSE /\ new.previous = None /\ new.status = status /\ new.sched = s
  <2>1. LET f == Finished(p, status) IN
        /\ f \in TaskRows /\ f.seq = task[p[1]].seq /\ f.worker = task[p[1]].worker /\ f.status = status
        /\ f.active = FALSE /\ f.previous = None
    <3>1. status \in Statuses
      BY DEF Statuses, Terminal
    <3> QED
      BY <3>1, FinishedRow
  <2> QED
    BY <2>1 DEF TaskRows
<1>6. CASE next = None
  <2>1. last \in Schedules /\ last.left = 0 /\ WithRun(r) # {}
    BY <1>2, <1>3, <1>4, <1>6
  <2>2. Waiting(p) = [Finished(p, "FAILED") EXCEPT !.sched = last]
    BY <1>1, <1>6
  <2>3. LET new == [Finished(p, "FAILED") EXCEPT !.sched = last] IN
        /\ new \in TaskRows /\ new.seq = task[p[1]].seq /\ new.worker = task[p[1]].worker
        /\ new.active = FALSE /\ new.previous = None /\ new.status = "FAILED" /\ new.sched = last
    BY <1>5, <2>1
  <2>4. /\ Waiting(p) \in TaskRows /\ Waiting(p).seq = task[p[1]].seq /\ Waiting(p).worker = task[p[1]].worker
        /\ Waiting(p).active = FALSE /\ Waiting(p).previous = None /\ Waiting(p).status = "FAILED"
        /\ Waiting(p).sched = last
    BY <2>2, <2>3
  <2> QED
    BY <1>2, <2>1, <2>4
<1>7. CASE next # None
  <2>1. next \in Schedules /\ next.run = r /\ next.previous = None /\ next.suspended = FALSE
    BY <1>2, <1>3, <1>4, <1>7
  <2>2. WithRun(r) # {} => task[Latest(r)].sched.left # 0 /\ next.attempt = task[Latest(r)].sched.attempt + 1
    BY <1>2, <1>3, <1>4, <1>7
  <2>3. Waiting(p) = [Finished(p, "PENDING") EXCEPT !.sched = next]
    BY <1>1, <1>7
  <2>4. LET new == [Finished(p, "PENDING") EXCEPT !.sched = next] IN
        /\ new \in TaskRows /\ new.seq = task[p[1]].seq /\ new.worker = task[p[1]].worker
        /\ new.active = FALSE /\ new.previous = None /\ new.status = "PENDING" /\ new.sched = next
    BY <1>5, <2>1
  <2>5. /\ Waiting(p) \in TaskRows /\ Waiting(p).seq = task[p[1]].seq /\ Waiting(p).worker = task[p[1]].worker
        /\ Waiting(p).active = FALSE /\ Waiting(p).previous = None /\ Waiting(p).status = "PENDING"
        /\ Waiting(p).sched = next
    BY <2>3, <2>4
  <2> QED
    BY <2>1, <2>2, <2>5
<1> QED
  BY <1>6, <1>7

(* Tasks.refreshFailed() *)
LEMMA RefreshFailedRow ==
    ASSUME NEW p, NEW stopChecks \in BOOLEAN, task[p[1]] \in TaskRows, task[p[1]].sched # None, pod[p].run \in Nat
    PROVE  LET row == task[p[1]]
               new == RefreshFailed(p, stopChecks) IN
           /\ new \in TaskRows /\ new.seq = row.seq /\ new.worker = row.worker
           /\ new.active = FALSE /\ new.previous = None
           /\ new.status = IF row.previous = None THEN row.status ELSE row.previous
           /\ new.sched \in Schedules /\ new.sched.run = row.sched.run /\ new.sched.previous = None
           /\ row.sched.left = 0 => new.sched.suspended /\ new.sched.attempt = row.sched.attempt
           /\ row.sched.left # 0 => new.sched.attempt = row.sched.attempt + 1
<1> DEFINE row == task[p[1]]
           next == NextCheck(row.sched, pod[p].run)
           suspended == stopChecks \/ next = None
           s == IF next = None THEN [row.sched EXCEPT !.previous = None] ELSE next
           status == IF row.previous = None THEN row.status ELSE row.previous
           z == [s EXCEPT !.suspended = suspended]
<1>1. RefreshFailed(p, stopChecks) =
          [row EXCEPT !.status = status, !.active = FALSE, !.previous = None, !.sched = z]
  BY DEF RefreshFailed
<1>2. row.sched \in Schedules /\ row.sched # None /\ status \in Statuses /\ None \notin Schedules
  BY RowFields, NoneAssumption DEF Checkable, Statuses, Terminal
<1>3. /\ next \in Schedules \cup {None}
      /\ next = None <=> row.sched.left = 0
      /\ next # None => next.previous = None
      /\ row.sched.left # 0 => next.run = row.sched.run /\ next.attempt = row.sched.attempt + 1
  BY <1>2, NextFacts
<1> HIDE DEF next
<1>4. /\ s \in Schedules /\ s.run = row.sched.run /\ s.previous = None
      /\ row.sched.left = 0 => s.attempt = row.sched.attempt
      /\ row.sched.left # 0 => s.attempt = row.sched.attempt + 1
  BY <1>2, <1>3 DEF Schedules
<1>5. suspended \in BOOLEAN /\ (row.sched.left = 0 => suspended)
  BY <1>3
<1> HIDE DEF suspended, s
<1>6. z \in Schedules /\ z.run = s.run /\ z.previous = s.previous /\ z.attempt = s.attempt /\ z.suspended = suspended
  BY <1>4, <1>5 DEF Schedules
<1> HIDE DEF z, status
<1>7. LET new == [row EXCEPT !.status = status, !.active = FALSE, !.previous = None, !.sched = z] IN
      /\ new \in TaskRows /\ new.seq = row.seq /\ new.worker = row.worker /\ new.status = status
      /\ new.active = FALSE /\ new.previous = None /\ new.sched = z
  BY <1>2, <1>6 DEF TaskRows
<1> QED
  BY <1>1, <1>4, <1>5, <1>6, <1>7 DEF status

(* recordReverseRefreshFailure() *)
LEMMA BlamedRow ==
    ASSUME NEW p \in Pods, task[p[1]] \in TaskRows, task[p[1]].sched # None
    PROVE  LET row == task[p[1]]
               new == Blamed(p) IN
           /\ new \in TaskRows /\ new.seq = row.seq /\ new.worker = p
           /\ new.active = FALSE /\ new.previous = None
           /\ new.status = IF row.active /\ row.previous # None THEN row.previous
                           ELSE IF row.sched.previous # None THEN row.sched.previous ELSE row.status
           /\ new.sched \in Schedules /\ new.sched.run = row.sched.run /\ new.sched.previous = None
           /\ new.sched.attempt = row.sched.attempt + 1 /\ (row.sched.suspended => new.sched.suspended)
<1> DEFINE row == task[p[1]]
           s == row.sched
           before == IF row.active /\ row.previous # None THEN row.previous
                     ELSE IF s.previous # None THEN s.previous ELSE row.status
           z == [s EXCEPT !.attempt = @ + 1, !.left = IF @ = 0 THEN 0 ELSE @ - 1,
                          !.due = FALSE, !.previous = None, !.suspended = @ \/ s.left = 0]
<1>1. Blamed(p) = [row EXCEPT !.status = before, !.worker = p, !.active = FALSE, !.previous = None, !.sched = z]
  BY DEF Blamed
<1>2. s \in Schedules
  BY RowFields
<1>3. s.attempt + 1 \in Nat /\ s.suspended \in BOOLEAN /\ (IF s.left = 0 THEN 0 ELSE s.left - 1) \in 0 .. MaxPolls
  BY <1>2, SchedFields, ConstantsAssumption
<1>4. /\ z \in Schedules /\ z.run = s.run /\ z.previous = None /\ z.attempt = s.attempt + 1
      /\ s.suspended => z.suspended
  BY <1>2, <1>3 DEF Schedules
<1>5. before \in Statuses
  BY <1>2, RowFields, SchedFields DEF Checkable, Statuses, Terminal
<1> HIDE DEF before, z
<1>6. LET new == [row EXCEPT !.status = before, !.worker = p, !.active = FALSE, !.previous = None, !.sched = z] IN
      /\ new \in TaskRows /\ new.seq = row.seq /\ new.worker = p /\ new.status = before
      /\ new.active = FALSE /\ new.previous = None /\ new.sched = z
  BY <1>4, <1>5 DEF TaskRows
<1> QED
  BY <1>1, <1>4, <1>6 DEF before

-----------------------------------------------------------------------------
(* Steps                                                                     *)

(* What may be written over the row of a task: it gives up its worker or keeps *)
(* it with its run, and its schedule goes on or stops.                         *)
Follows(t, new) ==
    /\ new.active => Active(t) /\ new.worker = task[t].worker
    /\ new.active /\ new.sched # None => Scheduled(t) /\ new.sched.run = task[t].sched.run
    /\ Exists(t) /\ task[t].status # "RUNNING" => new.status # "RUNNING"

Advances(t, new) ==
    Exists(t) /\ task[t].status # "RUNNING" /\ new.sched # None =>
        /\ Scheduled(t)
        /\ \/ new.sched.attempt > task[t].sched.attempt
           \/ /\ new.sched.attempt = task[t].sched.attempt
              /\ \/ new.status \in Terminal \/ new.sched.suspended
                 \/ /\ task[t].active => new.active
                    /\ new.status = task[t].status /\ (task[t].sched.suspended => new.sched.suspended)

(* No Pod becomes busy. *)
NoneStarts == \A q \in Pods : pod'[q].pc \in Busy => pod[q].pc \in Busy /\ pod'[q].run = pod[q].run

(* Pods change, and perhaps what is recorded of runs. *)
LEMMA InvPods ==
    ASSUME Inv, TypeInv', NoneStarts, UNCHANGED <<task, asked, starts, overtaken>>, DOMAIN runs' = DOMAIN runs
    PROVE  Inv'
<1>1. RowInv'
  BY DEF Inv, RowInv, Exists
<1>2. AskedInv'
  BY DEF Inv, AskedInv, Exists
<1>3. RunInv'
  BY DEF Inv, RunInv, Scheduled, Exists, Owns, Active, NoneStarts
<1>4. StartsInv'
  BY DEF Inv, StartsInv, Exists
<1> QED
  BY <1>1, <1>2, <1>3, <1>4 DEF Inv

(* The row of one task is written. *)
LEMMA InvRow ==
    ASSUME Inv, TypeInv', NoneStarts, UNCHANGED <<runs, starts>>,
           NEW t \in Tasks, NEW new \in TaskRows, task' = [task EXCEPT ![t] = new], RowOK(t, new),
           Follows(t, new), overtaken \subseteq overtaken', t \notin overtaken' => Advances(t, new),
           new.sched # None => new.sched.run \in DOMAIN runs,
           \A u \in asked' : u \in asked \/ u = t, t \in asked' => new.status = "PENDING"
    PROVE  Inv'
<1>1. /\ task'[t] = new /\ \A u \in Tasks \ {t} : task'[u] = task[u]
      /\ new # None
  BY RowFields DEF Inv, TypeInv, TaskType
<1>2. Exists(t)' /\ \A u \in Tasks \ {t} : Exists(u)' <=> Exists(u)
  BY <1>1 DEF Exists
<1>3. RowInv'
  BY <1>1, <1>2 DEF Inv, RowInv
<1>4. AskedInv'
  <2> SUFFICES ASSUME NEW u \in asked' PROVE Exists(u)' /\ task'[u].status = "PENDING"
    BY DEF AskedInv
  <2>1. CASE u = t
    BY <1>1, <1>2, <2>1
  <2>2. CASE u # t
    <3>1. u \in asked /\ u \in Tasks
      BY <2>2 DEF Inv, TypeInv, SmallType
    <3> QED
      BY <1>1, <1>2, <2>2, <3>1 DEF Inv, AskedInv
  <2> QED
    BY <2>1, <2>2
<1>5. RunInv'
  <2>1. ASSUME NEW u \in Tasks, Scheduled(u)' PROVE task'[u].sched.run \in DOMAIN runs'
    BY <1>1, <1>2, <2>1 DEF Inv, RunInv, Scheduled
  <2>2. ASSUME NEW p \in Pods, pod'[p].pc \in Busy PROVE pod'[p].run \in DOMAIN runs'
    BY <2>2 DEF Inv, RunInv, NoneStarts
  <2>3. ASSUME NEW p \in Pods, pod'[p].pc \in Busy, Owns(p)', Scheduled(p[1])'
        PROVE  task'[p[1]].sched.run = pod'[p].run
    <3>1. pod[p].pc \in Busy /\ pod'[p].run = pod[p].run /\ p[1] \in Tasks
      BY <2>3, PodFacts DEF NoneStarts
    <3>2. CASE p[1] = t
      <4>1. new.active /\ new.worker = p /\ new.sched # None
        BY <1>1, <2>3, <3>2 DEF Owns, Active, Scheduled
      <4>2. Owns(p) /\ Scheduled(t) /\ new.sched.run = task[t].sched.run
        BY <3>2, <4>1 DEF Follows, Owns
      <4> QED
        BY <1>1, <3>1, <3>2, <4>2 DEF Inv, RunInv
    <3>3. CASE p[1] # t
      <4>1. Owns(p) /\ Scheduled(p[1])
        BY <1>1, <1>2, <2>3, <3>1, <3>3 DEF Owns, Active, Scheduled
      <4> QED
        BY <1>1, <3>1, <3>3, <4>1 DEF Inv, RunInv
    <3> QED
      BY <3>2, <3>3
  <2> QED
    BY <2>1, <2>2, <2>3 DEF RunInv
<1>6. StartsInv'
  <2> SUFFICES ASSUME NEW p \in Pods, starts[p] > 0
               PROVE  /\ Exists(p[1])' /\ task'[p[1]].status # "RUNNING"
                      /\ p[1] \notin overtaken' => starts[p] = 1 /\ Past(p, task'[p[1]])
    BY DEF StartsInv
  <2>1. /\ Exists(p[1]) /\ task[p[1]].status # "RUNNING" /\ p[1] \in Tasks /\ p[2] \in Int
        /\ p[1] \notin overtaken => starts[p] = 1 /\ Past(p, task[p[1]])
    BY PodFacts DEF Inv, StartsInv
  <2>2. CASE p[1] # t
    BY <1>1, <1>2, <2>1, <2>2
  <2>3. CASE p[1] = t
    <3>1. new.status # "RUNNING"
      BY <2>1, <2>3 DEF Follows
    <3>2. ASSUME t \notin overtaken', new.sched # None
          PROVE  \/ p[2] < new.sched.attempt
                 \/ p[2] = new.sched.attempt /\ (new.active \/ new.status \in Terminal \/ new.sched.suspended)
      <4>1. Scheduled(t) /\ task[t].sched # None
        BY <2>1, <2>3, <3>2 DEF Advances, Scheduled
      <4>2. \/ p[2] < task[t].sched.attempt
            \/ p[2] = task[t].sched.attempt /\ (task[t].active \/ task[t].status \in Terminal \/ task[t].sched.suspended)
        BY <2>1, <2>3, <3>2, <4>1 DEF Past
      <4>3. task[t].sched.attempt \in Nat /\ new.sched.attempt \in Nat
        BY <3>2, <4>1, RowFields, SchedFields, ExistingRow DEF Inv, TypeInv
      <4> QED
        BY <2>1, <2>3, <3>2, <4>2, <4>3 DEF Advances
    <3>3. p[1] \notin overtaken' => starts[p] = 1
      BY <2>1
    <3> QED
      BY <1>1, <1>2, <2>3, <3>1, <3>2, <3>3 DEF Past
  <2> QED
    BY <2>2, <2>3
<1> QED
  BY <1>3, <1>4, <1>5, <1>6 DEF Inv

(* The record of one Pod changes. *)
LEMMA PodUpdate ==
    ASSUME PodType, NEW p \in Pods, NEW rec \in PodRows, pod' = [pod EXCEPT ![p] = rec]
    PROVE  PodType' /\ pod'[p] = rec /\ \A q \in Pods \ {p} : pod'[q] = pod[q]
  BY DEF PodType

(* Records of Pods that die or are launched. *)
Queued == [NoPod EXCEPT !.pc = "queued"]
Dead == [NoPod EXCEPT !.pc = "dead"]

(* They start with nothing. *)
LEMMA NewPods ==
    /\ Queued \in PodRows /\ Dead \in PodRows /\ NoPod \in PodRows
    /\ Queued.pc = "queued" /\ Dead.pc = "dead" /\ NoPod.pc = "absent"
    /\ Queued.stop = FALSE /\ Queued.lost = FALSE /\ Queued.stalled = FALSE
    /\ Dead.stop = FALSE /\ Dead.lost = FALSE /\ Dead.stalled = FALSE
    /\ NoPod.stop = FALSE /\ NoPod.lost = FALSE /\ NoPod.stalled = FALSE
<1>1. 0 \in 0 .. MaxRuns
  BY ConstantsAssumption
<1> QED
  BY <1>1 DEF NoPod, PodRows, Queued, Dead

(* The record of one Pod changes, and perhaps what is recorded of runs. *)
LEMMA InvPod ==
    ASSUME Inv, NEW p \in Pods, NEW rec \in PodRows, pod' = [pod EXCEPT ![p] = rec],
           rec.pc \in Busy => pod[p].pc \in Busy /\ rec.run = pod[p].run,
           RunType', SmallType', UNCHANGED <<task, asked, starts, overtaken>>, DOMAIN runs' = DOMAIN runs
    PROVE  Inv'
<1>1. PodType' /\ pod'[p] = rec /\ \A q \in Pods \ {p} : pod'[q] = pod[q]
  BY PodUpdate DEF Inv, TypeInv
<1>2. TypeInv'
  BY <1>1 DEF Inv, TypeInv, TaskType
<1>3. NoneStarts
  BY <1>1 DEF NoneStarts
<1> QED
  BY <1>2, <1>3, InvPods

(* Types of what most steps leave alone. *)
LEMMA SameTypes ==
    ASSUME Inv
    PROVE  /\ UNCHANGED <<setting, runs>> => RunType'
           /\ UNCHANGED <<lease, scanned, asked, starts, overtaken>> => SmallType'
           /\ UNCHANGED pod => PodType'
           /\ UNCHANGED task => TaskType'
  BY DEF Inv, TypeInv, RunType, SmallType, PodType, TaskType

(* Launches, ends and signals of Pods. *)
LEMMA PodSteps ==
    ASSUME Inv, NEW p \in Pods, UNCHANGED setting,
           \/ (p[2] = -1 /\ LaunchRun(p[1])) \/ Acquire(p) \/ Refused(p) \/ Progress(p) \/ HeartbeatFails(p)
           \/ DeletePod(p) \/ Terminate(p) \/ Stopped(p) \/ Crash(p) \/ Stall(p) \/ Wake(p)
    PROVE  Inv'
<1>1. pod[p] \in PodRows /\ p = <<p[1], p[2]>>
  BY PodFacts DEF Inv, TypeInv, PodType
<1>2. UNCHANGED <<task, runs, asked, starts, overtaken>> /\ DOMAIN runs' = DOMAIN runs
  BY DEF LaunchRun, Acquire, Refused, Progress, HeartbeatFails, DeletePod, Terminate, Stopped, Crash, Stall, Wake
<1>3. RunType' /\ SmallType'
  <2>1. UNCHANGED scanned /\ (UNCHANGED lease \/ lease' = p)
    BY DEF LaunchRun, Acquire, Refused, Progress, HeartbeatFails, DeletePod, Terminate, Stopped, Crash, Stall, Wake
  <2> QED
    BY <1>2, <2>1, SameTypes DEF Inv, TypeInv, SmallType
<1>4. \E rec \in PodRows : pod' = [pod EXCEPT ![p] = rec] /\ (rec.pc \in Busy => pod[p].pc \in Busy /\ rec.run = pod[p].run)
  <2>1. CASE p[2] = -1 /\ LaunchRun(p[1])
    <3>1. pod' = [pod EXCEPT ![p] = Queued]
      BY <1>1, <2>1 DEF LaunchRun, Queued
    <3> QED
      BY <3>1, NewPods DEF Busy
  <2>2. CASE Refused(p) \/ Stopped(p) \/ Crash(p)
    <3>1. pod' = [pod EXCEPT ![p] = Dead]
      BY <2>2 DEF Refused, Stopped, Crash, Die, Dead
    <3> QED
      BY <3>1, NewPods DEF Busy
  <2>3. CASE DeletePod(p)
    BY <2>3, NewPods DEF DeletePod, Busy
  <2>4. CASE Acquire(p)
    <3> DEFINE rec == [pod[p] EXCEPT !.pc = "leased"]
    <3>1. pod' = [pod EXCEPT ![p] = rec]
      BY <2>4 DEF Acquire, Goto
    <3>2. rec \in PodRows /\ rec.pc = "leased"
      BY <1>1 DEF PodRows
    <3> QED
      BY <3>1, <3>2 DEF Busy
  <2>5. CASE Progress(p)
    <3> DEFINE rec == [pod[p] EXCEPT !.changed = TRUE]
    <3>1. pod' = [pod EXCEPT ![p] = rec]
      BY <2>5 DEF Progress
    <3>2. rec \in PodRows /\ rec.pc = pod[p].pc /\ rec.run = pod[p].run
      BY <1>1 DEF PodRows
    <3> QED
      BY <3>1, <3>2
  <2>6. CASE HeartbeatFails(p)
    <3> DEFINE rec == [pod[p] EXCEPT !.stop = TRUE, !.lost = TRUE]
    <3>1. pod' = [pod EXCEPT ![p] = rec]
      BY <2>6 DEF HeartbeatFails
    <3>2. rec \in PodRows /\ rec.pc = pod[p].pc /\ rec.run = pod[p].run
      BY <1>1 DEF PodRows
    <3> QED
      BY <3>1, <3>2
  <2>7. CASE Terminate(p)
    <3> DEFINE rec == [pod[p] EXCEPT !.stop = TRUE]
    <3>1. pod' = [pod EXCEPT ![p] = rec]
      BY <2>7 DEF Terminate
    <3>2. rec \in PodRows /\ rec.pc = pod[p].pc /\ rec.run = pod[p].run
      BY <1>1 DEF PodRows
    <3> QED
      BY <3>1, <3>2
  <2>8. CASE Stall(p) \/ Wake(p)
    <3>1. PICK b \in BOOLEAN : pod' = [pod EXCEPT ![p] = [pod[p] EXCEPT !.stalled = b]]
      BY <2>8 DEF Stall, Wake
    <3>2. LET rec == [pod[p] EXCEPT !.stalled = b] IN rec \in PodRows /\ rec.pc = pod[p].pc /\ rec.run = pod[p].run
      BY <1>1 DEF PodRows
    <3> QED
      BY <3>1, <3>2
  <2> QED
    BY <2>1, <2>2, <2>3, <2>4, <2>5, <2>6, <2>7, <2>8
<1> QED
  BY <1>2, <1>3, <1>4, InvPod

(* The lease expires, and due checks are read. *)
LEMMA QuietSteps ==
    ASSUME Inv, UNCHANGED setting, ExpireLease \/ \E t \in Tasks : Scan(t)
    PROVE  Inv'
<1>1. UNCHANGED <<task, runs, pod, asked, starts, overtaken>>
  BY DEF ExpireLease, Scan
<1>2. SmallType'
  <2>1. CASE ExpireLease
    BY <2>1 DEF ExpireLease, Inv, TypeInv, SmallType
  <2>2. ASSUME NEW t \in Tasks, Scan(t) PROVE SmallType'
    <3>1. <<t, task[t].sched.attempt>> \in Pods
      <4>1. setting.attempts \in 0 .. MaxAttempt
        BY ConstantsAssumption DEF Inv, TypeInv, RunType
      <4>2. task[t].sched.attempt \in 0 .. setting.attempts
        BY <2>2 DEF Scan
      <4>3. task[t].sched.attempt \in -1 .. MaxAttempt
        BY <4>1, <4>2, ConstantsAssumption
      <4> QED
        BY <4>3 DEF Pods
    <3> QED
      BY <2>2, <3>1 DEF Scan, Inv, TypeInv, SmallType
  <2> QED
    BY <2>1, <2>2
<1>3. TypeInv'
  BY <1>1, <1>2, SameTypes DEF Inv, TypeInv
<1>4. NoneStarts
  BY <1>1 DEF NoneStarts
<1> QED
  BY <1>1, <1>3, <1>4, InvPods

(* The outcome of a delivery is recorded on its run. *)
LEMMA RunSteps ==
    ASSUME Inv, NEW p \in Pods, UNCHANGED setting, Commit(p) \/ Detach(p)
    PROVE  Inv'
<1>1. pod[p] \in PodRows /\ pod[p].pc = "working" /\ UNCHANGED <<task, lease, scanned, asked, starts, overtaken>>
  BY DEF Inv, TypeInv, PodType, Commit, Detach
<1>2. pod[p].run \in DOMAIN runs /\ runs \in Seq(RunRows)
  BY <1>1 DEF Inv, RunInv, Busy, TypeInv, RunType
<1>3. PICK row : runs' = [runs EXCEPT ![pod[p].run] = row] /\ row \in RunRows
  <2>1. runs[pod[p].run] \in RunRows
    BY <1>2
  <2>2. CASE Commit(p)
    <3>1. runs' = [runs EXCEPT ![pod[p].run] = [runs[pod[p].run] EXCEPT !.ended = TRUE]]
      BY <2>2 DEF Commit
    <3>2. [runs[pod[p].run] EXCEPT !.ended = TRUE] \in RunRows
      BY <2>1 DEF RunRows
    <3> QED
      BY <3>1, <3>2
  <2>3. CASE Detach(p)
    <3>1. PICK d \in BOOLEAN : runs' = [runs EXCEPT ![pod[p].run].detached = @ \/ d]
      BY <2>3 DEF Detach
    <3>2. LET row == [runs[pod[p].run] EXCEPT !.detached = @ \/ d] IN
          runs' = [runs EXCEPT ![pod[p].run] = row] /\ row \in RunRows
      BY <2>1, <3>1 DEF RunRows
    <3> QED
      BY <3>2
  <2> QED
    BY <2>2, <2>3
<1>4. runs' \in Seq(RunRows) /\ Len(runs') = Len(runs) /\ DOMAIN runs' = DOMAIN runs
  BY <1>2, <1>3
<1>5. RunType' /\ SmallType'
  BY <1>1, <1>4, SameTypes DEF Inv, TypeInv, RunType
<1>6. \E pc \in {"delivered", "waiting"} : pod' = [pod EXCEPT ![p] = [pod[p] EXCEPT !.pc = pc]]
  BY DEF Commit, Detach, Goto
<1>7. \E rec \in PodRows : pod' = [pod EXCEPT ![p] = rec] /\ rec.run = pod[p].run
  BY <1>1, <1>6 DEF PodRows
<1> QED
  BY <1>1, <1>4, <1>5, <1>7, InvPod DEF Busy

(* A Pod ends, and writes the row if it is still its own. *)
LEMMA SignOffInv ==
    ASSUME Inv, NEW p \in Pods, UNCHANGED <<setting, runs>>, NEW may \in BOOLEAN, NEW row, NEW news \in BOOLEAN,
           SignOff(p, may, row, news), overtaken \subseteq overtaken', overtaken' \subseteq overtaken \cup {p[1]},
           may => /\ row \in TaskRows /\ row.active = FALSE /\ row.status # "RUNNING" /\ RowOK(p[1], row)
                  /\ p[1] \notin overtaken' => Advances(p[1], row)
                  /\ row.sched # None => row.sched.run \in DOMAIN runs,
           ~may => UNCHANGED overtaken
    PROVE  Inv'
<1> DEFINE t == p[1]
<1>1. t \in Tasks /\ UNCHANGED <<scanned, starts>> /\ pod' = [pod EXCEPT ![p] = Dead]
      /\ (lease' = lease \/ lease' = None)
  BY PodFacts DEF SignOff, Die, Release, Dead
<1>2. /\ asked' \subseteq asked
      /\ may /\ t \in asked' => row.status \notin Terminal
  BY DEF SignOff, AskedAfter
<1>3. PodType' /\ pod'[p] = Dead /\ \A q \in Pods \ {p} : pod'[q] = pod[q]
  BY <1>1, NewPods, PodUpdate DEF Inv, TypeInv
<1>4. NoneStarts
  BY <1>3, NewPods DEF NoneStarts, Busy
<1>5. SmallType' /\ RunType'
  <2>1. /\ lease \in Pods \cup {None} /\ scanned \subseteq Pods /\ asked \subseteq Tasks /\ overtaken \subseteq Tasks
        /\ starts \in [Pods -> Nat]
    BY DEF Inv, TypeInv, SmallType
  <2>2. overtaken' \subseteq Tasks /\ asked' \subseteq Tasks /\ lease' \in Pods \cup {None}
    BY <1>1, <1>2, <2>1
  <2> QED
    BY <1>1, <2>1, <2>2, SameTypes DEF SmallType
<1>6. CASE may
  <2>1. task' = [task EXCEPT ![t] = row]
    BY <1>6 DEF SignOff
  <2>2. TypeInv'
    BY <1>1, <1>3, <1>5, <1>6, <2>1 DEF Inv, TypeInv, TaskType
  <2>3. Follows(t, row)
    BY <1>6 DEF Follows
  <2>4. t \in asked' => row.status = "PENDING"
    BY <1>2, <1>6, RowFields DEF Statuses
  <2>5. \A u \in asked' : u \in asked \/ u = t
    BY <1>2
  <2> HIDE DEF t
  <2>6. /\ row \in TaskRows /\ RowOK(t, row) /\ (t \notin overtaken' => Advances(t, row))
        /\ row.sched # None => row.sched.run \in DOMAIN runs
    BY <1>6 DEF t
  <2> QED
    BY <1>1, <1>4, <2>1, <2>2, <2>3, <2>4, <2>5, <2>6, InvRow
<1>7. CASE ~may
  <2>1. UNCHANGED <<task, asked, overtaken>>
    BY <1>7 DEF SignOff
  <2>2. TypeInv'
    BY <1>3, <1>5, <2>1, SameTypes DEF TypeInv
  <2> QED
    BY <1>1, <1>4, <2>1, <2>2, InvPods
<1> QED
  BY <1>6, <1>7

(* A Pod that may write has its task's row. *)
LEMMA OwnRow ==
    ASSUME Inv, NEW p \in Pods, MayFinish(p)
    PROVE  /\ p[1] \in Tasks /\ Exists(p[1]) /\ task[p[1]] \in TaskRows
           /\ task[p[1]].active /\ task[p[1]].worker = p /\ task[p[1]].status \in {"RUNNING", "PENDING"}
           /\ task[p[1]].status = "RUNNING" => task[p[1]].sched = None
           /\ task[p[1]].status = "PENDING" => Scheduled(p[1]) /\ task[p[1]].sched \in Schedules /\ p[2] >= 0
<1>1. p[1] \in Tasks
  BY PodFacts
<1>2. Exists(p[1]) /\ task[p[1]].active /\ task[p[1]].worker = p /\ task[p[1]].status \in {"RUNNING", "PENDING"}
  BY DEF MayFinish, Owns, Active
<1>3. RowOK(p[1], task[p[1]])
  BY <1>1, <1>2 DEF Inv, RowInv
<1>4. task[p[1]] \in TaskRows /\ (Scheduled(p[1]) => task[p[1]].sched \in Schedules)
  BY <1>1, <1>2, ExistingRow DEF Inv, TypeInv
<1> QED
  BY <1>1, <1>2, <1>3, <1>4 DEF RowOK, Scheduled

(* Tasks.finish() *)
LEMMA FinishInv ==
    ASSUME Inv, NEW p \in Pods, UNCHANGED <<setting, runs, overtaken>>, NEW status \in Terminal,
           SignOff(p, MayFinish(p), Finished(p, status), TRUE)
    PROVE  Inv'
<1> DEFINE row == Finished(p, status)
<1>1. MayFinish(p) =>
        /\ row \in TaskRows /\ row.active = FALSE /\ row.status # "RUNNING" /\ RowOK(p[1], row)
        /\ Advances(p[1], row)
        /\ row.sched # None => row.sched.run \in DOMAIN runs
  <2> SUFFICES ASSUME MayFinish(p)
               PROVE  /\ row \in TaskRows /\ row.active = FALSE /\ row.status # "RUNNING" /\ RowOK(p[1], row)
                      /\ Advances(p[1], row)
                      /\ row.sched # None => row.sched.run \in DOMAIN runs
    OBVIOUS
  <2>1. p[1] \in Tasks /\ Exists(p[1]) /\ task[p[1]] \in TaskRows
    BY OwnRow
  <2>2. /\ row \in TaskRows /\ row.status = status /\ row.active = FALSE
        /\ row.sched = IF status = "FAILED" THEN task[p[1]].sched ELSE None
    BY <2>1, FinishedRow DEF Statuses
  <2> HIDE DEF row
  <2>3. Scheduled(p[1]) => task[p[1]].sched.run \in DOMAIN runs
    BY <2>1 DEF Inv, RunInv
  <2> QED
    BY <2>1, <2>2, <2>3 DEF RowOK, Advances, Scheduled, Terminal
<1>2. MayFinish(p) \in BOOLEAN
  BY DEF MayFinish
<1> HIDE DEF row
<1>3. SignOff(p, MayFinish(p), row, TRUE)
  BY DEF row
<1> QED
  BY <1>1, <1>2, <1>3, SignOffInv

(* Tasks.wait() *)
LEMMA WaitInv ==
    ASSUME Inv, NEW p \in Pods, UNCHANGED <<setting, runs>>, pod[p].pc \in Busy, Wait(p)
    PROVE  Inv'
<1> DEFINE row == Waiting(p)
           r == pod[p].run
<1>1. overtaken' = overtaken \cup {t \in {p[1]} : MayFinish(p) /\ Scheduled(t) /\ Latest(r) # t}
  BY DEF Wait
<1>2. MayFinish(p) =>
        /\ row \in TaskRows /\ row.active = FALSE /\ row.status # "RUNNING" /\ RowOK(p[1], row)
        /\ p[1] \notin overtaken' => Advances(p[1], row)
        /\ row.sched # None => row.sched.run \in DOMAIN runs
  <2> SUFFICES ASSUME MayFinish(p)
               PROVE  /\ row \in TaskRows /\ row.active = FALSE /\ row.status # "RUNNING" /\ RowOK(p[1], row)
                      /\ p[1] \notin overtaken' => Advances(p[1], row)
                      /\ row.sched # None => row.sched.run \in DOMAIN runs
    OBVIOUS
  <2>1. /\ p[1] \in Tasks /\ Exists(p[1]) /\ task[p[1]] \in TaskRows /\ Owns(p)
        /\ task[p[1]].status \in {"RUNNING", "PENDING"}
        /\ task[p[1]].status = "PENDING" => Scheduled(p[1]) /\ task[p[1]].sched \in Schedules
    BY OwnRow DEF MayFinish
  <2>2. r \in DOMAIN runs /\ r \in Nat
    BY DEF Inv, RunInv, TypeInv, RunType
  <2>3. /\ row \in TaskRows /\ row.active = FALSE /\ row.status \in {"FAILED", "PENDING"}
        /\ row.sched \in Schedules /\ row.sched.run = r
        /\ row.status = "FAILED" => WithRun(r) # {} /\ row.sched.attempt = task[Latest(r)].sched.attempt
        /\ row.status = "PENDING" => (WithRun(r) # {} => row.sched.attempt = task[Latest(r)].sched.attempt + 1)
    BY <2>1, <2>2, WaitingRow DEF Inv, TypeInv
  <2>4. ASSUME p[1] \notin overtaken', task[p[1]].status # "RUNNING" PROVE Scheduled(p[1]) /\ p[1] = Latest(r) /\ WithRun(r) # {}
    <3>1. Scheduled(p[1])
      BY <2>1, <2>4
    <3>2. task[p[1]].sched.run = r
      BY <2>1, <3>1 DEF Inv, RunInv
    <3> QED
      BY <1>1, <2>1, <2>4, <3>1, <3>2 DEF WithRun
  <2>5. row.sched # None
    BY <2>3, SchedFields
  <2> HIDE DEF row, r
  <2>6. RowOK(p[1], row)
    BY <2>3, <2>5 DEF RowOK
  <2>7. p[1] \notin overtaken' => Advances(p[1], row)
    <3> SUFFICES ASSUME p[1] \notin overtaken', task[p[1]].status # "RUNNING" PROVE Advances(p[1], row)
      BY DEF Advances
    <3>1. Scheduled(p[1]) /\ p[1] = Latest(r) /\ WithRun(r) # {} /\ task[p[1]].sched.attempt \in Nat
      BY <2>1, <2>4, SchedFields
    <3> QED
      BY <2>3, <3>1 DEF Advances, Terminal
  <2> QED
    BY <2>2, <2>3, <2>6, <2>7
<1>3. MayFinish(p) \in BOOLEAN
  BY DEF MayFinish
<1> HIDE DEF row
<1>4. SignOff(p, MayFinish(p), row, TRUE)
  BY DEF row, Wait
<1>5. overtaken \subseteq overtaken' /\ overtaken' \subseteq overtaken \cup {p[1]} /\ (~MayFinish(p) => UNCHANGED overtaken)
  BY <1>1
<1> QED
  BY <1>2, <1>3, <1>4, <1>5, SignOffInv

(* Tasks.refreshFailed() *)
LEMMA RefreshFailedInv ==
    ASSUME Inv, NEW p \in Pods, UNCHANGED <<setting, runs, overtaken>>, NEW stopChecks \in BOOLEAN, pod[p].pc \in Busy,
           SignOff(p, MayRefreshFail(p), RefreshFailed(p, stopChecks), FALSE)
    PROVE  Inv'
<1> DEFINE row == RefreshFailed(p, stopChecks)
<1>1. MayRefreshFail(p) =>
        /\ row \in TaskRows /\ row.active = FALSE /\ row.status # "RUNNING" /\ RowOK(p[1], row)
        /\ Advances(p[1], row)
        /\ row.sched # None => row.sched.run \in DOMAIN runs
  <2> SUFFICES ASSUME MayRefreshFail(p)
               PROVE  /\ row \in TaskRows /\ row.active = FALSE /\ row.status # "RUNNING" /\ RowOK(p[1], row)
                      /\ Advances(p[1], row)
                      /\ row.sched # None => row.sched.run \in DOMAIN runs
    OBVIOUS
  <2>1. MayFinish(p) /\ task[p[1]].status = "PENDING"
    BY DEF MayRefreshFail, MayFinish
  <2>2. p[1] \in Tasks /\ Exists(p[1]) /\ task[p[1]] \in TaskRows /\ Scheduled(p[1]) /\ task[p[1]].sched \in Schedules
    BY <2>1, OwnRow
  <2>3. pod[p].run \in Nat /\ task[p[1]].sched # None
    BY <2>2 DEF Inv, RunInv, TypeInv, RunType, Scheduled
  <2>4. /\ row \in TaskRows /\ row.active = FALSE
        /\ row.status = IF task[p[1]].previous = None THEN task[p[1]].status ELSE task[p[1]].previous
        /\ row.sched \in Schedules /\ row.sched.run = task[p[1]].sched.run
        /\ task[p[1]].sched.left = 0 => row.sched.suspended /\ row.sched.attempt = task[p[1]].sched.attempt
        /\ task[p[1]].sched.left # 0 => row.sched.attempt = task[p[1]].sched.attempt + 1
    BY <2>2, <2>3, RefreshFailedRow
  <2> HIDE DEF row
  <2>5. row.status # "RUNNING" /\ row.sched # None
    BY <2>1, <2>2, <2>4, RowFields, SchedFields DEF Checkable
  <2>6. task[p[1]].sched.run \in DOMAIN runs /\ task[p[1]].sched.attempt \in Nat
    BY <2>2, SchedFields DEF Inv, RunInv
  <2>7. RowOK(p[1], row)
    BY <2>4, <2>5 DEF RowOK
  <2>8. Advances(p[1], row)
    BY <2>2, <2>4, <2>6 DEF Advances
  <2> QED
    BY <2>4, <2>5, <2>6, <2>7, <2>8
<1>2. MayRefreshFail(p) \in BOOLEAN
  BY DEF MayRefreshFail
<1> HIDE DEF row
<1>3. SignOff(p, MayRefreshFail(p), row, FALSE)
  BY DEF row
<1> QED
  BY <1>1, <1>2, <1>3, SignOffInv

(* The ends of Pods. *)
LEMMA EndSteps ==
    ASSUME Inv, NEW p \in Pods, UNCHANGED setting, EndDelivered(p) \/ EndPending(p) \/ EndFailed(p)
    PROVE  Inv'
<1>1. UNCHANGED runs /\ pod[p].pc \in Busy
  BY DEF EndDelivered, EndPending, EndFailed, Busy
<1>2. StopStatus(p) \in Terminal
  BY DEF StopStatus, Terminal
<1>3. CASE EndDelivered(p)
  <2>1. PICK status \in IF pod[p].stop THEN {StopStatus(p)} ELSE {"COMPLETE", "FAILED"} :
          SignOff(p, MayFinish(p), Finished(p, status), TRUE)
    BY <1>3 DEF EndDelivered
  <2>2. status \in Terminal /\ UNCHANGED overtaken
    BY <1>2, <1>3 DEF Terminal, EndDelivered
  <2> QED
    BY <1>1, <2>1, <2>2, FinishInv
<1>4. CASE EndPending(p)
  BY <1>1, <1>4, WaitInv DEF EndPending
<1>5. CASE EndFailed(p)
  <2>1. \/ /\ \E stopChecks \in BOOLEAN : SignOff(p, MayRefreshFail(p), RefreshFailed(p, stopChecks), FALSE)
           /\ UNCHANGED overtaken
        \/ Wait(p)
        \/ /\ SignOff(p, MayFinish(p), Finished(p, StopStatus(p)), TRUE)
           /\ UNCHANGED overtaken
    BY <1>5 DEF EndFailed
  <2> QED
    BY <1>1, <1>2, <2>1, FinishInv, WaitInv, RefreshFailedInv
<1> QED
  BY <1>3, <1>4, <1>5

(* recordReverseRefreshFailure() *)
LEMMA BlameInv ==
    ASSUME Inv, NEW p \in Pods, NEW b \in BOOLEAN, Blamable(p, b), UNCHANGED <<setting, runs, lease, starts, overtaken>>,
           task' = [task EXCEPT ![p[1]] = Blamed(p)], asked' = AskedAfter(p[1], Blamed(p).status),
           scanned' \subseteq scanned, PodType', NoneStarts
    PROVE  Inv'
<1> DEFINE t == p[1]
           row == Blamed(p)
<1>1. t \in Tasks /\ Scheduled(t) /\ Exists(t) /\ task[t].status = "PENDING"
  BY PodFacts DEF Blamable, Scheduled
<1>2. task[t] \in TaskRows /\ task[t].sched \in Schedules /\ task[t].sched # None
  BY <1>1, ExistingRow DEF Inv, TypeInv, Scheduled
<1>3. /\ row \in TaskRows /\ row.active = FALSE
      /\ row.status = IF task[t].active /\ task[t].previous # None THEN task[t].previous
                      ELSE IF task[t].sched.previous # None THEN task[t].sched.previous ELSE task[t].status
      /\ row.sched \in Schedules /\ row.sched.run = task[t].sched.run
      /\ row.sched.attempt = task[t].sched.attempt + 1
  BY <1>2, BlamedRow
<1> HIDE DEF row
<1>4. row.status # "RUNNING" /\ row.sched # None /\ row.status \in Statuses
  BY <1>1, <1>2, <1>3, RowFields, SchedFields DEF Checkable
<1>5. RowOK(t, row) /\ Follows(t, row)
  BY <1>3, <1>4 DEF RowOK, Follows
<1>6. task[t].sched.run \in DOMAIN runs /\ task[t].sched.attempt \in Nat
  BY <1>1, <1>2, SchedFields DEF Inv, RunInv
<1>7. Advances(t, row)
  BY <1>1, <1>3, <1>6 DEF Advances
<1>8. asked' \subseteq asked /\ (t \in asked' => row.status = "PENDING")
  BY <1>4 DEF AskedAfter, Statuses, row
<1>9. TypeInv'
  <2>1. SmallType'
    BY <1>8 DEF Inv, TypeInv, SmallType
  <2>2. TaskType'
    BY <1>1, <1>3 DEF Inv, TypeInv, TaskType, row
  <2> QED
    BY <2>1, <2>2, SameTypes DEF TypeInv
<1> HIDE DEF t
<1>10. task' = [task EXCEPT ![t] = row] /\ \A u \in asked' : u \in asked \/ u = t
  BY <1>8 DEF t, row
<1> QED
  BY <1>1, <1>3, <1>5, <1>6, <1>7, <1>8, <1>9, <1>10, InvRow

(* A Pod is created or was there. *)
LEMMA Creation ==
    ASSUME Inv, NEW p \in Pods,
           pod' = pod \/ (pod[p].pc = "absent" /\ pod' = [pod EXCEPT ![p] = Queued])
    PROVE  PodType' /\ NoneStarts
<1>1. CASE pod' = pod
  BY <1>1, SameTypes DEF NoneStarts
<1>2. CASE pod[p].pc = "absent" /\ pod' = [pod EXCEPT ![p] = Queued]
  <2>1. PodType' /\ pod'[p] = Queued /\ \A q \in Pods \ {p} : pod'[q] = pod[q]
    BY <1>2, NewPods, PodUpdate DEF Inv, TypeInv
  <2> QED
    BY <2>1, NewPods DEF NoneStarts, Busy
<1> QED
  BY <1>1, <1>2

(* The controller launches a check, or fails to. *)
LEMMA LaunchCheckInv ==
    ASSUME Inv, NEW p \in Pods, UNCHANGED setting, LaunchCheck(p)
    PROVE  Inv'
<1>1. /\ UNCHANGED <<runs, lease, starts, overtaken>> /\ scanned' \subseteq scanned
      /\ pod' = pod \/ (pod[p].pc = "absent" /\ pod' = [pod EXCEPT ![p] = Queued])
  BY DEF LaunchCheck, Queued
<1>2. PodType' /\ NoneStarts
  BY <1>1, Creation
<1>3. CASE UNCHANGED <<task, asked>>
  <2>1. TypeInv'
    BY <1>1, <1>2, <1>3, SameTypes DEF Inv, TypeInv, SmallType
  <2> QED
    BY <1>1, <1>2, <1>3, <2>1, InvPods
<1>4. CASE ~UNCHANGED <<task, asked>>
  <2>1. /\ Blamable(p, FALSE) /\ task' = [task EXCEPT ![p[1]] = Blamed(p)]
        /\ asked' = AskedAfter(p[1], Blamed(p).status)
    BY <1>4 DEF LaunchCheck
  <2> QED
    BY <1>1, <1>2, <2>1, BlameInv
<1> QED
  BY <1>3, <1>4

(* The row of one task is written by the controller or a user. *)
LEMMA ControllerInv ==
    ASSUME Inv, UNCHANGED <<setting, runs, lease, starts, overtaken>>, NEW t \in Tasks, NEW new \in TaskRows,
           task' = [task EXCEPT ![t] = new], RowOK(t, new), Follows(t, new), t \notin overtaken => Advances(t, new),
           new.sched # None => new.sched.run \in DOMAIN runs, scanned' \subseteq Pods,
           asked' \subseteq asked \cup {t}, t \in asked' => new.status = "PENDING", PodType', NoneStarts
    PROVE  Inv'
<1>1. SmallType'
  BY DEF Inv, TypeInv, SmallType
<1>2. TaskType'
  BY DEF Inv, TypeInv, TaskType
<1>3. TypeInv'
  BY <1>1, <1>2, SameTypes DEF TypeInv
<1>4. overtaken \subseteq overtaken' /\ (t \notin overtaken' => Advances(t, new)) /\ UNCHANGED <<runs, starts>>
      /\ \A u \in asked' : u \in asked \/ u = t
  OBVIOUS
<1> QED
  BY <1>3, <1>4, InvRow

(* A user asks for a check. *)
LEMMA RefreshInv ==
    ASSUME Inv, NEW t \in Tasks, UNCHANGED setting, Refresh(t)
    PROVE  Inv'
<1> DEFINE s == task[t].sched
           previous == IF task[t].status = "CANCELLED" \/ s.previous = None THEN task[t].status ELSE s.previous
           z == [s EXCEPT !.attempt = @ + 1, !.left = MaxPolls, !.due = TRUE, !.suspended = FALSE, !.previous = previous]
           new == [task[t] EXCEPT !.status = "PENDING", !.sched = z]
<1>1. /\ Scheduled(t) /\ Exists(t) /\ task[t].status \in Checkable /\ ~task[t].active
      /\ s.attempt < setting.attempts
  BY DEF Refresh, Refreshable, Scheduled
<1>2. task[t] \in TaskRows /\ s \in Schedules
  BY <1>1, ExistingRow DEF Inv, TypeInv
<1>3. /\ task' = [task EXCEPT ![t] = new] /\ scanned' = scanned \cup {<<t, s.attempt + 1>>}
      /\ asked' \subseteq asked \cup {t} /\ UNCHANGED <<setting, runs, pod, lease, starts, overtaken>>
  BY DEF Refresh
<1>4. z \in Schedules /\ z.run = s.run /\ z.attempt = s.attempt + 1
  <2>1. s.attempt + 1 \in Nat /\ MaxPolls \in 0 .. MaxPolls /\ previous \in Checkable \cup {None}
    BY <1>1, <1>2, SchedFields, ConstantsAssumption
  <2> HIDE DEF previous
  <2> QED
    BY <1>2, <2>1 DEF Schedules
<1> HIDE DEF z
<1>5. new \in TaskRows /\ new.status = "PENDING" /\ new.sched = z /\ new.active = FALSE /\ new.worker = task[t].worker
  <2>1. "PENDING" \in Statuses /\ task[t].active = FALSE
    BY <1>1, <1>2, RowFields DEF Statuses
  <2> QED
    BY <1>2, <1>4, <2>1 DEF TaskRows
<1> HIDE DEF new
<1>6. <<t, s.attempt + 1>> \in Pods
  <2>1. setting.attempts \in 0 .. MaxAttempt /\ s.attempt \in Nat
    BY <1>2, ConstantsAssumption, SchedFields DEF Inv, TypeInv, RunType
  <2>2. s.attempt + 1 \in -1 .. MaxAttempt
    BY <1>1, <2>1, ConstantsAssumption
  <2> QED
    BY <2>2 DEF Pods
<1>7. z # None /\ s.attempt \in Nat /\ s.run \in DOMAIN runs
  BY <1>1, <1>2, <1>4, SchedFields DEF Inv, RunInv
<1>8. RowOK(t, new) /\ Follows(t, new) /\ Advances(t, new)
  BY <1>1, <1>4, <1>5, <1>7 DEF RowOK, Follows, Advances
<1>9. scanned' \subseteq Pods
  BY <1>3, <1>6 DEF Inv, TypeInv, SmallType
<1>10. PodType' /\ NoneStarts
  BY <1>3, SameTypes DEF NoneStarts
<1>11. new.sched # None => new.sched.run \in DOMAIN runs
  BY <1>4, <1>5, <1>7
<1> HIDE DEF s
<1> QED
  BY <1>3, <1>5, <1>8, <1>9, <1>10, <1>11, ControllerInv

(* The controller writes a row of its own. *)
LEMMA ControllerRowFacts ==
    ASSUME NEW status \in {"CANCELLED", "FAILED"}
    PROVE  LET row == ControllerRow(status) IN
           row \in TaskRows /\ row.status = status /\ row.active = FALSE /\ row.sched = None /\ row.worker = None
           /\ row.previous = None
<1>1. NextSeq \in Nat
  BY ConstantsAssumption, FS_Subset, FS_CardinalityType DEF NextSeq
<1> QED
  BY <1>1 DEF ControllerRow, TaskRows, Statuses, Terminal

(* A user cancels. *)
LEMMA CancelInv ==
    ASSUME Inv, NEW t \in Tasks, UNCHANGED setting, Cancel(t)
    PROVE  Inv'
<1> DEFINE new == IF ~Exists(t) THEN ControllerRow("CANCELLED") ELSE [task[t] EXCEPT !.status = "CANCELLED"]
<1>1. /\ task' = [task EXCEPT ![t] = new]
      /\ Exists(t) => task[t].status \in {"RUNNING", "PENDING"}
      /\ asked' = asked \ {t} /\ UNCHANGED <<setting, runs, lease, scanned, starts, overtaken>>
  BY DEF Cancel
<1>2. pod' = [p \in Pods |-> IF p[1] = t /\ pod[p].pc \notin {"absent", "dead"} THEN [pod[p] EXCEPT !.stop = TRUE] ELSE pod[p]]
  BY DEF Cancel
<1>3. \A p \in Pods : pod[p] \in PodRows
  BY DEF Inv, TypeInv, PodType
<1>4. \A p \in Pods : LET rec == [pod[p] EXCEPT !.stop = TRUE] IN rec \in PodRows /\ rec.pc = pod[p].pc /\ rec.run = pod[p].run
  BY <1>3 DEF PodRows
<1>5. PodType' /\ NoneStarts
  BY <1>2, <1>3, <1>4 DEF PodType, NoneStarts
<1>6. Exists(t) => task[t] \in TaskRows /\ (Scheduled(t) => task[t].sched \in Schedules)
  BY ExistingRow DEF Inv, TypeInv
<1>7. /\ new \in TaskRows /\ new.status = "CANCELLED"
      /\ Exists(t) => new.sched = task[t].sched /\ new.active = task[t].active /\ new.worker = task[t].worker
      /\ ~Exists(t) => new.sched = None /\ new.active = FALSE
  <2>1. CASE Exists(t)
    BY <1>6, <2>1 DEF TaskRows, Statuses, Terminal
  <2>2. CASE ~Exists(t)
    BY <2>2, ControllerRowFacts
  <2> QED
    BY <2>1, <2>2
<1> HIDE DEF new
<1>8. Exists(t) => RowOK(t, task[t])
  BY DEF Inv, RowInv
<1>9. RowOK(t, new)
  BY <1>7, <1>8 DEF RowOK
<1>10. Follows(t, new) /\ Advances(t, new)
  <2>1. CASE Exists(t)
    BY <1>7, <2>1 DEF Follows, Advances, Active, Scheduled, Terminal
  <2>2. CASE ~Exists(t)
    BY <1>7, <2>2 DEF Follows, Advances
  <2> QED
    BY <2>1, <2>2
<1>11. new.sched # None => new.sched.run \in DOMAIN runs
  BY <1>7 DEF Inv, RunInv, Scheduled
<1>12. scanned' \subseteq Pods /\ asked' \subseteq asked \cup {t} /\ t \notin asked'
  BY <1>1 DEF Inv, TypeInv, SmallType
<1> QED
  BY <1>1, <1>5, <1>7, <1>9, <1>10, <1>11, <1>12, ControllerInv

(* The time of a check comes. *)
LEMMA TickInv ==
    ASSUME Inv, NEW t \in Tasks, UNCHANGED setting, Tick(t)
    PROVE  Inv'
<1> DEFINE s == task[t].sched
           z == [s EXCEPT !.due = TRUE]
           new == [task[t] EXCEPT !.sched = z]
<1>1. /\ Scheduled(t) /\ Exists(t) /\ UNCHANGED <<runs, pod, lease, scanned, asked, starts, overtaken>>
      /\ task' = [task EXCEPT ![t] = new]
  BY DEF Tick, Scheduled
<1>2. task[t] \in TaskRows /\ s \in Schedules /\ RowOK(t, task[t])
  BY <1>1, ExistingRow DEF Inv, TypeInv, RowInv
<1>3. z \in Schedules /\ z.run = s.run /\ z.attempt = s.attempt /\ z.suspended = s.suspended
  BY <1>2 DEF Schedules
<1> HIDE DEF z
<1>4. new \in TaskRows /\ new.status = task[t].status /\ new.sched = z /\ new.active = task[t].active /\ new.worker = task[t].worker
  BY <1>2, <1>3 DEF TaskRows
<1> HIDE DEF new
<1>5. z # None /\ s # None /\ s.run \in DOMAIN runs
  BY <1>1, <1>2, <1>3, SchedFields DEF Inv, RunInv
<1>6. RowOK(t, new) /\ Follows(t, new) /\ Advances(t, new)
  BY <1>1, <1>2, <1>3, <1>4, <1>5 DEF RowOK, Follows, Advances, Active
<1>7. PodType' /\ NoneStarts
  BY <1>1, SameTypes DEF NoneStarts
<1>8. scanned' \subseteq Pods /\ asked' \subseteq asked \cup {t} /\ (t \in asked' => new.status = "PENDING")
      /\ (new.sched # None => new.sched.run \in DOMAIN runs)
  BY <1>1, <1>3, <1>4, <1>5 DEF Inv, TypeInv, SmallType, AskedInv
<1> HIDE DEF s
<1> QED
  BY <1>1, <1>4, <1>6, <1>7, <1>8, ControllerInv

(* The row of a task that runs is closed. *)
LEMMA CloseRunning ==
    ASSUME Inv, NEW t \in Tasks, Exists(t), task[t].status = "RUNNING", NEW a \in {task[t].active, FALSE},
           task' = [task EXCEPT ![t] = [task[t] EXCEPT !.status = "FAILED", !.active = a]],
           asked' \subseteq asked, UNCHANGED <<setting, runs, pod, lease, scanned, starts, overtaken>>
    PROVE  Inv'
<1> DEFINE new == [task[t] EXCEPT !.status = "FAILED", !.active = a]
<1>1. task[t] \in TaskRows /\ RowOK(t, task[t])
  BY ExistingRow DEF Inv, TypeInv, RowInv
<1>2. a \in BOOLEAN /\ task[t].sched = None /\ t \notin asked
  BY <1>1, RowFields DEF RowOK, Inv, AskedInv
<1>3. new \in TaskRows /\ new.status = "FAILED" /\ new.sched = None /\ new.active = a /\ new.worker = task[t].worker
  BY <1>1, <1>2 DEF TaskRows, Statuses, Terminal
<1>4. task' = [task EXCEPT ![t] = new]
  OBVIOUS
<1> HIDE DEF new
<1>5. RowOK(t, new) /\ Follows(t, new) /\ Advances(t, new)
  BY <1>1, <1>3 DEF RowOK, Follows, Advances, Active
<1>6. PodType' /\ NoneStarts
  BY SameTypes DEF NoneStarts
<1>7. scanned' \subseteq Pods /\ asked' \subseteq asked \cup {t} /\ t \notin asked'
  BY <1>2 DEF Inv, TypeInv, SmallType
<1> QED
  BY <1>3, <1>4, <1>5, <1>6, <1>7, ControllerInv

(* closeStaleReverseTasks() *)
LEMMA CloseStaleInv ==
    ASSUME Inv, NEW t \in Tasks, UNCHANGED setting, CloseStale(t)
    PROVE  Inv'
<1> DEFINE p == task[t].worker
<1>1. /\ Active(t) /\ Exists(t) /\ task[t].status \in {"RUNNING", "PENDING"}
      /\ UNCHANGED <<runs, pod, lease, scanned, starts, overtaken>>
      /\ task[t].status = "PENDING" => Blamable(p, TRUE)
  BY DEF CloseStale, Active
<1>2. RowOK(t, task[t])
  BY <1>1 DEF Inv, RowInv
<1>3. p \in Pods /\ p[1] = t
  BY <1>1, <1>2 DEF RowOK, Active
<1>4. CASE task[t].status = "RUNNING"
  <2>1. task' = [task EXCEPT ![t] = [task[t] EXCEPT !.status = "FAILED", !.active = FALSE]] /\ asked' \subseteq asked
    BY <1>4 DEF CloseStale, AskedAfter
  <2> QED
    BY <1>1, <1>4, <2>1, CloseRunning
<1>5. CASE task[t].status = "PENDING"
  <2>1. task' = [task EXCEPT ![p[1]] = Blamed(p)] /\ asked' = AskedAfter(p[1], Blamed(p).status)
    BY <1>3, <1>5 DEF CloseStale
  <2>2. PodType' /\ NoneStarts /\ scanned' \subseteq scanned
    BY <1>1, SameTypes DEF NoneStarts
  <2> HIDE DEF p
  <2> QED
    BY <1>1, <1>3, <1>5, <2>1, <2>2, BlameInv
<1> QED
  BY <1>1, <1>4, <1>5

(* failReverseWorker() *)
LEMMA FailWorkerInv ==
    ASSUME Inv, NEW p \in Pods, UNCHANGED setting, FailWorker(p)
    PROVE  Inv'
<1> DEFINE t == p[1]
<1>1. t \in Tasks /\ UNCHANGED <<runs, pod, lease, scanned, starts, overtaken>>
  BY PodFacts DEF FailWorker
<1>2. PodType' /\ NoneStarts /\ scanned' \subseteq scanned
  BY <1>1, SameTypes DEF NoneStarts
<1>3. CASE UNCHANGED <<task, asked>>
  <2>1. TypeInv'
    BY <1>1, <1>3, SameTypes DEF Inv, TypeInv
  <2> QED
    BY <1>1, <1>2, <1>3, <2>1, InvPods
<1>4. CASE Blamable(p, TRUE) /\ task' = [task EXCEPT ![t] = Blamed(p)] /\ asked' = AskedAfter(t, Blamed(p).status)
  BY <1>1, <1>2, <1>4, BlameInv
<1>5. CASE ~Exists(t) /\ task' = [task EXCEPT ![t] = ControllerRow("FAILED")] /\ UNCHANGED asked
  <2> DEFINE new == ControllerRow("FAILED")
  <2>1. new \in TaskRows /\ new.status = "FAILED" /\ new.active = FALSE /\ new.sched = None
    BY ControllerRowFacts
  <2> HIDE DEF new
  <2>2. RowOK(t, new) /\ Follows(t, new) /\ Advances(t, new)
    BY <1>5, <2>1 DEF RowOK, Follows, Advances
  <2>3. t \notin asked' /\ asked' \subseteq asked \cup {t} /\ scanned' \subseteq Pods
    BY <1>1, <1>5 DEF Inv, AskedInv, TypeInv, SmallType
  <2>4. task' = [task EXCEPT ![t] = new]
    BY <1>5 DEF new
  <2> HIDE DEF t
  <2> QED
    BY <1>1, <1>2, <2>1, <2>2, <2>3, <2>4, ControllerInv
<1>6. CASE /\ Exists(t) /\ task[t].status = "RUNNING" /\ UNCHANGED asked
           /\ task' = [task EXCEPT ![t] = [task[t] EXCEPT !.status = "FAILED"]]
  <2>1. task[t] \in TaskRows
    BY <1>1, <1>6, ExistingRow DEF Inv, TypeInv
  <2>2. [task[t] EXCEPT !.status = "FAILED"] = [task[t] EXCEPT !.status = "FAILED", !.active = task[t].active]
    BY <2>1 DEF TaskRows
  <2>3. task' = [task EXCEPT ![t] = [task[t] EXCEPT !.status = "FAILED", !.active = task[t].active]]
    BY <1>6, <2>2
  <2> QED
    BY <1>1, <1>6, <2>3, CloseRunning
<1>7. \/ UNCHANGED <<task, asked>>
      \/ Blamable(p, TRUE) /\ task' = [task EXCEPT ![t] = Blamed(p)] /\ asked' = AskedAfter(t, Blamed(p).status)
      \/ ~Exists(t) /\ task' = [task EXCEPT ![t] = ControllerRow("FAILED")] /\ UNCHANGED asked
      \/ /\ Exists(t) /\ task[t].status = "RUNNING" /\ UNCHANGED asked
         /\ task' = [task EXCEPT ![t] = [task[t] EXCEPT !.status = "FAILED"]]
  <2>1. [task EXCEPT ![t] = task[t]] = task
    BY DEF Inv, TypeInv, TaskType
  <2> QED
    BY <2>1 DEF FailWorker
<1> QED
  BY <1>3, <1>4, <1>5, <1>6, <1>7

(* A Pod becomes busy, and its task's worker. *)
LEMMA InvStart ==
    ASSUME Inv, TypeInv', NEW p \in Pods, NEW new \in TaskRows, NEW rec \in PodRows,
           task' = [task EXCEPT ![p[1]] = new], pod' = [pod EXCEPT ![p] = rec], RowOK(p[1], new), new.worker = p,
           rec.run \in DOMAIN runs', DOMAIN runs \subseteq DOMAIN runs', new.sched # None => new.sched.run = rec.run,
           UNCHANGED asked, p[1] \in asked => new.status = "PENDING", StartsInv'
    PROVE  Inv'
<1> DEFINE t == p[1]
<1>1. /\ t \in Tasks /\ task'[t] = new /\ \A u \in Tasks \ {t} : task'[u] = task[u]
      /\ new # None
  BY RowFields, PodFacts DEF Inv, TypeInv, TaskType
<1>2. Exists(t)' /\ \A u \in Tasks \ {t} : Exists(u)' <=> Exists(u)
  BY <1>1 DEF Exists
<1>3. pod'[p] = rec /\ \A q \in Pods \ {p} : pod'[q] = pod[q]
  <2>1. PodType
    BY DEF Inv, TypeInv
  <2> QED
    BY <2>1 DEF PodType
<1> HIDE DEF t
<1>4. RowInv'
  BY <1>1, <1>2 DEF Inv, RowInv, t
<1>5. AskedInv'
  <2> SUFFICES ASSUME NEW u \in asked PROVE Exists(u)' /\ task'[u].status = "PENDING"
    BY DEF AskedInv
  <2>1. u \in Tasks /\ Exists(u) /\ task[u].status = "PENDING"
    BY DEF Inv, AskedInv, TypeInv, SmallType
  <2> QED
    BY <1>1, <1>2, <2>1 DEF t
<1>6. RunInv'
  <2>1. ASSUME NEW u \in Tasks, Scheduled(u)' PROVE task'[u].sched.run \in DOMAIN runs'
    BY <1>1, <1>2, <2>1 DEF Inv, RunInv, Scheduled
  <2>2. ASSUME NEW q \in Pods, pod'[q].pc \in Busy PROVE pod'[q].run \in DOMAIN runs'
    BY <1>3, <2>2 DEF Inv, RunInv
  <2>3. ASSUME NEW q \in Pods, pod'[q].pc \in Busy, Owns(q)', Scheduled(q[1])'
        PROVE  task'[q[1]].sched.run = pod'[q].run
    <3>1. CASE q = p
      BY <1>1, <1>3, <2>3, <3>1 DEF Scheduled, t
    <3>2. CASE q # p
      <4>1. q[1] # t /\ q[1] \in Tasks
        BY <1>1, <2>3, <3>2, PodFacts DEF Owns
      <4>2. Owns(q) /\ Scheduled(q[1]) /\ pod[q].pc \in Busy
        BY <1>1, <1>2, <1>3, <2>3, <3>2, <4>1 DEF Owns, Active, Scheduled
      <4> QED
        BY <1>1, <1>3, <3>2, <4>1, <4>2 DEF Inv, RunInv
    <3> QED
      BY <3>1, <3>2
  <2> QED
    BY <2>1, <2>2, <2>3 DEF RunInv
<1> QED
  BY <1>4, <1>5, <1>6 DEF Inv

(* A Pod ends without having written a row. *)
LEMMA DieInv ==
    ASSUME Inv, NEW p \in Pods, UNCHANGED <<setting, task, runs, scanned, asked, starts, overtaken>>, Die(p), Release(p)
    PROVE  Inv'
<1>1. SmallType' /\ RunType'
  BY SameTypes DEF Inv, TypeInv, SmallType, Release
<1>2. pod' = [pod EXCEPT ![p] = Dead]
  BY DEF Die, Dead
<1>3. Dead \in PodRows /\ Dead.pc \notin Busy
  BY NewPods DEF Busy
<1> QED
  BY <1>1, <1>2, <1>3, InvPod

(* The row of a task that runs. *)
LEMMA RunningRow ==
    ASSUME NEW p \in Pods
    PROVE  LET row == [seq |-> NextSeq, status |-> "RUNNING", worker |-> p, active |-> TRUE, previous |-> None, sched |-> None] IN
           /\ row \in TaskRows /\ row.status = "RUNNING" /\ row.worker = p /\ row.active /\ row.previous = None
           /\ row.sched = None
<1>1. NextSeq \in Nat
  BY ConstantsAssumption, FS_Subset, FS_CardinalityType DEF NextSeq
<1> QED
  BY <1>1 DEF TaskRows, Statuses

(* Tasks.start() of a manual or scheduled Pod *)
LEMMA StartRunInv ==
    ASSUME Inv, NEW p \in Pods, UNCHANGED setting, StartRun(p)
    PROVE  Inv'
<1>1. CASE ~Startable(p[1])
  BY <1>1, DieInv DEF StartRun
<1>2. CASE Startable(p[1])
  <2> DEFINE t == p[1]
             new == [seq |-> NextSeq, status |-> "RUNNING", worker |-> p, active |-> TRUE, previous |-> None, sched |-> None]
  <2>1. /\ task' = [task EXCEPT ![t] = new] /\ ~Exists(t) /\ UNCHANGED <<lease, scanned, asked, starts, overtaken>>
    BY <1>2 DEF StartRun, Startable
  <2>2. new \in TaskRows /\ new.status = "RUNNING" /\ new.worker = p /\ new.active /\ new.sched = None
    BY RunningRow
  <2> HIDE DEF new
  <2>3. runs \in Seq(RunRows) /\ Len(runs) <= setting.runs /\ setting.runs \in 0 .. MaxRuns /\ setting \in Settings
    BY ConstantsAssumption DEF Inv, TypeInv, RunType
  <2>4. \E r \in DOMAIN runs' :
           /\ pod' = [pod EXCEPT ![p] = [pod[p] EXCEPT !.pc = "working", !.run = r]]
           /\ runs' \in Seq(RunRows) /\ Len(runs') <= setting.runs /\ DOMAIN runs \subseteq DOMAIN runs'
    <3>1. CASE \E r \in Attached : pod' = [pod EXCEPT ![p].pc = "working", ![p].run = r] /\ UNCHANGED runs
      BY <2>3, <3>1 DEF Attached
    <3>2. CASE /\ Len(runs) < setting.runs
               /\ runs' = Append(runs, [ended |-> FALSE, detached |-> FALSE])
               /\ pod' = [pod EXCEPT ![p].pc = "working", ![p].run = Len(runs) + 1]
      <4>1. [ended |-> FALSE, detached |-> FALSE] \in RunRows
        BY DEF RunRows
      <4>2. runs' \in Seq(RunRows) /\ Len(runs') = Len(runs) + 1 /\ DOMAIN runs' = 1 .. Len(runs) + 1 /\ DOMAIN runs = 1 .. Len(runs)
        BY <2>3, <3>2, <4>1
      <4>3. Len(runs) \in Nat
        BY <2>3
      <4>4. Len(runs) + 1 \in DOMAIN runs' /\ Len(runs') <= setting.runs /\ DOMAIN runs \subseteq DOMAIN runs'
        BY <2>3, <3>2, <4>2, <4>3
      <4>5. pod' = [pod EXCEPT ![p] = [pod[p] EXCEPT !.pc = "working", !.run = Len(runs) + 1]]
        BY <3>2
      <4> QED
        BY <4>2, <4>4, <4>5
    <3> QED
      BY <1>2, <3>1, <3>2 DEF StartRun
  <2>5. PICK r \in DOMAIN runs' :
           /\ pod' = [pod EXCEPT ![p] = [pod[p] EXCEPT !.pc = "working", !.run = r]]
           /\ runs' \in Seq(RunRows) /\ Len(runs') <= setting.runs /\ DOMAIN runs \subseteq DOMAIN runs'
    BY <2>4
  <2> DEFINE rec == [pod[p] EXCEPT !.pc = "working", !.run = r]
  <2>6. rec \in PodRows /\ rec.run = r
    <3>1. pod[p] \in PodRows
      BY DEF Inv, TypeInv, PodType
    <3>2. r \in 0 .. MaxRuns
      BY <2>3, <2>5, ConstantsAssumption
    <3> QED
      BY <3>1, <3>2 DEF PodRows
  <2> HIDE DEF rec
  <2>7. pod' = [pod EXCEPT ![p] = rec]
    BY <2>5 DEF rec
  <2>8. t \in Tasks
    BY PodFacts
  <2>9. TypeInv'
    <3>1. TaskType'
      BY <2>1, <2>2, <2>8 DEF Inv, TypeInv, TaskType
    <3>2. PodType'
      BY <2>6, <2>7, PodUpdate DEF Inv, TypeInv
    <3>3. RunType'
      BY <2>3, <2>5 DEF RunType
    <3> QED
      BY <2>1, <3>1, <3>2, <3>3, SameTypes DEF TypeInv
  <2>10. StartsInv'
    <3> SUFFICES ASSUME NEW q \in Pods, starts[q] > 0
                 PROVE  /\ Exists(q[1])' /\ task'[q[1]].status # "RUNNING"
                        /\ q[1] \notin overtaken' => starts[q] = 1 /\ Past(q, task'[q[1]])
      BY <2>1 DEF StartsInv
    <3>1. /\ Exists(q[1]) /\ task[q[1]].status # "RUNNING"
          /\ q[1] \notin overtaken => starts[q] = 1 /\ Past(q, task[q[1]])
      BY DEF Inv, StartsInv
    <3>2. task'[q[1]] = task[q[1]]
      BY <2>1, <3>1 DEF Inv, TypeInv, TaskType
    <3> QED
      BY <2>1, <3>1, <3>2 DEF Exists
  <2>11. RowOK(t, new) /\ t \notin asked
    BY <2>1, <2>2 DEF RowOK, Inv, AskedInv
  <2>12. task' = [task EXCEPT ![p[1]] = new]
    BY <2>1
  <2> QED
    BY <2>1, <2>2, <2>5, <2>6, <2>7, <2>9, <2>10, <2>11, <2>12, InvStart
<1> QED
  BY <1>1, <1>2

(* The row of a task that is being checked. *)
LEMMA CheckedRow ==
    ASSUME NEW p \in Pods, NEW row \in TaskRows, row.sched \in Schedules, row.status = "PENDING"
    PROVE  LET new == [row EXCEPT !.worker = p, !.active = TRUE,
                                  !.previous = IF row.sched.previous # None THEN row.sched.previous ELSE row.status] IN
           /\ new \in TaskRows /\ new.status = "PENDING" /\ new.worker = p /\ new.active = TRUE /\ new.sched = row.sched
           /\ new.seq = row.seq
           /\ new.previous = IF row.sched.previous # None THEN row.sched.previous ELSE "PENDING"
<1> DEFINE previous == IF row.sched.previous # None THEN row.sched.previous ELSE row.status
<1>1. previous \in Checkable
  BY SchedFields DEF Checkable
<1> HIDE DEF previous
<1>2. LET new == [row EXCEPT !.worker = p, !.active = TRUE, !.previous = previous] IN
      /\ new \in TaskRows /\ new.status = "PENDING" /\ new.worker = p /\ new.active = TRUE /\ new.sched = row.sched
      /\ new.seq = row.seq /\ new.previous = previous
  BY <1>1 DEF TaskRows
<1> QED
  BY <1>2 DEF previous

(* Tasks.start() of a recovery Pod *)
LEMMA StartCheckInv ==
    ASSUME Inv, NEW p \in Pods, UNCHANGED setting, StartCheck(p)
    PROVE  Inv'
<1> DEFINE t == p[1]
           wanted == Due(t) /\ task[t].sched.attempt = p[2]
<1>1. CASE ~wanted
  BY <1>1, DieInv DEF StartCheck
<1>2. CASE wanted
  <2> DEFINE new == [task[t] EXCEPT !.worker = p, !.active = TRUE,
                                    !.previous = IF task[t].sched.previous # None THEN task[t].sched.previous ELSE task[t].status]
             rec == [pod[p] EXCEPT !.pc = "working", !.run = task[t].sched.run]
  <2>1. /\ task' = [task EXCEPT ![t] = new] /\ pod' = [pod EXCEPT ![p] = rec]
        /\ starts' = [starts EXCEPT ![p] = @ + 1] /\ UNCHANGED <<runs, lease, scanned, asked, overtaken>>
    BY <1>2 DEF StartCheck
  <2>2. /\ Scheduled(t) /\ Exists(t) /\ task[t].status = "PENDING" /\ ~task[t].sched.suspended /\ ~task[t].active
        /\ task[t].sched.attempt = p[2]
    BY <1>2 DEF Due, Active, Scheduled
  <2>3. t \in Tasks /\ task[t] \in TaskRows /\ task[t].sched \in Schedules /\ p[2] \in Int /\ p[2] >= 0
    BY <2>2, PodFacts, ExistingRow DEF Inv, TypeInv, StartCheck
  <2>4. /\ new \in TaskRows /\ new.status = "PENDING" /\ new.worker = p /\ new.active = TRUE /\ new.sched = task[t].sched
    BY <2>2, <2>3, CheckedRow
  <2> HIDE DEF new
  <2>5. task[t].sched.run \in DOMAIN runs /\ task[t].sched # None
    BY <2>2, <2>3 DEF Inv, RunInv, Scheduled
  <2>6. rec \in PodRows /\ rec.run = task[t].sched.run
    <3>1. pod[p] \in PodRows
      BY DEF Inv, TypeInv, PodType
    <3>2. Len(runs) <= setting.runs /\ setting.runs \in 0 .. MaxRuns /\ runs \in Seq(RunRows)
      BY ConstantsAssumption DEF Inv, TypeInv, RunType
    <3>3. task[t].sched.run \in 0 .. MaxRuns
      BY <2>5, <3>2, ConstantsAssumption
    <3> QED
      BY <3>1, <3>3 DEF PodRows
  <2> HIDE DEF rec
  <2>7. starts \in [Pods -> Nat]
    BY DEF Inv, TypeInv, SmallType
  <2>8. TypeInv'
    <3>1. TaskType'
      BY <2>1, <2>3, <2>4 DEF Inv, TypeInv, TaskType
    <3>2. PodType'
      BY <2>1, <2>6, PodUpdate DEF Inv, TypeInv
    <3>3. SmallType'
      BY <2>1, <2>7 DEF Inv, TypeInv, SmallType
    <3> QED
      BY <2>1, <3>1, <3>2, <3>3, SameTypes DEF TypeInv
  <2>9. task'[t] = new /\ \A u \in Tasks \ {t} : task'[u] = task[u]
    BY <2>1, <2>3 DEF Inv, TypeInv, TaskType
  <2>10. new # None
    BY <2>4, RowFields
  <2>11. StartsInv'
    <3> SUFFICES ASSUME NEW q \in Pods, starts'[q] > 0
                 PROVE  /\ Exists(q[1])' /\ task'[q[1]].status # "RUNNING"
                        /\ q[1] \notin overtaken' => starts'[q] = 1 /\ Past(q, task'[q[1]])
      BY DEF StartsInv
    <3>1. q[1] \in Tasks /\ q[2] \in Int /\ q = <<q[1], q[2]>> /\ p = <<p[1], p[2]>>
      BY PodFacts
    <3>2. CASE q[1] # t
      <4>1. starts'[q] = starts[q] /\ task'[q[1]] = task[q[1]]
        BY <2>1, <2>7, <2>9, <3>1, <3>2
      <4>2. /\ Exists(q[1]) /\ task[q[1]].status # "RUNNING"
            /\ q[1] \notin overtaken => starts[q] = 1 /\ Past(q, task[q[1]])
        BY <4>1 DEF Inv, StartsInv
      <4> QED
        BY <2>1, <4>1, <4>2 DEF Exists
    <3>3. CASE q[1] = t
      <4>1. Exists(q[1])' /\ task'[q[1]].status # "RUNNING"
        BY <2>4, <2>9, <2>10, <3>3 DEF Exists
      <4>2. ASSUME t \notin overtaken PROVE starts'[q] = 1 /\ Past(q, new)
        <5>1. starts[q] > 0 => starts[q] = 1 /\ q[2] < task[t].sched.attempt
          <6>1. starts[q] > 0 => starts[q] = 1 /\ Past(q, task[t])
            BY <3>3, <4>2 DEF Inv, StartsInv
          <6> QED
            BY <2>2, <2>5, <6>1 DEF Past, Terminal
        <5>2. starts[q] \in Nat
          BY <2>7
        <5>3. CASE q = p
          <6>1. starts[q] = 0
            BY <2>2, <2>3, <5>1, <5>2, <5>3
          <6> QED
            BY <2>1, <2>2, <2>4, <2>7, <5>3, <6>1 DEF Past
        <5>4. CASE q # p
          BY <2>1, <2>4, <2>7, <5>1, <5>2, <5>4 DEF Past
        <5> QED
          BY <5>3, <5>4
      <4> QED
        BY <2>1, <2>9, <3>3, <4>1, <4>2
    <3> QED
      BY <3>2, <3>3
  <2>12. RowOK(t, new)
    BY <2>3, <2>4, <2>5 DEF RowOK
  <2>13. /\ DOMAIN runs' = DOMAIN runs /\ UNCHANGED asked /\ rec.run \in DOMAIN runs' /\ task' = [task EXCEPT ![p[1]] = new]
         /\ new.sched # None => new.sched.run = rec.run
    BY <2>1, <2>4, <2>5, <2>6
  <2> QED
    BY <2>1, <2>4, <2>6, <2>8, <2>11, <2>12, <2>13, InvStart
<1> QED
  BY <1>1, <1>2

(* The initial state. *)
LEMMA InitInv ==
    ASSUME Init
    PROVE  Inv
<1>1. TypeInv
  <2>1. runs \in Seq(RunRows) /\ Len(runs) = 0 /\ setting.runs \in Nat
    BY ConstantsAssumption DEF Init
  <2> QED
    BY <2>1, NewPods DEF Init, TypeInv, TaskType, RunType, PodType, SmallType
<1>2. \A t \in Tasks : ~Exists(t)
  BY DEF Init, Exists
<1>3. \A p \in Pods : pod[p].pc = "absent" /\ starts[p] = 0
  BY NewPods DEF Init
<1> QED
  BY <1>1, <1>2, <1>3 DEF Inv, RowInv, AskedInv, RunInv, StartsInv, Scheduled, Busy, Init

(* Every step. *)
LEMMA NextInv ==
    ASSUME Inv, [Next]_vars
    PROVE  Inv'
<1>1. CASE UNCHANGED vars
  <2>1. TypeInv' /\ NoneStarts /\ DOMAIN runs' = DOMAIN runs /\ UNCHANGED <<task, asked, starts, overtaken>>
    BY <1>1, SameTypes DEF Inv, TypeInv, vars, state, NoneStarts
  <2> QED
    BY <2>1, InvPods
<1>2. CASE Next
  <2> USE <1>2
  <2>0. UNCHANGED setting
    BY DEF Next
  <2>1. ASSUME NEW t \in Tasks, LaunchRun(t) PROVE Inv'
    <3>1. <<t, -1>> \in Pods
      BY ConstantsAssumption DEF Pods
    <3>2. <<t, -1>>[2] = -1 /\ LaunchRun(<<t, -1>>[1])
      BY <2>1
    <3> QED
      BY <2>0, <3>1, <3>2, PodSteps
  <2>2. ASSUME NEW t \in Tasks, Refresh(t) \/ Cancel(t) \/ Controller(t) PROVE Inv'
    BY <2>0, <2>2, RefreshInv, CancelInv, QuietSteps, CloseStaleInv, TickInv DEF Controller
  <2>3. ASSUME NEW p \in Pods, Work(p) PROVE Inv'
    BY <2>0, <2>3, PodSteps, RunSteps, EndSteps, StartRunInv, StartCheckInv DEF Work
  <2>4. ASSUME NEW p \in Pods,
               \/ LaunchCheck(p) \/ Progress(p)
               \/ FailWorker(p) \/ DeletePod(p) \/ Terminate(p) \/ Crash(p) \/ Stall(p) \/ Wake(p)
        PROVE  Inv'
    BY <2>0, <2>4, PodSteps, LaunchCheckInv, FailWorkerInv
  <2>5. CASE ExpireLease
    BY <2>0, <2>5, QuietSteps
  <2> QED
    BY <2>1, <2>2, <2>3, <2>4, <2>5 DEF Next, Step
<1> QED
  BY <1>1, <1>2

(* The invariant. *)
LEMMA Invariance == Spec => []Inv
<1>1. Init => Inv
  BY InitInv
<1>2. Inv /\ [Next]_vars => Inv'
  BY NextInv
<1> QED
  BY <1>1, <1>2, PTL DEF Spec

(* Rows, runs, Pods, lease and histories have their types (ReverseTasks.tla). *)
THEOREM TypeCorrect == Spec => []TypeOK
<1>1. ASSUME Inv PROVE TypeOK
  <2>1. setting.runs \in 0 .. MaxRuns /\ Len(runs) <= setting.runs /\ runs \in Seq(RunRows)
    BY <1>1, ConstantsAssumption DEF Inv, TypeInv, RunType
  <2>2. Len(runs) <= MaxRuns
    BY <2>1, ConstantsAssumption
  <2> QED
    BY <1>1, <2>1, <2>2 DEF TypeOK, Inv, TypeInv, TaskType, PodType, SmallType, PodRows, RunRows
<1> QED
  BY <1>1, Invariance, PTL

(* A check is worked on at most once (Tasks.start in tasks.ts), whatever Pods, *)
(* controller, lease and users do, unless its task took over the schedule of   *)
(* another one.                                                                *)
THEOREM ChecksOnce == Spec => []EachCheckOnce
<1>1. ASSUME Inv PROVE EachCheckOnce
  <2> SUFFICES ASSUME NEW p \in Pods, p[1] \notin overtaken PROVE starts[p] <= 1
    BY DEF EachCheckOnce
  <2>1. starts[p] \in Nat
    BY <1>1 DEF Inv, TypeInv, SmallType
  <2> QED
    BY <1>1, <2>1 DEF Inv, StartsInv
<1> QED
  BY <1>1, Invariance, PTL

(* Tasks that ended are only written over on a user's request. *)
LEMMA Reopening ==
    ASSUME Inv, Next, NEW t \in Tasks, Exists(t), task[t].status \in Terminal
    PROVE  task'[t].status \in Terminal \/ asked' # asked
<1>1. task \in [Tasks -> TaskRows \cup {None}] /\ task[t] \in TaskRows
  BY ExistingRow DEF Inv, TypeInv, TaskType
<1>2. task[t].status # "PENDING" /\ task[t].status # "RUNNING"
  BY DEF Terminal
<1>3. CASE UNCHANGED task
  BY <1>3
<1>4. ASSUME NEW p \in Pods, NEW row, task' = [task EXCEPT ![p[1]] = row], MayFinish(p) \/ ~Exists(p[1]) \/ Blamable(p, TRUE) \/ Blamable(p, FALSE) \/ Due(p[1])
      PROVE  task'[t].status \in Terminal
  <2>1. p[1] # t
    BY <1>2, <1>4 DEF MayFinish, Owns, Blamable, Due
  <2> QED
    BY <1>1, <1>4, <2>1
<1>5. ASSUME NEW p \in Pods, Work(p) PROVE task'[t].status \in Terminal
  <2>1. CASE Acquire(p) \/ Refused(p) \/ Commit(p) \/ Detach(p) \/ HeartbeatFails(p) \/ Stopped(p)
    BY <2>1, <1>3 DEF Acquire, Refused, Commit, Detach, HeartbeatFails, Stopped
  <2>2. CASE StartRun(p)
    BY <2>2, <1>4, <1>3 DEF StartRun, Startable
  <2>3. CASE StartCheck(p)
    BY <2>3, <1>4, <1>3 DEF StartCheck
  <2>4. MayRefreshFail(p) => MayFinish(p)
    BY DEF MayRefreshFail, MayFinish
  <2>5. CASE EndDelivered(p) \/ EndPending(p) \/ EndFailed(p)
    <3>1. \/ UNCHANGED task
          \/ MayFinish(p) /\ \E row : task' = [task EXCEPT ![p[1]] = row]
      BY <2>4, <2>5 DEF EndDelivered, EndPending, EndFailed, Wait, SignOff
    <3> QED
      BY <1>3, <1>4, <3>1
  <2> QED
    BY <1>5, <2>1, <2>2, <2>3, <2>5 DEF Work
<1>6. ASSUME NEW p \in Pods, LaunchCheck(p) PROVE task'[t].status \in Terminal
  BY <1>6, <1>3, <1>4 DEF LaunchCheck
<1>7. ASSUME NEW p \in Pods, FailWorker(p) PROVE task'[t].status \in Terminal
  <2>1. \/ UNCHANGED task
        \/ Blamable(p, TRUE) /\ task' = [task EXCEPT ![p[1]] = Blamed(p)]
        \/ task' = [task EXCEPT ![p[1]] = IF ~Exists(p[1]) THEN ControllerRow("FAILED")
                       ELSE IF @.status = "RUNNING" /\ @.worker \in {p, None} THEN [@ EXCEPT !.status = "FAILED"] ELSE @]
    BY <1>7 DEF FailWorker
  <2>2. CASE task' = [task EXCEPT ![p[1]] = IF ~Exists(p[1]) THEN ControllerRow("FAILED")
                         ELSE IF @.status = "RUNNING" /\ @.worker \in {p, None} THEN [@ EXCEPT !.status = "FAILED"] ELSE @]
    BY <1>1, <1>2, <2>2
  <2> QED
    BY <1>3, <1>4, <2>1, <2>2
<1>8. ASSUME NEW u \in Tasks, CloseStale(u) PROVE task'[t].status \in Terminal
  <2>1. u # t
    BY <1>2, <1>8 DEF CloseStale
  <2> QED
    BY <1>1, <1>8, <2>1 DEF CloseStale
<1>9. ASSUME NEW u \in Tasks, Tick(u) PROVE task'[t].status \in Terminal
  BY <1>1, <1>9 DEF Tick, TaskRows
<1>10. ASSUME NEW u \in Tasks, Cancel(u) PROVE task'[t].status \in Terminal
  <2>1. u # t
    BY <1>2, <1>10 DEF Cancel
  <2> QED
    BY <1>1, <1>10, <2>1 DEF Cancel
<1>11. ASSUME NEW u \in Tasks, Refresh(u) PROVE task'[t].status \in Terminal \/ asked' # asked
  <2>1. CASE u = t
    <3>1. t \notin asked
      BY <1>2 DEF Inv, AskedInv
    <3> QED
      BY <1>11, <2>1, <3>1 DEF Refresh
  <2>2. CASE u # t
    BY <1>1, <1>11, <2>2 DEF Refresh
  <2> QED
    BY <2>1, <2>2
<1>12. ASSUME NEW u \in Tasks, LaunchRun(u) \/ Scan(u) PROVE task'[t].status \in Terminal
  BY <1>3, <1>12 DEF LaunchRun, Scan
<1>13. ASSUME NEW p \in Pods, Progress(p) \/ DeletePod(p) \/ Terminate(p) \/ Crash(p) \/ Stall(p) \/ Wake(p)
       PROVE  task'[t].status \in Terminal
  BY <1>3, <1>13 DEF Progress, DeletePod, Terminate, Crash, Stall, Wake
<1>14. CASE ExpireLease
  BY <1>3, <1>14 DEF ExpireLease
<1> QED
  BY <1>5, <1>6, <1>7, <1>8, <1>9, <1>10, <1>11, <1>12, <1>13, <1>14 DEF Next, Step, Controller

(* A task that ended is only reopened by a user's request, which is then on    *)
(* record (refreshReverseTask in the controller): no Pod, failure report or    *)
(* stale launch does it.                                                       *)
THEOREM UsersReopen == Spec => OnlyUsersReopen
<1> DEFINE P == \A t \in Tasks : Exists(t) /\ task[t].status \in Terminal /\ task'[t].status \notin Terminal => asked' # asked
<1>1. Inv /\ [Next]_vars => [P]_vars
  BY Reopening
<1> QED
  BY <1>1, Invariance, PTL DEF Spec, OnlyUsersReopen

-----------------------------------------------------------------------------
(* What a failed check leaves, without stalled Pods, failing heartbeats and    *)
(* final verdicts                                                              *)

(* Nobody but the holder of the lease has begun. *)
LEMMA OthersIdle ==
    ASSUME HolderInv, NEW p \in Pods, pod[p].pc \in Busy \cup {"leased"}, NEW q \in Pods, q # p
    PROVE  pod[q].pc \notin Busy \cup {"leased"} /\ ~pod[q].stalled /\ ~pod[q].lost
  BY DEF HolderInv, Holder

(* The holder takes a step. *)
LEMMA HolderOne ==
    ASSUME HolderInv, NEW p \in Pods, pod[p].pc \in Busy \cup {"leased"},
           \A q \in Pods \ {p} : pod'[q] = pod[q], Holder(p)'
    PROVE  HolderInv'
<1> SUFFICES ASSUME NEW q \in Pods, q # p PROVE Holder(q)'
  BY DEF HolderInv
<1>1. pod[q].pc \notin Busy \cup {"leased"} /\ ~pod[q].stalled /\ ~pod[q].lost
  BY OthersIdle
<1>2. pod'[q] = pod[q]
  OBVIOUS
<1>3. pod[q].pc # "delivered" /\ pod[q].pc \notin Busy
  BY <1>1 DEF Busy
<1> QED
  BY <1>1, <1>2, <1>3 DEF Holder

(* A Pod changes by itself. *)
LEMMA HolderPod ==
    ASSUME HolderInv, NEW p \in Pods, \A q \in Pods \ {p} : pod'[q] = pod[q], Holder(p)', UNCHANGED <<task, runs, lease>>
    PROVE  HolderInv'
<1> SUFFICES ASSUME NEW q \in Pods, q # p PROVE Holder(q)'
  BY DEF HolderInv
<1>1. Holder(q)
  BY DEF HolderInv
<1> QED
  BY <1>1 DEF Holder, Owns, Active, Exists, Open

(* The row of a task is written that no Pod works on, or that stays its worker's. *)
LEMMA HolderRow ==
    ASSUME Inv, HolderInv, NEW t \in Tasks, NEW new, task' = [task EXCEPT ![t] = new], UNCHANGED <<runs, lease>>,
           \A q \in Pods : \/ pod'[q].pc \notin Busy \cup {"leased"} /\ ~pod'[q].stalled /\ ~pod'[q].lost
                           \/ /\ pod'[q].pc = pod[q].pc /\ pod'[q].run = pod[q].run
                              /\ pod'[q].stalled = pod[q].stalled /\ pod'[q].lost = pod[q].lost,
           \A q \in Pods : q[1] = t /\ pod[q].pc \in Busy =>
               /\ new # None /\ new.active = task[t].active /\ new.worker = task[t].worker
               /\ task[t].status \in Terminal => new.status \in Terminal
    PROVE  HolderInv'
<1> SUFFICES ASSUME NEW q \in Pods PROVE Holder(q)'
  BY DEF HolderInv
<1>1. Holder(q) /\ q[1] \in Tasks
  BY PodFacts DEF HolderInv
<1>2. CASE pod'[q].pc \notin Busy \cup {"leased"} /\ ~pod'[q].stalled /\ ~pod'[q].lost
  BY <1>2 DEF Holder, Busy
<1>3. CASE /\ pod'[q].pc = pod[q].pc /\ pod'[q].run = pod[q].run
           /\ pod'[q].stalled = pod[q].stalled /\ pod'[q].lost = pod[q].lost
  <2>1. pod[q].pc \in Busy => Owns(q)' /\ (task[q[1]].status \in Terminal => task'[q[1]].status \in Terminal)
    <3>1. CASE q[1] = t
      <4>1. task'[t] = new
        BY DEF Inv, TypeInv, TaskType
      <4> QED
        BY <1>1, <3>1, <4>1 DEF Holder, Owns, Active, Exists
    <3>2. CASE q[1] # t
      <4>1. task'[q[1]] = task[q[1]]
        BY <1>1, <3>2 DEF Inv, TypeInv, TaskType
      <4> QED
        BY <1>1, <4>1 DEF Holder, Owns, Active, Exists
    <3> QED
      BY <3>1, <3>2
  <2> QED
    BY <1>1, <1>3, <2>1 DEF Holder, Open
<1> QED
  BY <1>2, <1>3

(* So it is when no Pod changes. *)
LEMMA HolderWrite ==
    ASSUME Inv, HolderInv, NEW t \in Tasks, NEW new, task' = [task EXCEPT ![t] = new], UNCHANGED <<runs, lease, pod>>,
           \A q \in Pods : q[1] = t /\ pod[q].pc \in Busy =>
               /\ new # None /\ new.active = task[t].active /\ new.worker = task[t].worker
               /\ task[t].status \in Terminal => new.status \in Terminal
    PROVE  HolderInv'
<1>1. \A q \in Pods : /\ pod'[q].pc = pod[q].pc /\ pod'[q].run = pod[q].run
                      /\ pod'[q].stalled = pod[q].stalled /\ pod'[q].lost = pod[q].lost
  OBVIOUS
<1> QED
  BY <1>1, HolderRow

(* Nobody works on a task that has no active worker, or a dead one. *)
LEMMA Unworked ==
    ASSUME HolderInv, NEW t \in Tasks, Active(t) => task[t].worker \in Pods /\ pod[task[t].worker].pc \notin Busy
    PROVE  \A q \in Pods : q[1] = t => pod[q].pc \notin Busy
<1> SUFFICES ASSUME NEW q \in Pods, q[1] = t, pod[q].pc \in Busy PROVE FALSE
  OBVIOUS
<1>1. Owns(q)
  BY DEF HolderInv, Holder
<1> QED
  BY <1>1 DEF Owns

(* No row is written; no run is reopened. *)
LEMMA KeptSame ==
    ASSUME Inv, FailedInv, StopsAreRestored, UNCHANGED <<task, asked>>, \A r \in DOMAIN runs : Open(r)' => Open(r)
    PROVE  FailedInv' /\ StopsAreRestored'
<1>1. FailedInv'
  <2> SUFFICES ASSUME NEW t \in Tasks, Scheduled(t)', task'[t].status = "FAILED", Open(task[t].sched.run)'
               PROVE  task[t].sched.previous = None
    BY DEF FailedInv
  <2>1. Scheduled(t)
    BY DEF Scheduled, Exists
  <2> QED
    BY <2>1 DEF FailedInv, Inv, RunInv
<1>2. StopsAreRestored'
  BY DEF StopsAreRestored, Exists
<1> QED
  BY <1>1, <1>2

(* One row is written. *)
LEMMA KeptRow ==
    ASSUME Inv, FailedInv, StopsAreRestored, NEW t \in Tasks, NEW new, task' = [task EXCEPT ![t] = new],
           \A r \in DOMAIN runs : Open(r)' => Open(r),
           new.sched # None /\ new.status = "FAILED" =>
               new.sched.run \in DOMAIN runs /\ (Open(new.sched.run) => new.sched.previous = None),
           asked' \subseteq asked \cup {t},
           t \in asked' /\ new.status = "PENDING" => (IF new.active THEN new.previous ELSE new.sched.previous) \in Terminal
    PROVE  FailedInv' /\ StopsAreRestored'
<1>1. task'[t] = new /\ \A u \in Tasks \ {t} : task'[u] = task[u]
  BY DEF Inv, TypeInv, TaskType
<1>2. FailedInv'
  <2> SUFFICES ASSUME NEW u \in Tasks, Scheduled(u)', task'[u].status = "FAILED", Open(task[u].sched.run)'
               PROVE  task'[u].sched.previous = None
    BY DEF FailedInv
  <2>1. CASE u = t
    <3>1. new.sched # None /\ new.status = "FAILED"
      BY <1>1, <2>1 DEF Scheduled
    <3>2. new.sched.run \in DOMAIN runs' /\ ~runs'[new.sched.run].ended
      BY <1>1, <2>1 DEF Open
    <3>3. \A q \in DOMAIN runs : q \in DOMAIN runs' /\ ~runs'[q].ended => Open(q)
      BY DEF Open
    <3> QED
      BY <1>1, <2>1, <3>1, <3>2, <3>3
  <2>2. CASE u # t
    <3>1. task'[u] = task[u] /\ Scheduled(u)
      BY <1>1, <2>2 DEF Scheduled, Exists
    <3>2. Open(task[u].sched.run)
      BY <3>1 DEF Inv, RunInv
    <3> QED
      BY <3>1, <3>2 DEF FailedInv
  <2> QED
    BY <2>1, <2>2
<1>3. StopsAreRestored'
  <2> SUFFICES ASSUME NEW u \in asked', Exists(u)', task'[u].status = "PENDING"
               PROVE  (IF task'[u].active THEN task'[u].previous ELSE task'[u].sched.previous) \in Terminal
    BY DEF StopsAreRestored
  <2>1. CASE u = t
    BY <1>1, <2>1
  <2>2. CASE u # t
    <3>1. u \in asked /\ u \in Tasks
      BY <2>2 DEF Inv, TypeInv, SmallType
    <3>2. task'[u] = task[u] /\ Exists(u)
      BY <1>1, <2>2, <3>1 DEF Exists
    <3> QED
      BY <3>1, <3>2 DEF StopsAreRestored
  <2> QED
    BY <2>1, <2>2
<1> QED
  BY <1>2, <1>3

(* Pods come, go, and hear. *)
LEMMA KeptPods ==
    ASSUME Inv, Calm, Kept, NEW p \in Pods,
           \/ (p[2] = -1 /\ LaunchRun(p[1])) \/ Acquire(p) \/ Refused(p) \/ Progress(p) \/ HeartbeatFails(p)
           \/ DeletePod(p) \/ Terminate(p) \/ Stopped(p) \/ Crash(p) \/ Stall(p) \/ Wake(p)
    PROVE  Kept'
<1>1. pod[p] \in PodRows /\ p = <<p[1], p[2]>> /\ PodType /\ p # None
  BY PodFacts DEF Inv, TypeInv, PodType
<1>2. UNCHANGED <<task, runs, asked>>
  BY DEF LaunchRun, Acquire, Refused, Progress, HeartbeatFails, DeletePod, Terminate, Stopped, Crash, Stall, Wake
<1>3. FailedInv' /\ StopsAreRestored'
  BY <1>2, KeptSame DEF Kept, Open
<1>4. HolderInv /\ Holder(p)
  BY DEF Kept, HolderInv
<1>5. ASSUME NEW rec \in PodRows, pod' = [pod EXCEPT ![p] = rec], UNCHANGED lease, rec.stalled = FALSE,
             rec.pc \in Busy \cup {"leased"} => rec.pc = pod[p].pc /\ rec.run = pod[p].run,
             rec.lost => rec.pc \in Busy /\ task[p[1]].status \in Terminal
      PROVE  HolderInv'
  <2>1. pod'[p] = rec /\ \A q \in Pods \ {p} : pod'[q] = pod[q]
    BY <1>1, <1>5, PodUpdate
  <2>2. Holder(p)'
    BY <1>2, <1>4, <1>5, <2>1 DEF Holder, Owns, Active, Exists, Open, Busy
  <2> QED
    BY <1>2, <1>4, <1>5, <2>1, <2>2, HolderPod
<1>6. HolderInv'
  <2>1. CASE p[2] = -1 /\ LaunchRun(p[1])
    <3>1. pod' = [pod EXCEPT ![p] = Queued] /\ UNCHANGED lease
      BY <1>1, <2>1 DEF LaunchRun, Queued
    <3> QED
      BY <1>5, <3>1, NewPods DEF Busy
  <2>2. CASE Refused(p) \/ Stopped(p) \/ Crash(p)
    <3>1. pod' = [pod EXCEPT ![p] = Dead] /\ UNCHANGED lease
      BY <2>2 DEF Refused, Stopped, Crash, Die, Dead
    <3> QED
      BY <1>5, <3>1, NewPods DEF Busy
  <2>3. CASE DeletePod(p)
    BY <1>5, <2>3, NewPods DEF DeletePod, Busy
  <2>4. CASE Acquire(p)
    <3> DEFINE rec == [pod[p] EXCEPT !.pc = "leased"]
    <3>1. pod' = [pod EXCEPT ![p] = rec] /\ lease = None /\ lease' = p /\ pod[p].pc = "queued"
      BY <2>4 DEF Acquire, Goto
    <3>2. rec \in PodRows /\ rec.pc = "leased" /\ rec.stalled = pod[p].stalled /\ rec.lost = pod[p].lost
      BY <1>1 DEF PodRows
    <3> HIDE DEF rec
    <3>3. pod'[p] = rec /\ \A q \in Pods \ {p} : pod'[q] = pod[q]
      BY <1>1, <3>1, <3>2, PodUpdate
    <3>4. ASSUME NEW q \in Pods, q # p PROVE Holder(q)'
      <4>1. Holder(q) /\ pod'[q] = pod[q] /\ q # None
        BY <1>4, <3>3, <3>4, PodFacts DEF HolderInv
      <4> QED
        BY <1>2, <3>1, <4>1 DEF Holder, Busy
    <3>5. Holder(p)'
      BY <1>2, <1>4, <3>1, <3>2, <3>3 DEF Holder, Busy
    <3> QED
      BY <3>4, <3>5 DEF HolderInv
  <2>5. CASE Progress(p)
    <3> DEFINE rec == [pod[p] EXCEPT !.changed = TRUE]
    <3>1. pod' = [pod EXCEPT ![p] = rec] /\ UNCHANGED lease
      BY <2>5 DEF Progress
    <3>2. rec \in PodRows /\ rec.pc = pod[p].pc /\ rec.run = pod[p].run /\ rec.stalled = pod[p].stalled /\ rec.lost = pod[p].lost
      BY <1>1 DEF PodRows
    <3>3. pod[p].stalled = FALSE
      BY <1>1, <1>4 DEF Holder, PodRows
    <3> HIDE DEF rec
    <3> QED
      BY <1>4, <1>5, <3>1, <3>2, <3>3 DEF Holder
  <2>6. CASE HeartbeatFails(p)
    <3> DEFINE rec == [pod[p] EXCEPT !.stop = TRUE, !.lost = TRUE]
    <3>1. pod' = [pod EXCEPT ![p] = rec] /\ UNCHANGED lease /\ pod[p].pc = "working" /\ (lease # p \/ ~MayFinish(p))
      BY <2>6 DEF HeartbeatFails, Calm
    <3>2. rec \in PodRows /\ rec.pc = pod[p].pc /\ rec.run = pod[p].run /\ rec.stalled = pod[p].stalled
      BY <1>1 DEF PodRows
    <3>3. pod[p].stalled = FALSE
      BY <1>1, <1>4 DEF Holder, PodRows
    <3>4. Owns(p) /\ task[p[1]].status \notin {"RUNNING", "PENDING"}
      BY <1>4, <3>1 DEF Holder, Busy, MayFinish
    <3>5. task[p[1]] \in TaskRows
      BY <3>4, PodFacts, ExistingRow DEF Owns, Active, Inv, TypeInv
    <3>6. task[p[1]].status \in Terminal
      BY <3>4, <3>5, RowFields DEF Statuses
    <3> HIDE DEF rec
    <3> QED
      BY <1>5, <3>1, <3>2, <3>3, <3>6 DEF Busy
  <2>7. CASE Terminate(p)
    <3> DEFINE rec == [pod[p] EXCEPT !.stop = TRUE]
    <3>1. pod' = [pod EXCEPT ![p] = rec] /\ UNCHANGED lease
      BY <2>7 DEF Terminate
    <3>2. rec \in PodRows /\ rec.pc = pod[p].pc /\ rec.run = pod[p].run /\ rec.stalled = pod[p].stalled /\ rec.lost = pod[p].lost
      BY <1>1 DEF PodRows
    <3>3. pod[p].stalled = FALSE
      BY <1>1, <1>4 DEF Holder, PodRows
    <3> HIDE DEF rec
    <3> QED
      BY <1>4, <1>5, <3>1, <3>2, <3>3 DEF Holder
  <2>8. CASE Stall(p) \/ Wake(p)
    BY <1>4, <2>8 DEF Stall, Wake, Calm, Holder
  <2> QED
    BY <2>1, <2>2, <2>3, <2>4, <2>5, <2>6, <2>7, <2>8
<1> QED
  BY <1>3, <1>6 DEF Kept

(* The lease of a busy Pod does not expire. *)
LEMMA KeptQuiet ==
    ASSUME Inv, Kept, ExpireLease \/ \E t \in Tasks : Scan(t)
    PROVE  Kept'
<1>1. UNCHANGED <<task, runs, pod, asked>>
  BY DEF ExpireLease, Scan
<1>2. FailedInv' /\ StopsAreRestored'
  BY <1>1, KeptSame DEF Kept, Open
<1>3. ASSUME NEW p \in Pods PROVE Holder(p)'
  <2>1. Holder(p)
    BY DEF Kept, HolderInv
  <2>2. pod[p].pc \in Busy \cup {"leased"} => lease' = p
    BY <2>1 DEF ExpireLease, Scan, Holder, Busy
  <2> QED
    BY <1>1, <2>1, <2>2 DEF Holder, Owns, Active, Exists, Open
<1> QED
  BY <1>2, <1>3 DEF Kept, HolderInv

(* The outcome of a delivery is recorded. *)
LEMMA KeptRuns ==
    ASSUME Inv, Kept, NEW p \in Pods, Commit(p) \/ Detach(p)
    PROVE  Kept'
<1> DEFINE r == pod[p].run
<1>1. /\ pod[p] \in PodRows /\ pod[p].pc = "working" /\ UNCHANGED <<task, lease, asked>> /\ PodType
      /\ r \in DOMAIN runs /\ runs \in Seq(RunRows) /\ HolderInv /\ Holder(p)
  BY DEF Inv, TypeInv, PodType, Commit, Detach, RunInv, Busy, RunType, Kept, HolderInv
<1>2. \A q \in DOMAIN runs : Open(q)' => Open(q)
  <2>1. CASE Commit(p)
    BY <1>1, <2>1 DEF Commit, Open, RunRows
  <2>2. CASE Detach(p)
    BY <1>1, <2>2 DEF Detach, Open, RunRows
  <2> QED
    BY <2>1, <2>2
<1>3. FailedInv' /\ StopsAreRestored'
  BY <1>1, <1>2, KeptSame DEF Kept
<1>4. PICK pc \in {"delivered", "waiting"} : pod' = [pod EXCEPT ![p] = [pod[p] EXCEPT !.pc = pc]]
                                             /\ (pc = "delivered" => Commit(p))
  BY DEF Commit, Detach, Goto
<1> DEFINE rec == [pod[p] EXCEPT !.pc = pc]
<1>5. rec \in PodRows /\ rec.run = r /\ rec.stalled = pod[p].stalled /\ rec.lost = pod[p].lost /\ rec.pc = pc
  BY <1>1 DEF PodRows
<1> HIDE DEF rec
<1>6. pod'[p] = rec /\ \A q \in Pods \ {p} : pod'[q] = pod[q]
  BY <1>1, <1>4, <1>5, PodUpdate DEF rec
<1>7. Commit(p) => ~(r \in DOMAIN runs' /\ ~runs'[r].ended)
  <2>1. runs[r] \in RunRows
    BY <1>1
  <2>2. Commit(p) => runs' = [runs EXCEPT ![r] = [runs[r] EXCEPT !.ended = TRUE]]
    BY DEF Commit
  <2>3. [runs[r] EXCEPT !.ended = TRUE].ended = TRUE
    BY <2>1 DEF RunRows
  <2>4. Commit(p) => runs'[r].ended = TRUE
    BY <1>1, <2>2, <2>3
  <2> QED
    BY <2>4
<1>8. Holder(p)'
  BY <1>1, <1>4, <1>5, <1>6, <1>7 DEF Holder, Owns, Active, Exists, Busy, Open
<1>9. HolderInv'
  BY <1>1, <1>6, <1>8, HolderOne DEF Busy
<1> QED
  BY <1>3, <1>9 DEF Kept

(* A Pod ends. *)
LEMMA KeptSignOff ==
    ASSUME Inv, Kept, NEW p \in Pods, NEW may \in BOOLEAN, NEW row, NEW news \in BOOLEAN, SignOff(p, may, row, news),
           UNCHANGED runs, pod[p].pc \in Busy,
           may => /\ row.sched # None /\ row.status = "FAILED" =>
                       row.sched.run \in DOMAIN runs /\ (Open(row.sched.run) => row.sched.previous = None)
                  /\ p[1] \in asked => news \/ row.status \in Terminal
    PROVE  Kept'
<1>1. HolderInv /\ p[1] \in Tasks /\ PodType
  BY PodFacts DEF Kept, Inv, TypeInv
<1>2. pod' = [pod EXCEPT ![p] = Dead]
  BY DEF SignOff, Die, Dead
<1>3. pod'[p] = Dead /\ \A q \in Pods \ {p} : pod'[q] = pod[q]
  BY <1>1, <1>2, NewPods, PodUpdate
<1>4. HolderInv'
  <2>1. Holder(p)'
    BY <1>3, NewPods DEF Holder, Busy
  <2> QED
    BY <1>1, <1>3, <2>1, HolderOne
<1>5. CASE ~may
  BY <1>4, <1>5, KeptSame DEF SignOff, Kept, Open
<1>6. CASE may
  <2>1. task' = [task EXCEPT ![p[1]] = row]
    BY <1>6 DEF SignOff
  <2>2. asked' \subseteq asked \cup {p[1]} /\ p[1] \notin asked'
    BY <1>6 DEF SignOff, AskedAfter
  <2>3. \A r : Open(r)' <=> Open(r)
    BY DEF Open
  <2> QED
    BY <1>1, <1>4, <1>6, <2>1, <2>2, <2>3, KeptRow DEF Kept
<1> QED
  BY <1>5, <1>6

(* Tasks.finish(), wait() and refreshFailed() *)
LEMMA KeptEnds ==
    ASSUME Inv, Calm, Kept, NEW p \in Pods, EndDelivered(p) \/ EndPending(p) \/ EndFailed(p)
    PROVE  Kept'
<1> DEFINE t == p[1]
<1>1. UNCHANGED runs /\ pod[p].pc \in Busy /\ Holder(p) /\ MayFinish(p) \in BOOLEAN /\ MayRefreshFail(p) \in BOOLEAN
  BY DEF EndDelivered, EndPending, EndFailed, Busy, Kept, HolderInv, MayFinish, MayRefreshFail
<1>2. MayFinish(p) =>
        /\ t \in Tasks /\ Exists(t) /\ task[t] \in TaskRows /\ task[t].active /\ task[t].worker = p
        /\ task[t].status \in {"RUNNING", "PENDING"}
        /\ task[t].status = "RUNNING" => task[t].sched = None
        /\ task[t].status = "PENDING" => Scheduled(t) /\ task[t].sched \in Schedules /\ p[2] >= 0
  BY OwnRow
<1>3. pod[p].run \in DOMAIN runs /\ pod[p].run \in Nat
  BY <1>1 DEF Inv, RunInv, TypeInv, RunType
<1>4. MayFinish(p) /\ task[t].sched # None => Scheduled(t) /\ task[t].sched.run = pod[p].run
  BY <1>1, <1>2 DEF Inv, RunInv, Scheduled, MayFinish
<1>5. MayRefreshFail(p) => MayFinish(p) /\ task[t].status = "PENDING"
  BY DEF MayRefreshFail, MayFinish
<1>6. MayFinish(p) => ~pod[p].lost
  BY <1>1, <1>2 DEF Holder, Terminal
<1>7. ASSUME NEW status \in Terminal, SignOff(p, MayFinish(p), Finished(p, status), TRUE),
             MayFinish(p) /\ status = "FAILED" /\ task[t].sched # None => ~Open(pod[p].run)
      PROVE  Kept'
  <2> DEFINE row == Finished(p, status)
  <2>1. MayFinish(p) => row.sched = (IF status = "FAILED" THEN task[t].sched ELSE None) /\ row.status = status
    <3>1. MayFinish(p) => task[p[1]] \in TaskRows
      BY <1>2
    <3>2. status \in Statuses
      BY DEF Statuses
    <3> QED
      BY <3>1, <3>2, FinishedRow
  <2>2. SignOff(p, MayFinish(p), row, TRUE)
    BY <1>7
  <2> HIDE DEF row
  <2>3. MayFinish(p) => (row.sched # None /\ row.status = "FAILED" =>
             row.sched.run \in DOMAIN runs /\ (Open(row.sched.run) => row.sched.previous = None))
    BY <1>3, <1>4, <1>7, <2>1
  <2> QED
    BY <1>1, <2>2, <2>3, KeptSignOff
<1>8. ASSUME Wait(p) PROVE Kept'
  <2> DEFINE row == Waiting(p)
  <2>1. MayFinish(p) => row.sched.run = pod[p].run /\ row.sched.previous = None
    BY <1>2, <1>3, WaitingRow DEF Inv, TypeInv
  <2>2. SignOff(p, MayFinish(p), row, TRUE)
    BY <1>8 DEF Wait
  <2> HIDE DEF row
  <2>3. MayFinish(p) => (row.sched # None /\ row.status = "FAILED" =>
             row.sched.run \in DOMAIN runs /\ (Open(row.sched.run) => row.sched.previous = None))
    BY <1>3, <2>1
  <2> QED
    BY <1>1, <2>2, <2>3, KeptSignOff
<1>9. ASSUME NEW stopChecks \in BOOLEAN, SignOff(p, MayRefreshFail(p), RefreshFailed(p, stopChecks), FALSE) PROVE Kept'
  <2> DEFINE row == RefreshFailed(p, stopChecks)
  <2>1. MayRefreshFail(p) => /\ row.sched.run = task[t].sched.run /\ row.sched.previous = None
                             /\ row.status = IF task[t].previous = None THEN task[t].status ELSE task[t].previous
    <3>1. MayRefreshFail(p) => task[t] \in TaskRows /\ task[t].sched # None
      BY <1>2, <1>5 DEF Scheduled
    <3> QED
      BY <1>3, <3>1, RefreshFailedRow
  <2>2. SignOff(p, MayRefreshFail(p), row, FALSE)
    BY <1>9
  <2> HIDE DEF row
  <2>3. MayRefreshFail(p) => (row.sched # None /\ row.status = "FAILED" =>
             row.sched.run \in DOMAIN runs /\ (Open(row.sched.run) => row.sched.previous = None))
    BY <1>2, <1>3, <1>4, <1>5, <2>1 DEF Scheduled
  <2>4. MayRefreshFail(p) /\ t \in asked => row.status \in Terminal
    <3>1. MayRefreshFail(p) /\ t \in asked => task[t].previous \in Terminal
      BY <1>2, <1>5 DEF Kept, StopsAreRestored
    <3>2. None \notin Terminal
      BY NoneAssumption DEF Statuses
    <3> QED
      BY <2>1, <3>1, <3>2
  <2> QED
    BY <1>1, <2>2, <2>3, <2>4, KeptSignOff
<1>10. CASE EndDelivered(p)
  <2>1. PICK status \in IF pod[p].stop THEN {StopStatus(p)} ELSE {"COMPLETE", "FAILED"} :
          SignOff(p, MayFinish(p), Finished(p, status), TRUE)
    BY <1>10 DEF EndDelivered
  <2>2. status \in Terminal
    BY DEF Terminal, StopStatus
  <2>3. ~Open(pod[p].run)
    BY <1>1, <1>10 DEF EndDelivered, Holder
  <2> QED
    BY <1>7, <2>1, <2>2, <2>3
<1>11. CASE EndPending(p)
  BY <1>8, <1>11 DEF EndPending
<1>12. CASE EndFailed(p)
  <2>1. \/ \E stopChecks \in BOOLEAN : SignOff(p, MayRefreshFail(p), RefreshFailed(p, stopChecks), FALSE)
        \/ Wait(p)
        \/ /\ p[2] >= 0 => pod[p].stop
           /\ SignOff(p, MayFinish(p), Finished(p, StopStatus(p)), TRUE)
    BY <1>12 DEF EndFailed, Calm
  <2>2. ASSUME p[2] >= 0 => pod[p].stop, SignOff(p, MayFinish(p), Finished(p, StopStatus(p)), TRUE) PROVE Kept'
    <3>1. StopStatus(p) \in Terminal
      BY DEF StopStatus, Terminal
    <3>2. MayFinish(p) /\ StopStatus(p) = "FAILED" => task[t].sched = None
      BY <1>2, <1>6, <2>2 DEF StopStatus
    <3> QED
      BY <1>7, <2>2, <3>1, <3>2
  <2> QED
    BY <1>8, <1>9, <2>1, <2>2
<1> QED
  BY <1>10, <1>11, <1>12

(* recordReverseRefreshFailure() *)
LEMMA KeptBlame ==
    ASSUME Inv, Kept, NEW p \in Pods, NEW b \in BOOLEAN, Blamable(p, b), b => pod[p].pc \notin Busy,
           task' = [task EXCEPT ![p[1]] = Blamed(p)], asked' = AskedAfter(p[1], Blamed(p).status),
           UNCHANGED <<runs, lease>>,
           \A q \in Pods : pod'[q] = pod[q] \/ pod'[q] = Queued
    PROVE  Kept'
<1> DEFINE t == p[1]
           row == Blamed(p)
<1>1. t \in Tasks /\ Scheduled(t) /\ Exists(t) /\ task[t].status = "PENDING"
  BY PodFacts DEF Blamable, Scheduled
<1>2. task[t] \in TaskRows /\ task[t].sched \in Schedules /\ task[t].sched # None /\ task[t].sched.run \in DOMAIN runs
  BY <1>1, ExistingRow DEF Inv, TypeInv, Scheduled, RunInv
<1>3. /\ row.status = IF task[t].active /\ task[t].previous # None THEN task[t].previous
                      ELSE IF task[t].sched.previous # None THEN task[t].sched.previous ELSE task[t].status
      /\ row.sched.run = task[t].sched.run /\ row.sched.previous = None
  BY <1>2, BlamedRow
<1> HIDE DEF row
<1>4. t \in asked => row.status \in Terminal
  <2>1. t \in asked => (IF task[t].active THEN task[t].previous ELSE task[t].sched.previous) \in Terminal
    BY <1>1 DEF Kept, StopsAreRestored
  <2>2. None \notin Terminal /\ task[t].active \in BOOLEAN
    BY <1>2, NoneAssumption, RowFields DEF Statuses
  <2> QED
    BY <1>3, <2>1, <2>2
<1>5. asked' \subseteq asked \cup {t} /\ t \notin asked'
  BY <1>4 DEF AskedAfter, row
<1>6. \A q \in Pods : q[1] = t => pod[q].pc \notin Busy
  <2>1. Active(t) => task[t].worker \in Pods /\ pod[task[t].worker].pc \notin Busy
    BY DEF Blamable, Active
  <2> QED
    BY <1>1, <2>1, Unworked DEF Kept
<1>7. HolderInv'
  <2>1. \A q \in Pods : \/ pod'[q].pc \notin Busy \cup {"leased"} /\ ~pod'[q].stalled /\ ~pod'[q].lost
                        \/ /\ pod'[q].pc = pod[q].pc /\ pod'[q].run = pod[q].run
                           /\ pod'[q].stalled = pod[q].stalled /\ pod'[q].lost = pod[q].lost
    BY NewPods DEF Busy
  <2>2. task' = [task EXCEPT ![t] = row]
    BY DEF row
  <2>3. HolderInv /\ UNCHANGED <<runs, lease>>
    BY DEF Kept
  <2>4. \A q \in Pods : q[1] = t /\ pod[q].pc \in Busy =>
               /\ row # None /\ row.active = task[t].active /\ row.worker = task[t].worker
               /\ task[t].status \in Terminal => row.status \in Terminal
    BY <1>6
  <2> HIDE DEF t
  <2> QED
    BY <1>1, <2>1, <2>2, <2>3, <2>4, HolderRow
<1>8. \A r \in DOMAIN runs : Open(r)' => Open(r)
  BY DEF Open
<1>9. FailedInv' /\ StopsAreRestored'
  <2>1. task' = [task EXCEPT ![t] = row]
    BY DEF row
  <2> HIDE DEF t
  <2> QED
    BY <1>1, <1>2, <1>3, <1>5, <1>8, <2>1, KeptRow DEF Kept
<1> QED
  BY <1>7, <1>9 DEF Kept

(* A check is launched, or its launch fails. *)
LEMMA KeptLaunch ==
    ASSUME Inv, Kept, NEW p \in Pods, LaunchCheck(p)
    PROVE  Kept'
<1>1. /\ UNCHANGED <<runs, lease>>
      /\ pod' = pod \/ pod' = [pod EXCEPT ![p] = Queued]
  BY DEF LaunchCheck, Queued
<1>2. pod \in [Pods -> PodRows]
  BY DEF Inv, TypeInv, PodType
<1>3. CASE UNCHANGED <<task, asked>>
  <2>1. FailedInv' /\ StopsAreRestored'
    BY <1>1, <1>3, KeptSame DEF Kept, Open
  <2>2. HolderInv'
    <3>1. \A q \in Pods \ {p} : pod'[q] = pod[q]
      BY <1>1, <1>2
    <3>2. pod'[p] = pod[p] \/ pod'[p] = Queued
      BY <1>1, <1>2
    <3>3. Holder(p)
      BY DEF Kept, HolderInv
    <3>4. Holder(p)'
      BY <1>1, <1>3, <3>2, <3>3, NewPods DEF Holder, Busy, Owns, Active, Exists, Open
    <3> QED
      BY <1>1, <1>3, <3>1, <3>4, HolderPod DEF Kept
  <2> QED
    BY <2>1, <2>2 DEF Kept
<1>4. CASE ~UNCHANGED <<task, asked>>
  <2>1. /\ Blamable(p, FALSE) /\ task' = [task EXCEPT ![p[1]] = Blamed(p)]
        /\ asked' = AskedAfter(p[1], Blamed(p).status)
    BY <1>4 DEF LaunchCheck
  <2>2. \A q \in Pods : pod'[q] = pod[q] \/ pod'[q] = Queued
    BY <1>1, <1>2
  <2> QED
    BY <1>1, <2>1, <2>2, KeptBlame
<1> QED
  BY <1>3, <1>4

(* The row of a task nobody works on is written by the controller or a user. *)
LEMMA KeptController ==
    ASSUME Inv, Kept, NEW t \in Tasks, NEW new, task' = [task EXCEPT ![t] = new], UNCHANGED <<runs, lease, pod>>,
           \A q \in Pods : q[1] = t => pod[q].pc \notin Busy, asked' \subseteq asked \cup {t},
           new.sched # None /\ new.status = "FAILED" =>
               new.sched.run \in DOMAIN runs /\ (Open(new.sched.run) => new.sched.previous = None),
           t \in asked' /\ new.status = "PENDING" => (IF new.active THEN new.previous ELSE new.sched.previous) \in Terminal
    PROVE  Kept'
<1>1. \A r \in DOMAIN runs : Open(r)' => Open(r)
  BY DEF Open
<1>2. FailedInv' /\ StopsAreRestored'
  BY <1>1, KeptRow DEF Kept
<1>3. HolderInv'
  <2>1. HolderInv
    BY DEF Kept
  <2>2. \A q \in Pods : q[1] = t /\ pod[q].pc \in Busy =>
               /\ new # None /\ new.active = task[t].active /\ new.worker = task[t].worker
               /\ task[t].status \in Terminal => new.status \in Terminal
    OBVIOUS
  <2> QED
    BY <2>1, <2>2, HolderWrite
<1> QED
  BY <1>2, <1>3 DEF Kept

(* closeStaleReverseTasks() *)
LEMMA KeptClose ==
    ASSUME Inv, Kept, NEW t \in Tasks, CloseStale(t)
    PROVE  Kept'
<1> DEFINE p == task[t].worker
<1>1. /\ Active(t) /\ Exists(t) /\ task[t].status \in {"RUNNING", "PENDING"}
      /\ UNCHANGED <<runs, pod, lease>>
      /\ task[t].status = "PENDING" => Blamable(p, TRUE)
      /\ pod[p].stalled \/ pod[p].pc \in {"absent", "dead"}
  BY DEF CloseStale, Active
<1>2. RowOK(t, task[t]) /\ task[t] \in TaskRows
  BY <1>1, ExistingRow DEF Inv, RowInv, TypeInv
<1>3. p \in Pods /\ p[1] = t
  BY <1>1, <1>2 DEF RowOK, Active
<1>4. pod[p].pc \notin Busy
  BY <1>1, <1>3 DEF Kept, HolderInv, Holder, Busy
<1>5. CASE task[t].status = "RUNNING"
  <2> DEFINE new == [task[t] EXCEPT !.status = "FAILED", !.active = FALSE]
  <2>1. task' = [task EXCEPT ![t] = new] /\ asked' \subseteq asked
    BY <1>5 DEF CloseStale, AskedAfter
  <2>2. new.sched = None
    BY <1>2, <1>5 DEF RowOK, TaskRows
  <2>3. t \notin asked'
    BY <1>5, <2>1 DEF Inv, AskedInv
  <2>4. \A q \in Pods : q[1] = t => pod[q].pc \notin Busy
    BY <1>3, <1>4, Unworked DEF Kept
  <2> HIDE DEF new
  <2> QED
    BY <1>1, <2>1, <2>2, <2>3, <2>4, KeptController
<1>6. CASE task[t].status = "PENDING"
  <2>1. task' = [task EXCEPT ![p[1]] = Blamed(p)] /\ asked' = AskedAfter(p[1], Blamed(p).status)
    BY <1>3, <1>6 DEF CloseStale
  <2>2. \A q \in Pods : pod'[q] = pod[q] \/ pod'[q] = Queued
    BY <1>1
  <2> HIDE DEF p
  <2> QED
    BY <1>1, <1>3, <1>4, <1>6, <2>1, <2>2, KeptBlame
<1> QED
  BY <1>1, <1>5, <1>6

(* failReverseWorker() *)
LEMMA KeptFail ==
    ASSUME Inv, Kept, NEW p \in Pods, FailWorker(p)
    PROVE  Kept'
<1> DEFINE t == p[1]
<1>1. t \in Tasks /\ UNCHANGED <<runs, pod, lease>> /\ pod[p].pc \notin Busy
  BY PodFacts DEF FailWorker, Busy
<1>2. CASE UNCHANGED <<task, asked>>
  <2>1. FailedInv' /\ StopsAreRestored'
    BY <1>1, <1>2, KeptSame DEF Kept, Open
  <2>2. HolderInv'
    BY <1>1, <1>2 DEF Kept, HolderInv, Holder, Owns, Active, Exists, Open
  <2> QED
    BY <2>1, <2>2 DEF Kept
<1>3. CASE Blamable(p, TRUE) /\ task' = [task EXCEPT ![t] = Blamed(p)] /\ asked' = AskedAfter(t, Blamed(p).status)
  BY <1>1, <1>3, KeptBlame
<1>4. CASE ~Exists(t) /\ task' = [task EXCEPT ![t] = ControllerRow("FAILED")] /\ UNCHANGED asked
  <2> DEFINE new == ControllerRow("FAILED")
  <2>1. new.sched = None
    BY ControllerRowFacts
  <2>2. t \notin asked'
    BY <1>4 DEF Inv, AskedInv
  <2>3. \A q \in Pods : q[1] = t => pod[q].pc \notin Busy
    <3>1. ~Active(t)
      BY <1>4 DEF Active
    <3> QED
      BY <1>1, <3>1, Unworked DEF Kept
  <2>4. task' = [task EXCEPT ![t] = new] /\ asked' \subseteq asked \cup {t}
    BY <1>4
  <2> HIDE DEF new, t
  <2> QED
    BY <1>1, <2>1, <2>2, <2>3, <2>4, KeptController
<1>5. CASE /\ Exists(t) /\ task[t].status = "RUNNING" /\ UNCHANGED asked /\ task[t].worker \in {p, None}
           /\ task' = [task EXCEPT ![t] = [task[t] EXCEPT !.status = "FAILED"]]
  <2> DEFINE new == [task[t] EXCEPT !.status = "FAILED"]
  <2>1. task[t] \in TaskRows /\ RowOK(t, task[t])
    BY <1>1, <1>5, ExistingRow DEF Inv, TypeInv, RowInv
  <2>2. new.sched = None
    BY <1>5, <2>1 DEF RowOK, TaskRows
  <2>3. t \notin asked'
    BY <1>5 DEF Inv, AskedInv
  <2>4. \A q \in Pods : q[1] = t => pod[q].pc \notin Busy
    <3>1. Active(t) => task[t].worker = p
      <4>1. Active(t) => task[t].worker \in Pods
        BY <2>1 DEF Active, RowOK
      <4>2. None \notin Pods
        BY NoneAssumption
      <4> QED
        BY <1>5, <4>1, <4>2
    <3> QED
      BY <1>1, <3>1, Unworked DEF Kept
  <2>5. task' = [task EXCEPT ![t] = new] /\ asked' \subseteq asked \cup {t}
    BY <1>5
  <2> HIDE DEF new, t
  <2> QED
    BY <1>1, <2>2, <2>3, <2>4, <2>5, KeptController
<1>6. \/ UNCHANGED <<task, asked>>
      \/ Blamable(p, TRUE) /\ task' = [task EXCEPT ![t] = Blamed(p)] /\ asked' = AskedAfter(t, Blamed(p).status)
      \/ ~Exists(t) /\ task' = [task EXCEPT ![t] = ControllerRow("FAILED")] /\ UNCHANGED asked
      \/ /\ Exists(t) /\ task[t].status = "RUNNING" /\ UNCHANGED asked /\ task[t].worker \in {p, None}
         /\ task' = [task EXCEPT ![t] = [task[t] EXCEPT !.status = "FAILED"]]
  <2>1. [task EXCEPT ![t] = task[t]] = task
    BY DEF Inv, TypeInv, TaskType
  <2> QED
    BY <2>1 DEF FailWorker
<1> QED
  BY <1>2, <1>3, <1>4, <1>5, <1>6

(* A user asks for a check: the status to restore is stored, and not written over. *)
LEMMA KeptRefresh ==
    ASSUME Inv, Kept, NEW t \in Tasks, Refresh(t)
    PROVE  Kept'
<1> DEFINE s == task[t].sched
           previous == IF task[t].status = "CANCELLED" \/ s.previous = None THEN task[t].status ELSE s.previous
           z == [s EXCEPT !.attempt = @ + 1, !.left = MaxPolls, !.due = TRUE, !.suspended = FALSE, !.previous = previous]
           new == [task[t] EXCEPT !.status = "PENDING", !.sched = z]
<1>1. /\ Scheduled(t) /\ Exists(t) /\ task[t].status \in Checkable /\ ~task[t].active /\ Open(s.run)
  BY DEF Refresh, Refreshable, Scheduled
<1>2. task[t] \in TaskRows /\ s \in Schedules
  BY <1>1, ExistingRow DEF Inv, TypeInv
<1>3. /\ task' = [task EXCEPT ![t] = new] /\ UNCHANGED <<runs, pod, lease>>
      /\ asked' = IF task[t].status \in Terminal THEN asked \cup {t} ELSE asked
  BY DEF Refresh
<1>4. t \in asked' => previous \in Terminal
  <2>1. CASE task[t].status \in Terminal
    <3>1. task[t].status = "FAILED" => s.previous = None
      BY <1>1 DEF Kept, FailedInv
    <3> QED
      BY <1>1, <2>1, <3>1 DEF Checkable, Terminal
  <2>2. CASE task[t].status \notin Terminal
    <3>1. task[t].status = "PENDING"
      BY <1>1, <2>2 DEF Checkable, Terminal
    <3>2. t \in asked' => s.previous \in Terminal
      BY <1>1, <1>3, <2>2, <3>1 DEF Kept, StopsAreRestored
    <3>3. None \notin Terminal
      BY NoneAssumption DEF Statuses
    <3> QED
      BY <3>1, <3>2, <3>3
  <2> QED
    BY <2>1, <2>2
<1> HIDE DEF previous
<1>5. z.previous = previous
  BY <1>2 DEF Schedules
<1> HIDE DEF z
<1>6. new.status = "PENDING" /\ new.sched = z /\ new.active = FALSE
  <2>1. task[t].active = FALSE
    BY <1>1, <1>2, RowFields
  <2> QED
    BY <1>2, <2>1 DEF TaskRows
<1> HIDE DEF new
<1>7. \A q \in Pods : q[1] = t => pod[q].pc \notin Busy
  <2>1. ~Active(t)
    BY <1>1 DEF Active
  <2> QED
    BY <2>1, Unworked DEF Kept
<1>8. asked' \subseteq asked \cup {t}
  BY <1>3
<1> QED
  BY <1>3, <1>4, <1>5, <1>6, <1>7, <1>8, KeptController

(* A user cancels. *)
LEMMA KeptCancel ==
    ASSUME Inv, Kept, NEW t \in Tasks, Cancel(t)
    PROVE  Kept'
<1> DEFINE new == IF ~Exists(t) THEN ControllerRow("CANCELLED") ELSE [task[t] EXCEPT !.status = "CANCELLED"]
<1>1. /\ task' = [task EXCEPT ![t] = new]
      /\ Exists(t) => task[t].status \in {"RUNNING", "PENDING"}
      /\ asked' = asked \ {t} /\ UNCHANGED <<runs, lease>>
  BY DEF Cancel
<1>2. pod' = [p \in Pods |-> IF p[1] = t /\ pod[p].pc \notin {"absent", "dead"} THEN [pod[p] EXCEPT !.stop = TRUE] ELSE pod[p]]
  BY DEF Cancel
<1>3. \A p \in Pods : LET rec == [pod[p] EXCEPT !.stop = TRUE] IN
                      rec.pc = pod[p].pc /\ rec.run = pod[p].run /\ rec.stalled = pod[p].stalled /\ rec.lost = pod[p].lost
  BY DEF Inv, TypeInv, PodType, PodRows
<1>4. \A q \in Pods : /\ pod'[q].pc = pod[q].pc /\ pod'[q].run = pod[q].run
                      /\ pod'[q].stalled = pod[q].stalled /\ pod'[q].lost = pod[q].lost
  BY <1>2, <1>3
<1>5. /\ new \in TaskRows /\ new.status = "CANCELLED" /\ new # None
      /\ Exists(t) => new.active = task[t].active /\ new.worker = task[t].worker
  <2>1. CASE Exists(t)
    <3>1. task[t] \in TaskRows
      BY <2>1, ExistingRow DEF Inv, TypeInv
    <3>2. new \in TaskRows /\ new.status = "CANCELLED" /\ new.active = task[t].active /\ new.worker = task[t].worker
      BY <2>1, <3>1 DEF TaskRows, Statuses, Terminal
    <3> HIDE DEF new
    <3> QED
      BY <3>2, RowFields
  <2>2. CASE ~Exists(t)
    BY <2>2, ControllerRowFacts, RowFields
  <2> QED
    BY <2>1, <2>2
<1> HIDE DEF new
<1>6. ASSUME NEW q \in Pods, q[1] = t, pod[q].pc \in Busy PROVE Exists(t)
  BY <1>6 DEF Kept, HolderInv, Holder, Owns, Active
<1>7. HolderInv'
  <2>1. HolderInv
    BY DEF Kept
  <2>2. \A q \in Pods : q[1] = t /\ pod[q].pc \in Busy =>
               /\ new # None /\ new.active = task[t].active /\ new.worker = task[t].worker
               /\ task[t].status \in Terminal => new.status \in Terminal
    BY <1>5, <1>6 DEF Terminal
  <2> QED
    BY <1>1, <1>4, <2>1, <2>2, HolderRow
<1>8. FailedInv' /\ StopsAreRestored'
  <2>1. (\A r \in DOMAIN runs : Open(r)' => Open(r)) /\ asked' \subseteq asked \cup {t} /\ t \notin asked' /\ new.status # "FAILED"
    BY <1>1, <1>5 DEF Open
  <2> QED
    BY <1>1, <2>1, KeptRow DEF Kept
<1> QED
  BY <1>7, <1>8 DEF Kept

(* The time of a check comes. *)
LEMMA KeptTick ==
    ASSUME Inv, Kept, NEW t \in Tasks, Tick(t)
    PROVE  Kept'
<1> DEFINE s == task[t].sched
           z == [s EXCEPT !.due = TRUE]
           new == [task[t] EXCEPT !.sched = z]
<1>1. /\ Scheduled(t) /\ Exists(t) /\ UNCHANGED <<runs, pod, lease, asked>>
      /\ task' = [task EXCEPT ![t] = new]
  BY DEF Tick, Scheduled
<1>2. task[t] \in TaskRows /\ s \in Schedules /\ s.run \in DOMAIN runs
  BY <1>1, ExistingRow DEF Inv, TypeInv, RunInv
<1>3. z \in Schedules /\ z.run = s.run /\ z.previous = s.previous
  BY <1>2 DEF Schedules
<1> HIDE DEF z
<1>4. /\ new \in TaskRows /\ new.status = task[t].status /\ new.sched = z /\ new.active = task[t].active
      /\ new.worker = task[t].worker /\ new.previous = task[t].previous
  BY <1>2, <1>3 DEF TaskRows
<1> HIDE DEF new
<1>5. new # None
  BY <1>4, RowFields
<1>6. HolderInv'
  <2>1. HolderInv
    BY DEF Kept
  <2>2. \A q \in Pods : q[1] = t /\ pod[q].pc \in Busy =>
               /\ new # None /\ new.active = task[t].active /\ new.worker = task[t].worker
               /\ task[t].status \in Terminal => new.status \in Terminal
    BY <1>4, <1>5
  <2> HIDE DEF s
  <2> QED
    BY <1>1, <2>1, <2>2, HolderWrite
<1>7. \A r \in DOMAIN runs : Open(r)' => Open(r)
  BY <1>1 DEF Open
<1>8. new.sched # None /\ new.status = "FAILED" =>
          new.sched.run \in DOMAIN runs /\ (Open(new.sched.run) => new.sched.previous = None)
  BY <1>1, <1>2, <1>3, <1>4 DEF Kept, FailedInv
<1>9. t \in asked' /\ new.status = "PENDING" => (IF new.active THEN new.previous ELSE new.sched.previous) \in Terminal
  BY <1>1, <1>3, <1>4 DEF Kept, StopsAreRestored
<1>10. asked' \subseteq asked \cup {t}
  BY <1>1
<1> HIDE DEF s
<1>11. FailedInv' /\ StopsAreRestored'
  BY <1>1, <1>7, <1>8, <1>9, <1>10, KeptRow DEF Kept
<1> QED
  BY <1>6, <1>11 DEF Kept

(* A Pod that may not begin ends. *)
LEMMA KeptDie ==
    ASSUME Inv, Kept, NEW p \in Pods, pod[p].pc = "leased", UNCHANGED <<task, runs, asked>>, Die(p)
    PROVE  Kept'
<1>1. FailedInv' /\ StopsAreRestored'
  BY KeptSame DEF Kept, Open
<1>2. pod' = [pod EXCEPT ![p] = Dead] /\ PodType
  BY DEF Die, Dead, Inv, TypeInv
<1>3. pod'[p] = Dead /\ \A q \in Pods \ {p} : pod'[q] = pod[q]
  BY <1>2, NewPods, PodUpdate
<1>4. Holder(p)'
  BY <1>3, NewPods DEF Holder, Busy
<1> QED
  BY <1>1, <1>3, <1>4, HolderOne DEF Kept

(* A Pod begins. *)
LEMMA HolderStart ==
    ASSUME Inv, Kept, NEW p \in Pods, pod[p].pc = "leased", UNCHANGED lease, NEW rec \in PodRows, NEW new \in TaskRows,
           pod' = [pod EXCEPT ![p] = rec], rec.pc = "working", rec.stalled = pod[p].stalled, rec.lost = pod[p].lost,
           task' = [task EXCEPT ![p[1]] = new], new.active = TRUE, new.worker = p
    PROVE  HolderInv'
<1>1. PodType /\ Holder(p) /\ HolderInv /\ p[1] \in Tasks /\ new # None
  BY PodFacts, RowFields DEF Inv, TypeInv, Kept, HolderInv
<1>2. pod'[p] = rec /\ \A q \in Pods \ {p} : pod'[q] = pod[q]
  BY <1>1, PodUpdate
<1>3. task'[p[1]] = new
  BY <1>1 DEF Inv, TypeInv, TaskType
<1>4. Holder(p)'
  BY <1>1, <1>2, <1>3 DEF Holder, Owns, Active, Exists, Busy
<1> QED
  BY <1>1, <1>2, <1>4, HolderOne

(* Tasks.start() of a manual or scheduled Pod *)
LEMMA KeptStartRun ==
    ASSUME Inv, Kept, NEW p \in Pods, StartRun(p)
    PROVE  Kept'
<1>1. CASE ~Startable(p[1])
  BY <1>1, KeptDie DEF StartRun
<1>2. CASE Startable(p[1])
  <2> DEFINE t == p[1]
             new == [seq |-> NextSeq, status |-> "RUNNING", worker |-> p, active |-> TRUE, previous |-> None, sched |-> None]
  <2>1. /\ task' = [task EXCEPT ![t] = new] /\ ~Exists(t) /\ UNCHANGED <<lease, asked>> /\ pod[p].pc = "leased"
    BY <1>2 DEF StartRun, Startable
  <2>2. new \in TaskRows /\ new.status = "RUNNING" /\ new.worker = p /\ new.active = TRUE /\ new.sched = None
    BY RunningRow
  <2> HIDE DEF new
  <2>3. runs \in Seq(RunRows) /\ pod[p] \in PodRows /\ t \in Tasks /\ MaxRuns \in Nat /\ setting.runs \in 0 .. MaxRuns
        /\ Len(runs) <= setting.runs
    BY PodFacts, ConstantsAssumption DEF Inv, TypeInv, RunType, PodType
  <2>4. \A r \in DOMAIN runs : Open(r)' => Open(r)
    <3>1. UNCHANGED runs \/ runs' = Append(runs, [ended |-> FALSE, detached |-> FALSE])
      BY <1>2 DEF StartRun
    <3>2. \A r \in DOMAIN runs : runs'[r] = runs[r]
      BY <2>3, <3>1
    <3> QED
      BY <3>2 DEF Open
  <2>5. \E r \in 0 .. MaxRuns : pod' = [pod EXCEPT ![p] = [pod[p] EXCEPT !.pc = "working", !.run = r]]
    <3>1. CASE \E r \in Attached : pod' = [pod EXCEPT ![p].pc = "working", ![p].run = r]
      <4>1. Attached \subseteq 0 .. MaxRuns
        <5>1. DOMAIN runs = 1 .. Len(runs) /\ Len(runs) \in Nat
          BY <2>3
        <5> QED
          BY <2>3, <5>1 DEF Attached
      <4> QED
        BY <3>1, <4>1
    <3>2. CASE Len(runs) < setting.runs /\ pod' = [pod EXCEPT ![p].pc = "working", ![p].run = Len(runs) + 1]
      <4>1. Len(runs) + 1 \in 0 .. MaxRuns
        BY <2>3, <3>2
      <4> QED
        BY <3>2, <4>1
    <3> QED
      BY <1>2, <3>1, <3>2 DEF StartRun
  <2>6. PICK r \in 0 .. MaxRuns : pod' = [pod EXCEPT ![p] = [pod[p] EXCEPT !.pc = "working", !.run = r]]
    BY <2>5
  <2> DEFINE rec == [pod[p] EXCEPT !.pc = "working", !.run = r]
  <2>7. rec \in PodRows /\ rec.pc = "working" /\ rec.stalled = pod[p].stalled /\ rec.lost = pod[p].lost
    BY <2>3 DEF PodRows
  <2>8. pod' = [pod EXCEPT ![p] = rec] /\ task' = [task EXCEPT ![p[1]] = new]
    BY <2>1, <2>6
  <2> HIDE DEF rec
  <2>9. HolderInv'
    BY <2>1, <2>2, <2>7, <2>8, HolderStart
  <2>10. asked' \subseteq asked \cup {t}
    BY <2>1
  <2> HIDE DEF t
  <2>11. FailedInv' /\ StopsAreRestored'
    BY <2>1, <2>2, <2>3, <2>4, <2>10, KeptRow DEF Kept
  <2> QED
    BY <2>9, <2>11 DEF Kept
<1> QED
  BY <1>1, <1>2

(* Tasks.start() of a recovery Pod: it remembers the status to restore. *)
LEMMA KeptStartCheck ==
    ASSUME Inv, Kept, NEW p \in Pods, StartCheck(p)
    PROVE  Kept'
<1> DEFINE t == p[1]
           wanted == Due(t) /\ task[t].sched.attempt = p[2]
<1>1. CASE ~wanted
  BY <1>1, KeptDie DEF StartCheck
<1>2. CASE wanted
  <2> DEFINE new == [task[t] EXCEPT !.worker = p, !.active = TRUE,
                                    !.previous = IF task[t].sched.previous # None THEN task[t].sched.previous ELSE task[t].status]
             rec == [pod[p] EXCEPT !.pc = "working", !.run = task[t].sched.run]
  <2>1. /\ task' = [task EXCEPT ![t] = new] /\ pod' = [pod EXCEPT ![p] = rec]
        /\ UNCHANGED <<runs, lease, asked>> /\ pod[p].pc = "leased"
    BY <1>2 DEF StartCheck
  <2>2. Scheduled(t) /\ Exists(t) /\ task[t].status = "PENDING" /\ ~task[t].active
    BY <1>2 DEF Due, Active, Scheduled
  <2>3. t \in Tasks /\ task[t] \in TaskRows /\ task[t].sched \in Schedules
    BY <2>2, PodFacts, ExistingRow DEF Inv, TypeInv
  <2>4. /\ new \in TaskRows /\ new.status = "PENDING" /\ new.worker = p /\ new.active = TRUE
        /\ new.previous = IF task[t].sched.previous # None THEN task[t].sched.previous ELSE "PENDING"
    BY <2>2, <2>3, CheckedRow
  <2> HIDE DEF new
  <2>5. task[t].sched.run \in DOMAIN runs
    BY <2>2, <2>3 DEF Inv, RunInv
  <2>6. rec \in PodRows /\ rec.pc = "working" /\ rec.stalled = pod[p].stalled /\ rec.lost = pod[p].lost
    <3>1. pod[p] \in PodRows
      BY DEF Inv, TypeInv, PodType
    <3>2. Len(runs) <= setting.runs /\ setting.runs \in 0 .. MaxRuns /\ runs \in Seq(RunRows)
      BY ConstantsAssumption DEF Inv, TypeInv, RunType
    <3>3. task[t].sched.run \in 0 .. MaxRuns
      BY <2>5, <3>2, ConstantsAssumption
    <3> QED
      BY <3>1, <3>3 DEF PodRows
  <2> HIDE DEF rec
  <2>7. HolderInv'
    BY <2>1, <2>4, <2>6, HolderStart
  <2>8. t \in asked' => new.previous \in Terminal
    <3>1. t \in asked' => task[t].sched.previous \in Terminal
      BY <2>1, <2>2 DEF Kept, StopsAreRestored
    <3>2. None \notin Terminal
      BY NoneAssumption DEF Statuses
    <3> QED
      BY <2>4, <3>1, <3>2
  <2>9. (\A r \in DOMAIN runs : Open(r)' => Open(r)) /\ asked' \subseteq asked \cup {t}
    BY <2>1 DEF Open
  <2> HIDE DEF t
  <2>10. FailedInv' /\ StopsAreRestored'
    BY <2>1, <2>3, <2>4, <2>8, <2>9, KeptRow DEF Kept
  <2> QED
    BY <2>7, <2>10 DEF Kept
<1> QED
  BY <1>1, <1>2

(* Every step. *)
LEMMA NextKept ==
    ASSUME Inv, CalmInv, [Next]_vars
    PROVE  CalmInv'
<1>1. Calm' <=> Calm
  BY DEF Calm, Faults, Next, vars, state
<1> SUFFICES ASSUME Calm PROVE Kept'
  BY <1>1 DEF CalmInv
<1>2. Kept
  BY DEF CalmInv
<1>3. CASE UNCHANGED vars
  <2>1. UNCHANGED <<task, runs, pod, lease, asked>>
    BY <1>3 DEF vars, state
  <2>2. FailedInv' /\ StopsAreRestored'
    BY <1>2, <2>1, KeptSame DEF Kept, Open
  <2>3. HolderInv'
    BY <1>2, <2>1 DEF Kept, HolderInv, Holder, Owns, Active, Exists, Open
  <2> QED
    BY <2>2, <2>3 DEF Kept
<1>4. ASSUME NEW t \in Tasks, LaunchRun(t) PROVE Kept'
  <2>1. <<t, -1>> \in Pods
    BY ConstantsAssumption DEF Pods
  <2>2. <<t, -1>>[2] = -1 /\ LaunchRun(<<t, -1>>[1])
    BY <1>4
  <2> QED
    BY <1>2, <2>1, <2>2, KeptPods
<1>5. ASSUME NEW t \in Tasks, Refresh(t) \/ Cancel(t) \/ Controller(t) PROVE Kept'
  BY <1>2, <1>5, KeptRefresh, KeptCancel, KeptQuiet, KeptClose, KeptTick DEF Controller
<1>6. ASSUME NEW p \in Pods, Work(p) PROVE Kept'
  BY <1>2, <1>6, KeptPods, KeptRuns, KeptEnds, KeptStartRun, KeptStartCheck DEF Work
<1>7. ASSUME NEW p \in Pods,
             \/ LaunchCheck(p) \/ Progress(p)
             \/ FailWorker(p) \/ DeletePod(p) \/ Terminate(p) \/ Crash(p) \/ Stall(p) \/ Wake(p)
      PROVE  Kept'
  BY <1>2, <1>7, KeptPods, KeptLaunch, KeptFail
<1>8. CASE ExpireLease
  BY <1>2, <1>8, KeptQuiet
<1> QED
  BY <1>3, <1>4, <1>5, <1>6, <1>7, <1>8 DEF Next, Step

(* The invariant. *)
LEMMA CalmInvariance == Spec => []CalmInv
<1>1. Init => CalmInv
  <2> SUFFICES ASSUME Init PROVE Kept
    BY DEF CalmInv
  <2>1. \A p \in Pods : Holder(p)
    BY NewPods DEF Init, Holder, Busy
  <2>2. FailedInv /\ StopsAreRestored
    BY DEF Init, FailedInv, StopsAreRestored, Scheduled, Exists
  <2> QED
    BY <2>1, <2>2 DEF Kept, HolderInv
<1>2. Inv /\ CalmInv /\ [Next]_vars => CalmInv'
  BY NextKept
<1> QED
  BY <1>1, <1>2, Invariance, PTL DEF Spec

(* "Failed explicit checks preserve the prior task status": a stopped task a   *)
(* user had checked goes back to being stopped when the check tells nothing    *)
(* (refreshReverseTask, Tasks.start and refreshFailed, and the controller's    *)
(* record of failures), unless Pods stall, the provider has a last word, or a  *)
(* heartbeat fails although the Pod still has the lease and the task (tick).   *)
THEOREM StopsRestored == Spec => []RestoredWithoutVerdict
<1>1. CalmInv => RestoredWithoutVerdict
  BY DEF CalmInv, Calm, Kept, RestoredWithoutVerdict
<1> QED
  BY <1>1, CalmInvariance, PTL

-----------------------------------------------------------------------------
(* Runs and tasks, when no Pod is interrupted                                *)

(* What may be written over a row: no two tasks wait for its run, the number   *)
(* of its check does not go back, and only a task that waits goes on waiting.  *)
Alone(t, new) ==
    new.sched # None =>
        \A u \in Tasks \ {t} : Scheduled(u) /\ task[u].sched.run = new.sched.run =>
            task[u].status # "PENDING" /\ new.status # "PENDING"
Onward(t, new) ==
    Exists(t) /\ task[t].status # "RUNNING" =>
        new.status # "RUNNING" /\ (new.sched # None => Scheduled(t) /\ task[t].sched.attempt <= new.sched.attempt)
Stays(t, new) ==
    new.status = "PENDING" /\ Exists(t) /\ task[t].status # "RUNNING" =>
        task[t].status = "PENDING" /\ (task[t].sched.suspended /\ ~task[t].active => new.sched.suspended /\ ~new.active)

(* A row is written. *)
LEMMA RowWritten ==
    ASSUME Inv, NEW t \in Tasks, NEW new \in TaskRows, task' = [task EXCEPT ![t] = new]
    PROVE  /\ task'[t] = new /\ new # None /\ \A u \in Tasks \ {t} : task'[u] = task[u]
           /\ Exists(t)' /\ (Scheduled(t)' <=> new.sched # None) /\ (Active(t)' <=> new.active)
           /\ \A u \in Tasks \ {t} : (Exists(u)' <=> Exists(u)) /\ (Scheduled(u)' <=> Scheduled(u)) /\ (Active(u)' <=> Active(u))
<1>1. task'[t] = new /\ new # None /\ \A u \in Tasks \ {t} : task'[u] = task[u]
  BY RowFields DEF Inv, TypeInv, TaskType
<1> QED
  BY <1>1 DEF Exists, Scheduled, Active

(* A task that waited was alone with its run. *)
LEMMA AloneSame ==
    ASSUME SoleInv, NEW t \in Tasks, NEW new, Scheduled(t), new.sched.run = task[t].sched.run,
           task[t].status = "PENDING" \/ new.status = task[t].status
    PROVE  Alone(t, new)
  BY DEF SoleInv, Alone

(* What is said of tasks and of Pods not at work, when a row is written. *)
LEMMA WholeRow ==
    ASSUME Inv, Whole, NEW t \in Tasks, NEW new \in TaskRows, task' = [task EXCEPT ![t] = new], RowOK(t, new),
           Alone(t, new), PlainRow(new), Onward(t, new), Stays(t, new),
           new.sched # None => new.sched.run \in DOMAIN runs,
           new.sched # None /\ new.status = "FAILED" /\ Open(new.sched.run) => new.sched.left = 0,
           \A r \in DOMAIN runs : Open(r)' => Open(r),
           \A q \in Pods : Launched(q)' => Launched(q),
           \A q \in Pods : pod'[q].stop => pod[q].stop /\ pod'[q].pc # "absent"
    PROVE  SoleInv' /\ PlainInv' /\ SpentInv' /\ LaunchedInv' /\ ObsoleteInv'
<1>1. /\ task'[t] = new /\ new # None /\ \A u \in Tasks \ {t} : task'[u] = task[u]
      /\ Exists(t)' /\ (Scheduled(t)' <=> new.sched # None) /\ (Active(t)' <=> new.active)
      /\ \A u \in Tasks \ {t} : (Exists(u)' <=> Exists(u)) /\ (Scheduled(u)' <=> Scheduled(u)) /\ (Active(u)' <=> Active(u))
  BY RowWritten
<1>2. SoleInv'
  <2> SUFFICES ASSUME NEW u \in Tasks, NEW v \in Tasks, Scheduled(u)', Scheduled(v)', task'[u].status = "PENDING",
                      task'[v].sched.run = task'[u].sched.run, u # v
               PROVE  FALSE
    BY DEF SoleInv
  <2>1. CASE u = t
    BY <1>1, <2>1 DEF Alone
  <2>2. CASE v = t
    BY <1>1, <2>2 DEF Alone
  <2>3. CASE u # t /\ v # t
    BY <1>1, <2>3 DEF Whole, SoleInv
  <2> QED
    BY <2>1, <2>2, <2>3
<1>3. PlainInv'
  <2> SUFFICES ASSUME NEW u \in Tasks, Exists(u)' PROVE PlainRow(task'[u])
    BY DEF PlainInv, PlainRow
  <2> QED
    BY <1>1 DEF Whole, PlainInv
<1>4. SpentInv'
  <2> SUFFICES ASSUME NEW u \in Tasks, Scheduled(u)', task'[u].status = "FAILED",
                      task'[u].sched.run \in DOMAIN runs', ~runs'[task'[u].sched.run].ended
               PROVE  task'[u].sched.left = 0
    BY DEF SpentInv, Open
  <2>1. \A r \in DOMAIN runs : r \in DOMAIN runs' /\ ~runs'[r].ended => Open(r)
    BY DEF Open
  <2>2. CASE u = t
    BY <1>1, <2>1, <2>2
  <2>3. CASE u # t
    <3>1. Scheduled(u) /\ task'[u] = task[u]
      BY <1>1, <2>3
    <3>2. task[u].sched.run \in DOMAIN runs
      BY <3>1 DEF Inv, RunInv
    <3> QED
      BY <2>1, <3>1, <3>2 DEF Whole, SpentInv
  <2> QED
    BY <2>2, <2>3
<1>5. LaunchedInv'
  <2> SUFFICES ASSUME NEW p \in Pods, p[2] >= 0, Launched(p)'
               PROVE  /\ Exists(p[1])' /\ task'[p[1]].status # "RUNNING"
                      /\ Scheduled(p[1])' => p[2] <= task'[p[1]].sched.attempt
    BY DEF LaunchedInv
  <2>1. /\ p[1] \in Tasks /\ p[2] \in Int /\ Exists(p[1]) /\ task[p[1]].status # "RUNNING"
        /\ Scheduled(p[1]) => p[2] <= task[p[1]].sched.attempt
    BY PodFacts DEF Whole, LaunchedInv
  <2>2. CASE p[1] # t
    BY <1>1, <2>1, <2>2
  <2>3. CASE p[1] = t
    <3>1. new.sched # None => Scheduled(t) /\ task[t].sched.attempt <= new.sched.attempt /\ p[2] <= task[t].sched.attempt
      BY <2>1, <2>3 DEF Onward
    <3>2. new.sched # None => task[t].sched.attempt \in Nat /\ new.sched.attempt \in Nat
      BY <3>1, ExistingRow, SchedFields, RowFields DEF Inv, TypeInv
    <3>3. new.sched # None => p[2] <= new.sched.attempt
      BY <2>1, <3>1, <3>2
    <3> QED
      BY <1>1, <2>1, <2>3, <3>3 DEF Onward
  <2> QED
    BY <2>2, <2>3
<1>6. ObsoleteInv'
  <2> SUFFICES ASSUME NEW p \in Pods, pod'[p].stop PROVE Obsolete(p)'
    BY DEF ObsoleteInv
  <2>1. Obsolete(p) /\ pod[p].pc # "absent" /\ p[1] \in Tasks /\ p[2] \in Int
    BY PodFacts DEF Whole, ObsoleteInv
  <2>2. CASE p[1] # t
    BY <1>1, <2>1, <2>2 DEF Obsolete
  <2>3. CASE p[1] = t
    <3> SUFFICES ASSUME p[2] >= 0, new.status = "PENDING" PROVE p[2] < new.sched.attempt \/ (new.sched.suspended /\ ~new.active)
      BY <1>1, <2>3 DEF Obsolete
    <3>1. Exists(t) /\ task[t].status # "RUNNING" /\ new.sched # None
      BY <2>1, <2>3 DEF Whole, LaunchedInv, Launched, RowOK
    <3>2. task[t].status = "PENDING" /\ (task[t].sched.suspended /\ ~task[t].active => new.sched.suspended /\ ~new.active)
      BY <3>1 DEF Stays
    <3>3. p[2] < task[t].sched.attempt \/ (task[t].sched.suspended /\ ~task[t].active)
      BY <2>1, <2>3, <3>2 DEF Obsolete
    <3>4. Scheduled(t) /\ task[t].sched.attempt <= new.sched.attempt
      BY <3>1 DEF Onward
    <3>5. task[t].sched.attempt \in Nat /\ new.sched.attempt \in Nat
      BY <3>1, <3>4, ExistingRow, SchedFields, RowFields DEF Inv, TypeInv
    <3> QED
      BY <2>1, <3>2, <3>3, <3>4, <3>5
  <2> QED
    BY <2>2, <2>3
<1> QED
  BY <1>2, <1>3, <1>4, <1>5, <1>6

(* Pods come and go that are not at work, or go on working. *)
LEMMA WholePod ==
    ASSUME Inv, Kept, Whole, UNCHANGED <<task, runs>>, NEW p \in Pods, NEW rec \in PodRows, pod' = [pod EXCEPT ![p] = rec],
           pod[p].pc \in Busy => rec.pc = pod[p].pc /\ rec.run = pod[p].run /\ rec.stalled = pod[p].stalled /\ ~rec.stop,
           rec.pc \in Busy => pod[p].pc \in Busy,
           rec.stop => rec.pc # "absent" /\ Obsolete(p),
           rec.pc # "absent" => Launched(p) \/ p[2] = -1,
           \A q \in scanned' : q \in scanned \/ (Scheduled(q[1]) /\ task[q[1]].status # "RUNNING" /\ q[2] <= task[q[1]].sched.attempt)
    PROVE  Whole'
<1>1. PodType' /\ pod'[p] = rec /\ \A q \in Pods \ {p} : pod'[q] = pod[q]
  BY PodUpdate DEF Inv, TypeInv
<1>2. SoleInv' /\ PlainInv' /\ SpentInv' /\ NoWaitForEnded'
  BY DEF Whole, SoleInv, PlainInv, PlainRow, SpentInv, NoWaitForEnded, Scheduled, Exists, Open
<1>3. WorkedInv'
  <2> SUFFICES ASSUME NEW t \in Tasks, Active(t)' PROVE task[t].status \notin Terminal /\ pod'[task[t].worker].pc \in Busy
    BY DEF WorkedInv
  <2>1. Active(t) /\ Exists(t)
    BY DEF Active, Exists
  <2>2. task[t].status \notin Terminal /\ pod[task[t].worker].pc \in Busy
    BY <2>1 DEF Whole, WorkedInv
  <2>3. RowOK(t, task[t])
    BY <2>1 DEF Inv, RowInv
  <2>4. task[t].worker \in Pods
    BY <2>1, <2>3 DEF RowOK, Active
  <2> QED
    BY <1>1, <2>2, <2>4
<1>4. LaunchedInv'
  <2> SUFFICES ASSUME NEW q \in Pods, q[2] >= 0, Launched(q)'
               PROVE  /\ Exists(q[1]) /\ task[q[1]].status # "RUNNING"
                      /\ Scheduled(q[1]) => q[2] <= task[q[1]].sched.attempt
    BY DEF LaunchedInv, Exists, Scheduled
  <2>1. Launched(q) \/ (q \in scanned' /\ q \notin scanned)
    BY <1>1 DEF Launched
  <2>2. Launched(q) \/ (Scheduled(q[1]) /\ task[q[1]].status # "RUNNING" /\ q[2] <= task[q[1]].sched.attempt)
    BY <2>1
  <2> QED
    BY <2>2 DEF Whole, LaunchedInv, Scheduled
<1>5. ObsoleteInv'
  <2> SUFFICES ASSUME NEW q \in Pods, pod'[q].stop PROVE pod'[q].pc # "absent" /\ Obsolete(q)
    BY DEF ObsoleteInv, Obsolete, Exists
  <2> QED
    BY <1>1 DEF Whole, ObsoleteInv
<1>6. BusyInv'
  <2> SUFFICES ASSUME NEW q \in Pods, pod'[q].pc \in Busy PROVE BusyPod(q)'
    BY DEF BusyInv
  <2>1. pod[q].pc \in Busy /\ pod'[q].pc = pod[q].pc /\ pod'[q].run = pod[q].run /\ (pod[q].stop \/ ~pod'[q].stop)
    BY <1>1
  <2>2. BusyPod(q)
    BY <2>1 DEF Whole, BusyInv
  <2> QED
    BY <2>1, <2>2 DEF BusyPod, Open, Attached, Scheduled, Exists
<1>7. RunsStayReachable'
  <2> SUFFICES ASSUME NEW r \in DOMAIN runs, Open(r)
               PROVE  \/ r \in Attached
                      \/ \E t \in Tasks : Scheduled(t) /\ task[t].sched.run = r /\ (task[t].status = "PENDING" \/ Refreshable(t))
                      \/ \E q \in Pods : Live(q)' /\ pod'[q].run = r /\ Owns(q)
    BY DEF RunsStayReachable, Open, Attached, Scheduled, Exists, Refreshable, Owns, Active
  <2>1. \/ r \in Attached
        \/ \E t \in Tasks : Scheduled(t) /\ task[t].sched.run = r /\ (task[t].status = "PENDING" \/ Refreshable(t))
        \/ \E q \in Pods : Live(q) /\ pod[q].run = r /\ Owns(q)
    BY DEF Whole, RunsStayReachable
  <2>2. ASSUME NEW q \in Pods, Live(q), pod[q].run = r, Owns(q) PROVE Live(q)' /\ pod'[q].run = r
    <3>1. pod[q].pc \in Busy
      BY <2>2, PodFacts DEF Whole, WorkedInv, Owns
    <3> QED
      BY <1>1, <2>2, <3>1 DEF Live
  <2> QED
    BY <2>1, <2>2
<1> QED
  BY <1>2, <1>3, <1>4, <1>5, <1>6, <1>7 DEF Whole

(* A busy Pod has the row of its task, which is not over, and the lease. *)
LEMMA Worker ==
    ASSUME Inv, Kept, Whole, NEW p \in Pods, pod[p].pc \in Busy
    PROVE  /\ MayFinish(p) /\ Owns(p) /\ lease = p /\ BusyPod(p)
           /\ p[2] >= 0 => task[p[1]].status = "PENDING" /\ task[p[1]].sched.attempt = p[2]
           /\ p[2] = -1 => task[p[1]].status = "RUNNING"
<1>1. Owns(p) /\ lease = p /\ p[1] \in Tasks /\ BusyPod(p)
  BY PodFacts DEF Kept, HolderInv, Holder, Whole, BusyInv
<1>2. Exists(p[1]) /\ task[p[1]].active /\ task[p[1]].worker = p
  BY <1>1 DEF Owns, Active
<1>3. task[p[1]] \in TaskRows /\ task[p[1]].status \notin Terminal
  BY <1>1, <1>2, ExistingRow DEF Inv, TypeInv, Whole, WorkedInv, Active
<1>4. task[p[1]].status \in {"RUNNING", "PENDING"}
  BY <1>3, RowFields DEF Statuses
<1>5. PlainRow(task[p[1]]) /\ RowOK(p[1], task[p[1]])
  BY <1>1, <1>2 DEF Whole, PlainInv, Inv, RowInv
<1> QED
  BY <1>1, <1>2, <1>4, <1>5 DEF MayFinish, PlainRow, RowOK

(* Pods come, go, and hear. *)
LEMMA WholePods ==
    ASSUME Inv, Kept, Whole, Uninterrupted, NEW p \in Pods,
           \/ (p[2] = -1 /\ LaunchRun(p[1])) \/ Acquire(p) \/ Refused(p) \/ Progress(p) \/ HeartbeatFails(p)
           \/ DeletePod(p) \/ Terminate(p) \/ Stopped(p) \/ Crash(p) \/ Stall(p) \/ Wake(p)
    PROVE  Whole'
<1>1. pod[p] \in PodRows /\ p = <<p[1], p[2]>> /\ p[2] \in Int /\ p[1] \in Tasks
  BY PodFacts DEF Inv, TypeInv, PodType
<1>2. UNCHANGED <<task, runs, scanned>>
  BY DEF LaunchRun, Acquire, Refused, Progress, HeartbeatFails, DeletePod, Terminate, Stopped, Crash, Stall, Wake
<1>3. pod[p].stop => pod[p].pc # "absent" /\ Obsolete(p)
  BY DEF Whole, ObsoleteInv
<1>4. pod[p].pc \in Busy => /\ MayFinish(p) /\ lease = p /\ Owns(p) /\ ~pod[p].stop
  BY Worker DEF BusyPod
<1>5. ASSUME NEW rec \in PodRows, pod' = [pod EXCEPT ![p] = rec],
             pod[p].pc \in Busy => rec.pc = pod[p].pc /\ rec.run = pod[p].run /\ rec.stalled = pod[p].stalled /\ ~rec.stop,
             rec.pc \in Busy => pod[p].pc \in Busy,
             rec.stop => rec.pc # "absent" /\ Obsolete(p),
             rec.pc # "absent" => pod[p].pc # "absent" \/ p[2] = -1
      PROVE  Whole'
  <2>1. rec.pc # "absent" => Launched(p) \/ p[2] = -1
    BY <1>5 DEF Launched
  <2>2. \A q \in scanned' : q \in scanned
    BY <1>2
  <2> QED
    BY <1>2, <1>5, <2>1, <2>2, WholePod
<1>6. CASE p[2] = -1 /\ LaunchRun(p[1])
  <2>1. pod' = [pod EXCEPT ![p] = Queued] /\ pod[p].pc = "absent"
    BY <1>1, <1>6 DEF LaunchRun, Queued
  <2> QED
    BY <1>5, <1>6, <2>1, NewPods DEF Busy
<1>7. CASE Refused(p) \/ Stopped(p)
  <2>1. pod' = [pod EXCEPT ![p] = Dead] /\ pod[p].pc = "queued"
    BY <1>7 DEF Refused, Stopped, Die, Dead
  <2> QED
    BY <1>5, <2>1, NewPods DEF Busy
<1>8. CASE DeletePod(p)
  <2>1. pod' = [pod EXCEPT ![p] = NoPod] /\ pod[p].pc = "dead"
    BY <1>8 DEF DeletePod
  <2> QED
    BY <1>5, <2>1, NewPods DEF Busy
<1>9. CASE Acquire(p)
  <2> DEFINE rec == [pod[p] EXCEPT !.pc = "leased"]
  <2>1. pod' = [pod EXCEPT ![p] = rec] /\ pod[p].pc = "queued" /\ ~pod[p].stop
    BY <1>9 DEF Acquire, Goto
  <2>2. rec \in PodRows /\ rec.pc = "leased" /\ rec.stop = pod[p].stop
    BY <1>1 DEF PodRows
  <2> HIDE DEF rec
  <2> QED
    BY <1>5, <2>1, <2>2 DEF Busy
<1>10. CASE Progress(p)
  <2> DEFINE rec == [pod[p] EXCEPT !.changed = TRUE]
  <2>1. pod' = [pod EXCEPT ![p] = rec]
    BY <1>10 DEF Progress
  <2>2. rec \in PodRows /\ rec.pc = pod[p].pc /\ rec.run = pod[p].run /\ rec.stalled = pod[p].stalled /\ rec.stop = pod[p].stop
    BY <1>1 DEF PodRows
  <2> HIDE DEF rec
  <2> QED
    BY <1>3, <1>4, <1>5, <2>1, <2>2
<1>11. CASE HeartbeatFails(p)
  BY <1>4, <1>11 DEF HeartbeatFails, Busy, Uninterrupted
<1>12. CASE Terminate(p)
  <2> DEFINE rec == [pod[p] EXCEPT !.stop = TRUE]
             row == task[p[1]]
  <2>1. pod' = [pod EXCEPT ![p] = rec] /\ pod[p].pc \notin {"absent", "dead"} /\ Superseded(p)
    BY <1>12 DEF Terminate, Uninterrupted
  <2>2. rec \in PodRows /\ rec.pc = pod[p].pc /\ rec.run = pod[p].run /\ rec.stop = TRUE
    BY <1>1 DEF PodRows
  <2>3. Exists(p[1]) /\ PlainRow(row) /\ RowOK(p[1], row) /\ row \in TaskRows
    BY <1>1, <2>1, ExistingRow DEF Superseded, Whole, PlainInv, Inv, RowInv, TypeInv
  <2>4. pod[p].pc \notin Busy
    BY <1>4, <2>1 DEF Superseded, MayFinish, Owns, Active, Terminal
  <2>5. Obsolete(p)
    <3> SUFFICES ASSUME p[2] >= 0, row.status = "PENDING" PROVE p[2] < row.sched.attempt \/ (row.sched.suspended /\ ~row.active)
      BY <2>3 DEF Obsolete
    <3>1. p[2] <= row.sched.attempt /\ row.sched.attempt \in Nat
      <4>1. Scheduled(p[1])
        BY <2>3 DEF RowOK, Scheduled
      <4> QED
        BY <1>1, <2>1, <4>1, ExistingRow, SchedFields DEF Whole, LaunchedInv, Launched, Inv, TypeInv
    <3>2. CASE row.worker = p /\ ~row.active
      BY <2>3, <3>2, PodFacts DEF PlainRow
    <3>3. CASE row.worker # p /\ row.active
      <4>1. row.worker \in Pods /\ row.worker[1] = p[1] /\ row.worker[2] = row.sched.attempt
        BY <2>3, <3>3 DEF RowOK, PlainRow
      <4>2. row.worker = <<row.worker[1], row.worker[2]>>
        BY <4>1, PodFacts
      <4>3. p[2] # row.sched.attempt
        BY <1>1, <3>3, <4>1, <4>2
      <4> QED
        BY <1>1, <3>1, <4>3
    <3>4. CASE p[2] # row.sched.attempt
      BY <1>1, <3>1, <3>4
    <3> QED
      BY <2>1, <3>2, <3>3, <3>4 DEF Superseded, Terminal
  <2> HIDE DEF rec, row
  <2> QED
    BY <1>5, <2>1, <2>2, <2>4, <2>5
<1>13. CASE Crash(p) \/ Stall(p) \/ Wake(p)
  BY <1>13 DEF Crash, Stall, Wake, Uninterrupted, Kept, HolderInv, Holder
<1> QED
  BY <1>6, <1>7, <1>8, <1>9, <1>10, <1>11, <1>12, <1>13

(* A Pod is created, dies before it began, or stays; the lease expires; checks are read. *)
LEMMA WholeQuiet ==
    ASSUME Inv, Kept, Whole, NEW p \in Pods, UNCHANGED <<task, runs>>,
           \/ pod' = pod
           \/ Launched(p) /\ pod[p].pc = "absent" /\ pod' = [pod EXCEPT ![p] = Queued]
           \/ pod[p].pc = "leased" /\ Die(p),
           \A q \in scanned' : q \in scanned \/ (Scheduled(q[1]) /\ task[q[1]].status # "RUNNING" /\ q[2] <= task[q[1]].sched.attempt)
    PROVE  Whole'
<1>1. pod[p] \in PodRows /\ PodType
  BY DEF Inv, TypeInv, PodType
<1>2. CASE pod' = pod
  <2>1. pod' = [pod EXCEPT ![p] = pod[p]]
    BY <1>1, <1>2 DEF PodType
  <2>2. pod[p].stop => pod[p].pc # "absent" /\ Obsolete(p)
    BY DEF Whole, ObsoleteInv
  <2>3. pod[p].pc \in Busy => ~pod[p].stop
    BY DEF Whole, BusyInv, BusyPod
  <2>4. pod[p].pc # "absent" => Launched(p)
    BY DEF Launched
  <2> QED
    BY <1>1, <2>1, <2>2, <2>3, <2>4, WholePod
<1>3. CASE Launched(p) /\ pod[p].pc = "absent" /\ pod' = [pod EXCEPT ![p] = Queued]
  <2>1. pod[p].pc \notin Busy /\ Queued.pc \notin Busy /\ Queued \in PodRows /\ Queued.stop = FALSE
    BY <1>3, NewPods DEF Busy
  <2> QED
    BY <1>3, <2>1, WholePod
<1>4. CASE pod[p].pc = "leased" /\ Die(p)
  <2>1. pod[p].pc \notin Busy /\ Dead.pc \notin Busy /\ Dead \in PodRows /\ Dead.stop = FALSE /\ Launched(p)
    BY <1>4, NewPods DEF Busy, Launched
  <2>2. pod' = [pod EXCEPT ![p] = Dead]
    BY <1>4 DEF Die, Dead
  <2> QED
    BY <2>1, <2>2, WholePod
<1> QED
  BY <1>2, <1>3, <1>4

(* The lease expires. *)
LEMMA WholeExpire ==
    ASSUME Inv, Kept, Whole, ExpireLease
    PROVE  Whole'
<1>1. lease \in Pods /\ UNCHANGED <<task, runs, pod, scanned>>
  BY DEF ExpireLease, Inv, TypeInv, SmallType
<1> QED
  BY <1>1, WholeQuiet

(* A due check is read. *)
LEMMA WholeScan ==
    ASSUME Inv, Kept, Whole, NEW t \in Tasks, Scan(t)
    PROVE  Whole'
<1> DEFINE p == <<t, task[t].sched.attempt>>
<1>1. /\ UNCHANGED <<task, runs, pod>> /\ scanned' = scanned \cup {p} /\ Scheduled(t) /\ task[t].status = "PENDING"
      /\ task[t].sched.attempt \in 0 .. setting.attempts
  BY DEF Scan, Due
<1>2. setting.attempts \in 0 .. MaxAttempt
  BY ConstantsAssumption DEF Inv, TypeInv, RunType
<1>3. p \in Pods
  <2>1. task[t].sched.attempt \in -1 .. MaxAttempt
    BY <1>1, <1>2, ConstantsAssumption
  <2> QED
    BY <2>1 DEF Pods
<1>4. p[1] = t /\ p[2] = task[t].sched.attempt /\ p[2] <= task[t].sched.attempt
  BY <1>1, <1>2
<1> HIDE DEF p
<1>5. \A q \in scanned' : q \in scanned \/ (Scheduled(q[1]) /\ task[q[1]].status # "RUNNING" /\ q[2] <= task[q[1]].sched.attempt)
  BY <1>1, <1>4
<1> QED
  BY <1>1, <1>3, <1>5, WholeQuiet

(* The outcome of a delivery is recorded. *)
LEMMA WholeRuns ==
    ASSUME Inv, Kept, Whole, NEW p \in Pods, Commit(p) \/ Detach(p)
    PROVE  Whole'
<1> DEFINE r == pod[p].run
<1>1. /\ pod[p] \in PodRows /\ pod[p].pc = "working" /\ UNCHANGED <<task, lease, scanned>> /\ PodType /\ pod[p].pc \in Busy
      /\ r \in DOMAIN runs /\ runs \in Seq(RunRows) /\ runs[r] \in RunRows
  BY DEF Inv, TypeInv, PodType, Commit, Detach, RunInv, Busy, RunType
<1>2. /\ Owns(p) /\ BusyPod(p) /\ Open(r) /\ ~pod[p].stop /\ p[1] \in Tasks /\ p[2] \in Int /\ p[2] >= -1
      /\ p[2] >= 0 => task[p[1]].status = "PENDING"
  BY <1>1, Worker, PodFacts DEF BusyPod
<1>3. /\ DOMAIN runs' = DOMAIN runs /\ \A k \in DOMAIN runs \ {r} : runs'[k] = runs[k]
      /\ Commit(p) => runs'[r].ended = TRUE
      /\ Detach(p) => runs'[r].ended = FALSE
  <2>1. CASE Commit(p)
    <3>1. runs' = [runs EXCEPT ![r] = [runs[r] EXCEPT !.ended = TRUE]]
      BY <2>1 DEF Commit
    <3>2. [runs[r] EXCEPT !.ended = TRUE].ended = TRUE
      BY <1>1 DEF RunRows
    <3>3. ~Detach(p)
      BY <2>1, <1>1 DEF Commit, Detach, Goto, PodType, PodRows
    <3> QED
      BY <1>1, <3>1, <3>2, <3>3
  <2>2. CASE Detach(p)
    <3>1. PICK d \in BOOLEAN : runs' = [runs EXCEPT ![r] = [runs[r] EXCEPT !.detached = @ \/ d]]
      BY <2>2 DEF Detach
    <3>2. [runs[r] EXCEPT !.detached = @ \/ d].ended = FALSE
      BY <1>1, <1>2 DEF RunRows, Open
    <3>3. ~Commit(p)
      BY <2>2, <1>1 DEF Commit, Detach, Goto, PodType, PodRows
    <3> QED
      BY <1>1, <3>1, <3>2, <3>3
  <2> QED
    BY <2>1, <2>2
<1>4. PICK pc \in {"delivered", "waiting"} : /\ pod' = [pod EXCEPT ![p] = [pod[p] EXCEPT !.pc = pc]]
                                             /\ pc = "waiting" => Detach(p)
  BY DEF Commit, Detach, Goto
<1> DEFINE rec == [pod[p] EXCEPT !.pc = pc]
<1>5. /\ rec \in PodRows /\ rec.run = r /\ rec.stalled = pod[p].stalled /\ rec.stop = pod[p].stop /\ rec.pc = pc
  BY <1>1 DEF PodRows
<1> HIDE DEF rec
<1>6. pod'[p] = rec /\ \A q \in Pods \ {p} : pod'[q] = pod[q]
  BY <1>1, <1>4, <1>5, PodUpdate DEF rec
<1>7. \A q \in Pods \ {p} : pod[q].pc \notin Busy
  BY <1>1, OthersIdle DEF Kept
<1>8. /\ \A k : k \in DOMAIN runs' /\ ~runs'[k].ended => Open(k)
      /\ \A k \in DOMAIN runs \ {r} : (Open(k)' <=> Open(k)) /\ (k \in Attached' <=> k \in Attached)
  BY <1>2, <1>3 DEF Open, Attached
<1>9. SoleInv' /\ PlainInv' /\ SpentInv'
  <2>1. SoleInv' /\ PlainInv'
    BY <1>1 DEF Whole, SoleInv, PlainInv, PlainRow, Scheduled, Exists
  <2>2. SpentInv'
    <3> SUFFICES ASSUME NEW t \in Tasks, Scheduled(t), task[t].status = "FAILED",
                        task[t].sched.run \in DOMAIN runs' /\ ~runs'[task[t].sched.run].ended
                 PROVE  task[t].sched.left = 0
      BY <1>1 DEF SpentInv, Open, Scheduled, Exists
    <3> QED
      BY <1>8 DEF Whole, SpentInv
  <2> QED
    BY <2>1, <2>2
<1>10. WorkedInv'
  <2> SUFFICES ASSUME NEW t \in Tasks, Active(t) PROVE task[t].status \notin Terminal /\ pod'[task[t].worker].pc \in Busy
    BY <1>1 DEF WorkedInv, Active, Exists
  <2>1. task[t].status \notin Terminal /\ pod[task[t].worker].pc \in Busy
    BY DEF Whole, WorkedInv
  <2>2. RowOK(t, task[t])
    BY DEF Inv, RowInv, Active
  <2>3. task[t].worker \in Pods
    BY <2>2 DEF RowOK, Active
  <2>4. task[t].worker = p
    BY <1>7, <2>1, <2>3
  <2> QED
    BY <1>5, <1>6, <2>1, <2>4 DEF Busy
<1>11. LaunchedInv'
  <2> SUFFICES ASSUME NEW q \in Pods, q[2] >= 0, Launched(q)'
               PROVE  /\ Exists(q[1]) /\ task[q[1]].status # "RUNNING"
                      /\ Scheduled(q[1]) => q[2] <= task[q[1]].sched.attempt
    BY <1>1 DEF LaunchedInv, Exists, Scheduled
  <2>1. Launched(q)
    BY <1>1, <1>6 DEF Launched
  <2> QED
    BY <2>1 DEF Whole, LaunchedInv
<1>12. ObsoleteInv'
  <2> SUFFICES ASSUME NEW q \in Pods, pod'[q].stop PROVE pod'[q].pc # "absent" /\ Obsolete(q)
    BY <1>1 DEF ObsoleteInv, Obsolete, Exists
  <2> QED
    BY <1>2, <1>5, <1>6 DEF Whole, ObsoleteInv
<1>13. BusyInv'
  <2> SUFFICES ASSUME NEW q \in Pods, pod'[q].pc \in Busy PROVE BusyPod(q)'
    BY DEF BusyInv
  <2>1. q = p
    BY <1>6, <1>7
  <2>2. pc # "delivered" => r \in DOMAIN runs' /\ ~runs'[r].ended
    BY <1>1, <1>3, <1>4
  <2>3. /\ ~pod'[p].stop /\ pod'[p].pc = pc /\ pod'[p].run = r /\ pc # "working"
        /\ p[2] = -1 => \A u \in Tasks : Scheduled(u) /\ task[u].sched.run = r => task[u].status # "PENDING"
    BY <1>2, <1>5, <1>6 DEF BusyPod
  <2> HIDE DEF r
  <2> QED
    BY <1>1, <2>1, <2>2, <2>3 DEF BusyPod, Open, Scheduled, Exists
<1>14. RunsStayReachable'
  <2> SUFFICES ASSUME NEW k \in DOMAIN runs, k \in DOMAIN runs' /\ ~runs'[k].ended
               PROVE  \/ k \in Attached'
                      \/ \E t \in Tasks : /\ Scheduled(t) /\ task[t].sched.run = k
                                          /\ task[t].status = "PENDING" \/ Refreshable(t)'
                      \/ \E q \in Pods : Live(q)' /\ pod'[q].run = k /\ Owns(q)
    BY <1>1, <1>3 DEF RunsStayReachable, Open, Scheduled, Exists, Owns, Active
  <2>1. CASE k = r
    <3>1. Detach(p)
      BY <1>3, <2>1
    <3>2. Live(p) /\ ~pod[p].stalled
      BY <3>1 DEF Detach, Live
    <3>3. Live(p)' /\ pod'[p].run = r
      BY <1>4, <1>5, <1>6, <3>2 DEF Live
    <3> QED
      BY <1>2, <2>1, <3>3
  <2>2. CASE k # r
    <3>1. Open(k) /\ (k \in Attached' <=> k \in Attached)
      BY <1>8, <2>2
    <3>2. \/ k \in Attached
          \/ \E t \in Tasks : Scheduled(t) /\ task[t].sched.run = k /\ (task[t].status = "PENDING" \/ Refreshable(t))
          \/ \E q \in Pods : Live(q) /\ pod[q].run = k /\ Owns(q)
      BY <3>1 DEF Whole, RunsStayReachable
    <3>3. ASSUME NEW t \in Tasks, task[t].sched.run = k, Refreshable(t) PROVE Refreshable(t)'
      <4>1. k \in DOMAIN runs' /\ ~runs'[k].ended
        OBVIOUS
      <4> QED
        BY <1>1, <3>3, <4>1 DEF Refreshable, Scheduled, Exists, Open
    <3>4. ASSUME NEW q \in Pods, pod[q].run = k, Owns(q) PROVE FALSE
      <4>1. pod[q].pc \in Busy
        BY <3>4, PodFacts DEF Whole, WorkedInv, Owns
      <4> QED
        BY <1>7, <2>2, <3>4, <4>1
    <3> QED
      BY <3>1, <3>2, <3>3, <3>4
  <2> QED
    BY <2>1, <2>2
<1>15. NoWaitForEnded'
  <2> SUFFICES ASSUME NEW t \in Tasks, Exists(t), task[t].status = "PENDING", ~task[t].active
               PROVE  task[t].sched.run \in DOMAIN runs' /\ ~runs'[task[t].sched.run].ended
    BY <1>1 DEF NoWaitForEnded, Exists, Open
  <2>1. Open(task[t].sched.run) /\ Scheduled(t)
    BY DEF Whole, NoWaitForEnded, Inv, RowInv, RowOK, Scheduled
  <2>2. CASE task[t].sched.run # r
    BY <1>3, <2>1, <2>2 DEF Open
  <2>3. CASE task[t].sched.run = r
    <3>1. p[2] # -1
      BY <1>2, <2>1, <2>3 DEF BusyPod
    <3>2. p[2] >= 0
      BY <1>2, <3>1
    <3>3. task[p[1]].status = "PENDING" /\ Exists(p[1]) /\ task[p[1]].active
      BY <1>2, <3>2 DEF Owns, Active
    <3>4. Scheduled(p[1])
      BY <1>2, <3>3 DEF Inv, RowInv, RowOK, Scheduled
    <3>5. task[p[1]].sched.run = r
      BY <1>1, <1>2, <3>4 DEF Inv, RunInv
    <3>6. t = p[1]
      BY <1>2, <2>1, <2>3, <3>3, <3>4, <3>5 DEF Whole, SoleInv
    <3> QED
      BY <3>3, <3>6
  <2> QED
    BY <2>2, <2>3
<1> QED
  BY <1>9, <1>10, <1>11, <1>12, <1>13, <1>14, <1>15 DEF Whole

(* The controller writes a row: status, run and worker stay. *)
LEMMA WholeNote ==
    ASSUME Inv, Kept, Whole, UNCHANGED runs, scanned' \subseteq scanned,
           NEW t \in Tasks, NEW new \in TaskRows, task' = [task EXCEPT ![t] = new],
           NEW p \in Pods, pod' = pod \/ (Launched(p) /\ pod[p].pc = "absent" /\ pod' = [pod EXCEPT ![p] = Queued]),
           RowOK(t, new), PlainRow(new), Onward(t, new), Stays(t, new),
           Scheduled(t) => new.sched # None /\ new.sched.run = task[t].sched.run /\ new.status = task[t].status,
           ~Scheduled(t) => new.sched = None,
           Active(t) <=> new.active,
           new.active => new.worker = task[t].worker /\ new.status = task[t].status,
           new.sched # None /\ new.status = "FAILED" /\ Open(new.sched.run) => new.sched.left = 0
    PROVE  Whole'
<1>1. /\ task'[t] = new /\ new # None /\ \A u \in Tasks \ {t} : task'[u] = task[u]
      /\ Exists(t)' /\ (Scheduled(t)' <=> new.sched # None) /\ (Active(t)' <=> new.active)
      /\ \A u \in Tasks \ {t} : (Exists(u)' <=> Exists(u)) /\ (Scheduled(u)' <=> Scheduled(u)) /\ (Active(u)' <=> Active(u))
  BY RowWritten
<1>2. \A q \in Pods : pod'[q] = pod[q] \/ (q = p /\ Launched(p) /\ pod[p].pc = "absent" /\ pod'[p] = Queued)
  BY DEF Inv, TypeInv, PodType
<1>3. /\ \A q \in Pods : Launched(q)' => Launched(q)
      /\ \A q \in Pods : pod'[q].stop => pod[q].stop /\ pod'[q].pc # "absent"
      /\ \A q \in Pods : (pod'[q].pc \in Busy \/ pod[q].pc \in Busy) => pod'[q] = pod[q]
  BY <1>2, NewPods DEF Launched, Busy, Whole, ObsoleteInv
<1>4. SoleInv' /\ PlainInv' /\ SpentInv' /\ LaunchedInv' /\ ObsoleteInv'
  <2>1. Alone(t, new)
    BY AloneSame DEF Alone, Whole
  <2>2. new.sched # None => new.sched.run \in DOMAIN runs
    BY DEF Inv, RunInv
  <2>3. \A r \in DOMAIN runs : Open(r)' => Open(r)
    BY DEF Open
  <2> QED
    BY <1>3, <2>1, <2>2, <2>3, WholeRow
<1>5. WorkedInv'
  <2> SUFFICES ASSUME NEW u \in Tasks, Active(u)' PROVE task'[u].status \notin Terminal /\ pod'[task'[u].worker].pc \in Busy
    BY DEF WorkedInv
  <2>1. Active(u) /\ task'[u].worker = task[u].worker /\ task'[u].status = task[u].status
    BY <1>1
  <2>2. task[u].status \notin Terminal /\ pod[task[u].worker].pc \in Busy
    BY <2>1 DEF Whole, WorkedInv
  <2>3. RowOK(u, task[u])
    BY <2>1 DEF Inv, RowInv, Active
  <2>4. task[u].worker \in Pods
    BY <2>1, <2>3 DEF RowOK, Active
  <2> QED
    BY <1>3, <2>1, <2>2, <2>4
<1>6. BusyInv'
  <2> SUFFICES ASSUME NEW q \in Pods, pod'[q].pc \in Busy PROVE BusyPod(q)'
    BY DEF BusyInv
  <2>1. pod'[q] = pod[q] /\ BusyPod(q)
    BY <1>3 DEF Whole, BusyInv
  <2>2. \A u \in Tasks : Scheduled(u)' => Scheduled(u) /\ task'[u].sched.run = task[u].sched.run /\ task'[u].status = task[u].status
    BY <1>1
  <2> QED
    BY <2>1, <2>2 DEF BusyPod, Open, Attached
<1>7. RunsStayReachable'
  <2> SUFFICES ASSUME NEW r \in DOMAIN runs, Open(r)
               PROVE  \/ r \in Attached
                      \/ \E u \in Tasks : Scheduled(u)' /\ task'[u].sched.run = r /\ (task'[u].status = "PENDING" \/ Refreshable(u)')
                      \/ \E q \in Pods : Live(q)' /\ pod'[q].run = r /\ Owns(q)'
    BY DEF RunsStayReachable, Open, Attached
  <2>1. \/ r \in Attached
        \/ \E u \in Tasks : Scheduled(u) /\ task[u].sched.run = r /\ (task[u].status = "PENDING" \/ Refreshable(u))
        \/ \E q \in Pods : Live(q) /\ pod[q].run = r /\ Owns(q)
    BY DEF Whole, RunsStayReachable
  <2>2. ASSUME NEW u \in Tasks, Scheduled(u), task[u].sched.run = r, task[u].status = "PENDING" \/ Refreshable(u)
        PROVE  Scheduled(u)' /\ task'[u].sched.run = r /\ (task'[u].status = "PENDING" \/ Refreshable(u)')
    <3>1. Scheduled(u)' /\ task'[u].sched.run = r /\ task'[u].status = task[u].status
      BY <1>1, <2>2
    <3>2. Refreshable(u) => ~Active(u)'
      BY <1>1 DEF Refreshable, Active
    <3>3. Refreshable(u) => Refreshable(u)'
      BY <2>2, <3>1, <3>2 DEF Refreshable, Open, Active, Scheduled
    <3> QED
      BY <2>2, <3>1, <3>3
  <2>3. ASSUME NEW q \in Pods, Live(q), pod[q].run = r, Owns(q) PROVE Live(q)' /\ pod'[q].run = r /\ Owns(q)'
    <3>1. pod[q].pc \in Busy /\ q[1] \in Tasks
      BY <2>3, PodFacts DEF Whole, WorkedInv, Owns
    <3>2. pod'[q] = pod[q]
      BY <1>3, <3>1
    <3>3. Owns(q)'
      BY <1>1, <2>3, <3>1 DEF Owns
    <3> QED
      BY <2>3, <3>2, <3>3 DEF Live
  <2> QED
    BY <2>1, <2>2, <2>3
<1>8. NoWaitForEnded'
  <2> SUFFICES ASSUME NEW u \in Tasks, Exists(u)', task'[u].status = "PENDING", ~task'[u].active
               PROVE  Open(task'[u].sched.run)
    BY DEF NoWaitForEnded, Open
  <2>1. CASE u = t
    <3>1. Scheduled(t) /\ new.sched.run = task[t].sched.run /\ task[t].status = "PENDING" /\ ~task[t].active /\ Exists(t)
      BY <1>1, <2>1 DEF RowOK, Active, Scheduled
    <3> QED
      BY <1>1, <2>1, <3>1 DEF Whole, NoWaitForEnded
  <2>2. CASE u # t
    BY <1>1, <2>2 DEF Whole, NoWaitForEnded
  <2> QED
    BY <2>1, <2>2
<1> QED
  BY <1>4, <1>5, <1>6, <1>7, <1>8 DEF Whole

(* recordReverseRefreshFailure(): the task goes on waiting. *)
LEMMA WholeBlame ==
    ASSUME Inv, Kept, Whole, UNCHANGED runs, scanned' \subseteq scanned, NEW p \in Pods, NEW b \in BOOLEAN, Blamable(p, b),
           b => pod[p].pc \notin Busy, task' = [task EXCEPT ![p[1]] = Blamed(p)],
           pod' = pod \/ (Launched(p) /\ pod[p].pc = "absent" /\ pod' = [pod EXCEPT ![p] = Queued])
    PROVE  Whole'
<1> DEFINE t == p[1]
           row == task[t]
           new == Blamed(p)
<1>1. t \in Tasks /\ Scheduled(t) /\ Exists(t) /\ row.status = "PENDING" /\ p[2] \in Int /\ p # None
  BY PodFacts DEF Blamable, Scheduled
<1>2. row \in TaskRows /\ row.sched \in Schedules /\ row.sched # None /\ PlainRow(row) /\ RowOK(t, row)
  BY <1>1, ExistingRow DEF Inv, TypeInv, RowInv, Scheduled, Whole, PlainInv
<1>3. /\ new \in TaskRows /\ new.active = FALSE /\ new.worker = p /\ new.previous = None
      /\ new.status = IF row.active /\ row.previous # None THEN row.previous
                      ELSE IF row.sched.previous # None THEN row.sched.previous ELSE row.status
      /\ new.sched \in Schedules /\ new.sched.run = row.sched.run /\ new.sched.previous = None
      /\ new.sched.attempt = row.sched.attempt + 1 /\ (row.sched.suspended => new.sched.suspended)
  BY <1>2, BlamedRow
<1> HIDE DEF new
<1>4. ~row.active
  <2>1. row.active => row.worker = p /\ pod[p].pc \notin Busy
    BY DEF Blamable
  <2>2. row.active => pod[row.worker].pc \in Busy
    BY <1>1 DEF Whole, WorkedInv, Active
  <2> QED
    BY <2>1, <2>2
<1>5. p[2] = row.sched.attempt /\ row.sched.attempt \in Nat
  BY <1>2, <1>4, SchedFields DEF Blamable
<1>6. new.status = "PENDING" /\ new.sched # None
  BY <1>1, <1>2, <1>3, <1>4, SchedFields DEF PlainRow
<1>7. PlainRow(new) /\ RowOK(t, new) /\ Onward(t, new) /\ Stays(t, new)
  <2>1. p[2] < new.sched.attempt /\ row.sched.attempt <= new.sched.attempt
    BY <1>3, <1>5
  <2> QED
    BY <1>1, <1>3, <1>4, <1>6, <2>1 DEF PlainRow, RowOK, Onward, Stays
<1>8. ~Active(t) /\ task' = [task EXCEPT ![t] = new]
  BY <1>4 DEF Active, new
<1> HIDE DEF t
<1>9. /\ Scheduled(t) => new.sched # None /\ new.sched.run = task[t].sched.run /\ new.status = task[t].status
      /\ new.active => new.worker = task[t].worker /\ new.status = task[t].status
      /\ new.sched # None /\ new.status = "FAILED" /\ Open(new.sched.run) => new.sched.left = 0
      /\ ~Scheduled(t) => new.sched = None
      /\ Active(t) <=> new.active
  BY <1>1, <1>3, <1>6, <1>8
<1> HIDE DEF row
<1> QED
  BY <1>1, <1>3, <1>7, <1>8, <1>9, WholeNote

(* A check is launched, or its launch fails. *)
LEMMA WholeLaunch ==
    ASSUME Inv, Kept, Whole, NEW p \in Pods, LaunchCheck(p)
    PROVE  Whole'
<1>1. /\ UNCHANGED runs /\ scanned' \subseteq scanned /\ Launched(p)
      /\ pod' = pod \/ (Launched(p) /\ pod[p].pc = "absent" /\ pod' = [pod EXCEPT ![p] = Queued])
  BY DEF LaunchCheck, Queued, Launched
<1>2. CASE UNCHANGED task
  <2>1. \A q \in scanned' : q \in scanned
    BY <1>1
  <2> QED
    BY <1>1, <1>2, <2>1, WholeQuiet
<1>3. CASE ~UNCHANGED task
  <2>1. Blamable(p, FALSE) /\ task' = [task EXCEPT ![p[1]] = Blamed(p)]
    BY <1>3 DEF LaunchCheck
  <2> QED
    BY <1>1, <2>1, WholeBlame
<1> QED
  BY <1>2, <1>3

(* failReverseWorker() *)
LEMMA WholeFail ==
    ASSUME Inv, Kept, Whole, NEW p \in Pods, FailWorker(p)
    PROVE  Whole'
<1> DEFINE t == p[1]
<1>1. t \in Tasks /\ UNCHANGED <<runs, pod, scanned>> /\ pod[p].pc \notin Busy /\ scanned' \subseteq scanned /\ p # None
  BY PodFacts DEF FailWorker, Busy
<1>2. CASE UNCHANGED task
  <2>1. \A q \in scanned' : q \in scanned
    BY <1>1
  <2> QED
    BY <1>1, <1>2, <2>1, WholeQuiet
<1>3. CASE Blamable(p, TRUE) /\ task' = [task EXCEPT ![t] = Blamed(p)]
  BY <1>1, <1>3, WholeBlame
<1>4. CASE ~Exists(t) /\ task' = [task EXCEPT ![t] = ControllerRow("FAILED")]
  <2> DEFINE new == ControllerRow("FAILED")
  <2>1. /\ new \in TaskRows /\ new.status = "FAILED" /\ new.active = FALSE /\ new.sched = None /\ new.worker = None
        /\ new.previous = None
    BY ControllerRowFacts
  <2> HIDE DEF new
  <2>2. RowOK(t, new) /\ PlainRow(new) /\ Onward(t, new) /\ Stays(t, new) /\ ~Scheduled(t) /\ ~Active(t)
    BY <1>4, <2>1 DEF RowOK, PlainRow, Onward, Stays, Scheduled, Active
  <2>3. task' = [task EXCEPT ![t] = new]
    BY <1>4 DEF new
  <2> HIDE DEF t
  <2>4. /\ new.active => new.worker = task[t].worker /\ new.status = task[t].status
        /\ Active(t) <=> new.active
        /\ new.sched # None /\ new.status = "FAILED" /\ Open(new.sched.run) => new.sched.left = 0
    BY <2>1, <2>2
  <2> QED
    BY <1>1, <2>1, <2>2, <2>3, <2>4, WholeNote
<1>5. ASSUME Exists(t), task[t].status = "RUNNING", task[t].worker \in {p, None} PROVE FALSE
  <2>1. task[t].active /\ RowOK(t, task[t])
    BY <1>1, <1>5 DEF Whole, PlainInv, PlainRow, Inv, RowInv
  <2>2. task[t].worker \in Pods /\ pod[task[t].worker].pc \in Busy
    BY <1>1, <1>5, <2>1 DEF RowOK, Whole, WorkedInv, Active
  <2> QED
    BY <1>1, <1>5, <2>2, PodFacts
<1>6. \/ UNCHANGED task
      \/ Blamable(p, TRUE) /\ task' = [task EXCEPT ![t] = Blamed(p)]
      \/ ~Exists(t) /\ task' = [task EXCEPT ![t] = ControllerRow("FAILED")]
  <2>1. [task EXCEPT ![t] = task[t]] = task
    BY DEF Inv, TypeInv, TaskType
  <2> QED
    BY <1>5, <2>1 DEF FailWorker
<1> QED
  BY <1>2, <1>3, <1>4, <1>6

(* No worker is silent. *)
LEMMA WholeClose ==
    ASSUME Inv, Kept, Whole, NEW t \in Tasks, CloseStale(t)
    PROVE  Whole'
<1>1. Active(t) /\ (pod[task[t].worker].stalled \/ pod[task[t].worker].pc \in {"absent", "dead"})
  BY DEF CloseStale
<1>2. RowOK(t, task[t]) /\ pod[task[t].worker].pc \in Busy
  BY <1>1 DEF Inv, RowInv, Active, Whole, WorkedInv
<1>3. task[t].worker \in Pods
  BY <1>1, <1>2 DEF RowOK, Active
<1> QED
  BY <1>1, <1>2, <1>3 DEF Kept, HolderInv, Holder, Busy

(* The time of a check comes. *)
LEMMA WholeTick ==
    ASSUME Inv, Kept, Whole, NEW t \in Tasks, Tick(t)
    PROVE  Whole'
<1> DEFINE row == task[t]
           s == task[t].sched
           z == [s EXCEPT !.due = TRUE]
           new == [task[t] EXCEPT !.sched = z]
<1>1. /\ Scheduled(t) /\ Exists(t) /\ UNCHANGED <<runs, pod, scanned>>
      /\ task' = [task EXCEPT ![t] = new]
  BY DEF Tick, Scheduled
<1>2. row \in TaskRows /\ s \in Schedules /\ RowOK(t, row) /\ PlainRow(row)
  BY <1>1, ExistingRow DEF Inv, TypeInv, RowInv, Whole, PlainInv
<1>3. /\ z \in Schedules /\ z.run = s.run /\ z.previous = s.previous /\ z.attempt = s.attempt /\ z.left = s.left
      /\ z.suspended = s.suspended
  BY <1>2 DEF Schedules
<1> HIDE DEF z
<1>4. /\ new \in TaskRows /\ new.status = row.status /\ new.sched = z /\ new.active = row.active
      /\ new.worker = row.worker /\ new.previous = row.previous
  BY <1>2, <1>3 DEF TaskRows
<1> HIDE DEF new
<1>5. z # None /\ s # None /\ s.attempt \in Nat
  BY <1>2, <1>3, SchedFields
<1>6. RowOK(t, new) /\ PlainRow(new)
  BY <1>2, <1>3, <1>4, <1>5 DEF RowOK, PlainRow
<1>7. Onward(t, new) /\ Stays(t, new)
  BY <1>1, <1>3, <1>4, <1>5 DEF Onward, Stays
<1>8. /\ Scheduled(t) => new.sched # None /\ new.sched.run = task[t].sched.run /\ new.status = task[t].status
      /\ ~Scheduled(t) => new.sched = None
      /\ Active(t) <=> new.active
      /\ new.active => new.worker = task[t].worker /\ new.status = task[t].status
      /\ new.sched # None /\ new.status = "FAILED" /\ Open(new.sched.run) => new.sched.left = 0
  BY <1>1, <1>3, <1>4, <1>5 DEF Active, Whole, SpentInv
<1>9. task' = [task EXCEPT ![t] = new] /\ UNCHANGED runs /\ scanned' \subseteq scanned /\ pod' = pod
  BY <1>1
<1>10. PICK p \in Pods : TRUE
  <2>1. <<t, -1>> \in Pods
    BY ConstantsAssumption DEF Pods
  <2> QED
    BY <2>1
<1> HIDE DEF row, s
<1> QED
  BY <1>4, <1>6, <1>7, <1>8, <1>9, <1>10, WholeNote

(* A Pod signs off. *)
LEMMA WholeEnd ==
    ASSUME Inv, Kept, Whole, NEW p \in Pods, pod[p].pc \in Busy, UNCHANGED <<runs, scanned>>, pod' = [pod EXCEPT ![p] = Dead],
           NEW new \in TaskRows, task' = [task EXCEPT ![p[1]] = new], new.active = FALSE,
           RowOK(p[1], new), Alone(p[1], new), PlainRow(new), Onward(p[1], new), Stays(p[1], new),
           new.sched # None => new.sched.run = pod[p].run,
           new.sched # None /\ new.status = "FAILED" /\ Open(pod[p].run) => new.sched.left = 0,
           new.status = "PENDING" => Open(pod[p].run),
           Open(pod[p].run) /\ new.sched = None => pod[p].run \in Attached
    PROVE  Whole'
<1> DEFINE t == p[1]
<1>1. /\ t \in Tasks /\ Owns(p) /\ BusyPod(p) /\ pod[p].run \in DOMAIN runs /\ task' = [task EXCEPT ![t] = new]
      /\ RowOK(t, new) /\ Alone(t, new) /\ Onward(t, new) /\ Stays(t, new)
  BY Worker, PodFacts DEF Inv, RunInv
<1>2. Scheduled(t) => task[t].sched.run = pod[p].run
  BY <1>1 DEF Inv, RunInv
<1>3. pod'[p] = Dead /\ \A q \in Pods \ {p} : pod'[q] = pod[q]
  BY NewPods, PodUpdate DEF Inv, TypeInv
<1>4. \A q \in Pods \ {p} : pod[q].pc \notin Busy
  BY OthersIdle DEF Kept
<1>5. \A q \in Pods : pod'[q].pc \notin Busy
  BY <1>3, <1>4, NewPods DEF Busy
<1>6. /\ \A q \in Pods : Launched(q)' => Launched(q)
      /\ \A q \in Pods : pod'[q].stop => pod[q].stop /\ pod'[q].pc # "absent"
      /\ \A r \in DOMAIN runs : Open(r)' => Open(r)
  <2>1. Launched(p) /\ ~Dead.stop
    BY NewPods DEF Launched, Busy
  <2> QED
    BY <1>3, <2>1 DEF Launched, Whole, ObsoleteInv, Open
<1> HIDE DEF t
<1>7. /\ task'[t] = new /\ new # None /\ \A u \in Tasks \ {t} : task'[u] = task[u]
      /\ Exists(t)' /\ (Scheduled(t)' <=> new.sched # None) /\ (Active(t)' <=> new.active)
      /\ \A u \in Tasks \ {t} : (Exists(u)' <=> Exists(u)) /\ (Scheduled(u)' <=> Scheduled(u)) /\ (Active(u)' <=> Active(u))
  BY <1>1, RowWritten
<1>8. SoleInv' /\ PlainInv' /\ SpentInv' /\ LaunchedInv' /\ ObsoleteInv'
  <2>1. /\ new.sched # None => new.sched.run \in DOMAIN runs
        /\ new.sched # None /\ new.status = "FAILED" /\ Open(new.sched.run) => new.sched.left = 0
    BY <1>1
  <2> QED
    BY <1>1, <1>6, <2>1, WholeRow
<1>9. WorkedInv'
  <2> SUFFICES ASSUME NEW u \in Tasks, Active(u)' PROVE FALSE
    BY DEF WorkedInv
  <2>1. u # t /\ Active(u)
    BY <1>7
  <2>2. pod[task[u].worker].pc \in Busy /\ RowOK(u, task[u])
    BY <2>1 DEF Whole, WorkedInv, Inv, RowInv, Active
  <2>3. task[u].worker \in Pods /\ task[u].worker[1] = u
    BY <2>1, <2>2 DEF RowOK, Active
  <2>4. task[u].worker = p
    BY <1>4, <2>2, <2>3
  <2> QED
    BY <2>1, <2>3, <2>4 DEF t
<1>10. BusyInv'
  BY <1>5 DEF BusyInv
<1>11. RunsStayReachable'
  <2> SUFFICES ASSUME NEW r \in DOMAIN runs, Open(r)
               PROVE  \/ r \in Attached
                      \/ \E u \in Tasks : Scheduled(u)' /\ task'[u].sched.run = r /\ (task'[u].status = "PENDING" \/ Refreshable(u)')
    BY DEF RunsStayReachable, Open, Attached
  <2>1. \/ r \in Attached
        \/ \E u \in Tasks : Scheduled(u) /\ task[u].sched.run = r /\ (task[u].status = "PENDING" \/ Refreshable(u))
        \/ \E q \in Pods : Live(q) /\ pod[q].run = r /\ Owns(q)
    BY DEF Whole, RunsStayReachable
  <2>2. ASSUME r = pod[p].run, r \notin Attached
        PROVE  Scheduled(t)' /\ task'[t].sched.run = r /\ (task'[t].status = "PENDING" \/ Refreshable(t)')
    <3>1. new.sched # None /\ new.sched.run = r /\ new.status \in {"PENDING", "FAILED"}
      BY <2>2 DEF PlainRow
    <3>2. new.status = "FAILED" => Refreshable(t)'
      BY <1>7, <3>1 DEF Refreshable, Open, Checkable
    <3> QED
      BY <1>7, <3>1, <3>2
  <2>3. ASSUME NEW u \in Tasks, u # t, Scheduled(u), task[u].sched.run = r, task[u].status = "PENDING" \/ Refreshable(u)
        PROVE  Scheduled(u)' /\ task'[u].sched.run = r /\ (task'[u].status = "PENDING" \/ Refreshable(u)')
    BY <1>7, <2>3 DEF Refreshable, Open
  <2>4. ASSUME NEW q \in Pods, pod[q].run = r, Owns(q) PROVE r = pod[p].run
    <3>1. pod[q].pc \in Busy
      BY <2>4, PodFacts DEF Whole, WorkedInv, Owns
    <3> QED
      BY <1>4, <2>4, <3>1
  <2> QED
    BY <1>1, <1>2, <2>1, <2>2, <2>3, <2>4
<1>12. NoWaitForEnded'
  <2> SUFFICES ASSUME NEW u \in Tasks, Exists(u)', task'[u].status = "PENDING", ~task'[u].active
               PROVE  Open(task'[u].sched.run)
    BY DEF NoWaitForEnded, Open
  <2>1. CASE u = t
    BY <1>1, <1>7, <2>1 DEF RowOK
  <2>2. CASE u # t
    BY <1>7, <2>2 DEF Whole, NoWaitForEnded
  <2> QED
    BY <2>1, <2>2
<1> QED
  BY <1>8, <1>9, <1>10, <1>11, <1>12 DEF Whole

(* Tasks.finish(), after the run has ended, or of an attempt that failed. *)
LEMMA WholeFinish ==
    ASSUME Inv, Kept, Whole, NEW p \in Pods, pod[p].pc \in Busy, UNCHANGED runs, NEW status \in {"COMPLETE", "FAILED"},
           SignOff(p, MayFinish(p), Finished(p, status), TRUE),
           ~Open(pod[p].run) \/ (p[2] = -1 /\ pod[p].run \in Attached)
    PROVE  Whole'
<1> DEFINE t == p[1]
           new == Finished(p, status)
<1>1. /\ MayFinish(p) /\ Owns(p) /\ p[2] \in Int /\ p[2] >= -1
      /\ p[2] >= 0 => task[p[1]].status = "PENDING"
      /\ p[2] = -1 => task[p[1]].status = "RUNNING"
  BY Worker, PodFacts
<1>2. task' = [task EXCEPT ![p[1]] = new] /\ pod' = [pod EXCEPT ![p] = Dead] /\ UNCHANGED scanned
  BY <1>1 DEF SignOff, Die, Dead
<1>3. /\ t \in Tasks /\ Exists(t) /\ task[t] \in TaskRows /\ RowOK(t, task[t]) /\ PlainRow(task[t])
      /\ Scheduled(t) => task[t].sched.run = pod[p].run /\ task[t].sched \in Schedules
  BY <1>1, OwnRow, ExistingRow DEF Inv, RunInv, TypeInv, RowInv, Whole, PlainInv
<1>4. /\ new \in TaskRows /\ new.status = status /\ new.active = FALSE /\ new.previous = None
      /\ new.sched = IF status = "FAILED" THEN task[t].sched ELSE None
  <2>1. status \in Statuses
    BY DEF Statuses, Terminal
  <2> QED
    BY <1>3, <2>1, FinishedRow
<1> HIDE DEF new
<1>5. /\ Scheduled(t) => task[t].status = "PENDING" /\ p[2] >= 0 /\ task[t].sched.attempt \in Nat
      /\ new.sched # None => Scheduled(t)
  BY <1>1, <1>3, <1>4, SchedFields DEF RowOK, Scheduled
<1>6. RowOK(t, new) /\ PlainRow(new) /\ Onward(t, new) /\ Stays(t, new)
  BY <1>3, <1>4, <1>5 DEF RowOK, PlainRow, Onward, Stays
<1>7. Alone(t, new)
  <2>1. CASE new.sched = None
    BY <2>1 DEF Alone
  <2>2. CASE new.sched # None
    BY <1>3, <1>4, <1>5, <2>2, AloneSame DEF Whole
  <2> QED
    BY <2>1, <2>2
<1>8. /\ new.sched # None => new.sched.run = pod[p].run
      /\ new.sched # None /\ new.status = "FAILED" /\ Open(pod[p].run) => new.sched.left = 0
      /\ new.status = "PENDING" => Open(pod[p].run)
      /\ Open(pod[p].run) /\ new.sched = None => pod[p].run \in Attached
  BY <1>3, <1>4, <1>5
<1> QED
  BY <1>2, <1>4, <1>6, <1>7, <1>8, WholeEnd

(* Tasks.refreshFailed() *)
LEMMA WholeRefreshFailed ==
    ASSUME Inv, Kept, Whole, NEW p \in Pods, pod[p].pc \in Busy, pod[p].pc # "delivered", UNCHANGED runs, p[2] >= 0,
           NEW stopChecks \in BOOLEAN, SignOff(p, MayRefreshFail(p), RefreshFailed(p, stopChecks), FALSE)
    PROVE  Whole'
<1> DEFINE t == p[1]
           row == task[t]
           new == RefreshFailed(p, stopChecks)
<1>1. MayFinish(p) /\ Owns(p) /\ row.status = "PENDING" /\ row.sched.attempt = p[2] /\ Open(pod[p].run) /\ p[2] \in Int
  BY Worker, PodFacts DEF BusyPod
<1>2. task' = [task EXCEPT ![p[1]] = new] /\ pod' = [pod EXCEPT ![p] = Dead] /\ UNCHANGED scanned
  BY <1>1 DEF SignOff, Die, Dead, MayRefreshFail
<1>3. /\ t \in Tasks /\ Exists(t) /\ row \in TaskRows /\ PlainRow(row) /\ row.active /\ row.worker = p
      /\ Scheduled(t) /\ row.sched.run = pod[p].run /\ row.sched \in Schedules /\ pod[p].run \in Nat /\ row.sched # None
  BY <1>1, OwnRow DEF Inv, RunInv, TypeInv, RunType, Whole, PlainInv, Scheduled
<1>4. /\ new \in TaskRows /\ new.worker = p /\ new.active = FALSE /\ new.previous = None
      /\ new.status = IF row.previous = None THEN row.status ELSE row.previous
      /\ new.sched \in Schedules /\ new.sched.run = row.sched.run /\ new.sched.previous = None
      /\ row.sched.left = 0 => new.sched.suspended /\ new.sched.attempt = row.sched.attempt
      /\ row.sched.left # 0 => new.sched.attempt = row.sched.attempt + 1
  BY <1>3, RefreshFailedRow
<1> HIDE DEF new
<1>5. new.status = "PENDING" /\ new.sched # None /\ row.sched.attempt \in Nat
  BY <1>1, <1>3, <1>4, SchedFields DEF PlainRow
<1>6. row.sched.attempt <= new.sched.attempt /\ (p[2] < new.sched.attempt \/ new.sched.suspended)
  BY <1>1, <1>4, <1>5
<1>7. RowOK(t, new) /\ PlainRow(new) /\ Onward(t, new) /\ Stays(t, new)
  BY <1>1, <1>3, <1>4, <1>5, <1>6 DEF RowOK, PlainRow, Onward, Stays
<1>8. Alone(t, new)
  BY <1>1, <1>3, <1>4, AloneSame DEF Whole
<1>9. /\ new.sched # None => new.sched.run = pod[p].run
      /\ new.sched # None /\ new.status = "FAILED" /\ Open(pod[p].run) => new.sched.left = 0
      /\ new.status = "PENDING" => Open(pod[p].run)
      /\ Open(pod[p].run) /\ new.sched = None => pod[p].run \in Attached
  BY <1>1, <1>3, <1>4, <1>5
<1> QED
  BY <1>2, <1>4, <1>7, <1>8, <1>9, WholeEnd

(* Tasks.wait() *)
LEMMA WholeWait ==
    ASSUME Inv, Kept, Whole, NEW p \in Pods, pod[p].pc \in Busy, pod[p].pc # "delivered", UNCHANGED runs, Wait(p)
    PROVE  Whole'
<1> DEFINE t == p[1]
           row == task[t]
           r == pod[p].run
           new == Waiting(p)
<1>1. /\ MayFinish(p) /\ Owns(p) /\ BusyPod(p) /\ Open(r) /\ p[2] \in Int /\ p[2] >= -1
      /\ p[2] >= 0 => row.status = "PENDING" /\ row.sched.attempt = p[2]
      /\ p[2] = -1 => row.status = "RUNNING"
  BY Worker, PodFacts DEF BusyPod
<1>2. task' = [task EXCEPT ![p[1]] = new] /\ pod' = [pod EXCEPT ![p] = Dead] /\ UNCHANGED scanned
  BY <1>1 DEF Wait, SignOff, Die, Dead
<1>3. /\ t \in Tasks /\ Exists(t) /\ row \in TaskRows /\ row.active /\ row.worker = p
      /\ row.status = "PENDING" => Scheduled(t) /\ row.sched \in Schedules
      /\ Scheduled(t) => row.sched.run = r
      /\ r \in Nat /\ TaskType
  BY <1>1, OwnRow DEF Inv, RunInv, TypeInv, RunType
<1>4. /\ new \in TaskRows /\ new.worker = p /\ new.active = FALSE /\ new.previous = None /\ new.status \in {"FAILED", "PENDING"}
      /\ new.sched \in Schedules /\ new.sched.run = r /\ new.sched.previous = None
      /\ new.status = "FAILED" =>
           /\ WithRun(r) # {} /\ new.sched.left = 0 /\ new.sched.attempt = task[Latest(r)].sched.attempt
      /\ new.status = "PENDING" =>
           /\ WithRun(r) # {} =>
                task[Latest(r)].sched.left # 0 /\ new.sched.attempt = task[Latest(r)].sched.attempt + 1
  BY <1>3, WaitingRow
<1> HIDE DEF new
<1>5. new.sched # None /\ new.sched.attempt \in Nat
  BY <1>4, SchedFields
<1>6. WithRun(r) # {} => Latest(r) \in WithRun(r)
  BY <1>3, LatestFacts
<1>7. /\ RowOK(t, new) /\ PlainRow(new) /\ Onward(t, new) /\ Stays(t, new) /\ Alone(t, new)
  <2>1. CASE p[2] >= 0
    <3>1. row.status = "PENDING" /\ row.sched.attempt = p[2] /\ Scheduled(t) /\ row.sched.run = r /\ row.sched.attempt \in Nat
      BY <1>1, <1>3, <2>1, SchedFields
    <3>2. t \in WithRun(r) /\ Latest(r) = t
      <4>1. t \in WithRun(r)
        BY <1>3, <3>1 DEF WithRun
      <4>2. Latest(r) \in Tasks /\ Scheduled(Latest(r)) /\ task[Latest(r)].sched.run = r
        BY <1>6, <4>1 DEF WithRun
      <4> QED
        BY <1>3, <3>1, <4>1, <4>2 DEF Whole, SoleInv
    <3>3. row.sched.attempt <= new.sched.attempt /\ (new.status = "PENDING" => p[2] < new.sched.attempt)
      BY <1>4, <3>1, <3>2
    <3>4. RowOK(t, new) /\ PlainRow(new) /\ Onward(t, new) /\ Stays(t, new)
      BY <1>1, <1>3, <1>4, <1>5, <3>1, <3>3 DEF RowOK, PlainRow, Onward, Stays
    <3>5. Alone(t, new)
      BY <1>3, <1>4, <3>1, AloneSame DEF Whole
    <3> QED
      BY <3>4, <3>5
  <2>2. CASE p[2] = -1
    <3>1. row.status = "RUNNING" /\ \A u \in Tasks : Scheduled(u) /\ task[u].sched.run = r => task[u].status # "PENDING"
      BY <1>1, <2>2 DEF BusyPod
    <3>2. new.status = "PENDING" => WithRun(r) = {}
      <4> SUFFICES ASSUME new.status = "PENDING", WithRun(r) # {} PROVE FALSE
        OBVIOUS
      <4> DEFINE u == Latest(r)
      <4>1. u \in Tasks /\ Scheduled(u) /\ Exists(u) /\ task[u].sched.run = r /\ task[u].sched.left # 0
        BY <1>4, <1>6 DEF WithRun, Scheduled
      <4>2. task[u].status = "FAILED"
        BY <3>1, <4>1 DEF Whole, PlainInv, PlainRow, Scheduled
      <4> QED
        BY <1>1, <4>1, <4>2 DEF Whole, SpentInv
    <3>3. Alone(t, new)
      BY <1>4, <3>1, <3>2 DEF Alone, WithRun
    <3>4. -1 < new.sched.attempt
      BY <1>5
    <3>5. RowOK(t, new) /\ PlainRow(new) /\ Onward(t, new) /\ Stays(t, new)
      BY <1>4, <1>5, <2>2, <3>1, <3>4 DEF RowOK, PlainRow, Onward, Stays
    <3> QED
      BY <3>3, <3>5
  <2> QED
    BY <1>1, <2>1, <2>2
<1>8. /\ new.sched # None => new.sched.run = pod[p].run
      /\ new.sched # None /\ new.status = "FAILED" /\ Open(pod[p].run) => new.sched.left = 0
      /\ new.status = "PENDING" => Open(pod[p].run)
      /\ Open(pod[p].run) /\ new.sched = None => pod[p].run \in Attached
  BY <1>1, <1>4, <1>5
<1> QED
  BY <1>2, <1>4, <1>7, <1>8, WholeEnd

(* The ends of Pods: none of them is told to stop or hears a last word. *)
LEMMA WholeEnds ==
    ASSUME Inv, Kept, Whole, Uninterrupted, NEW p \in Pods, EndDelivered(p) \/ EndPending(p) \/ EndFailed(p)
    PROVE  Whole'
<1>1. UNCHANGED runs /\ pod[p].pc \in Busy
  BY DEF EndDelivered, EndPending, EndFailed, Busy
<1>2. BusyPod(p) /\ ~pod[p].stop /\ "verdict" \notin Faults /\ "database" \notin Faults
  BY <1>1, Worker DEF BusyPod, Uninterrupted
<1>3. CASE EndDelivered(p)
  <2>1. ~Open(pod[p].run)
    BY <1>3 DEF EndDelivered, Kept, HolderInv, Holder
  <2>2. PICK status \in {"COMPLETE", "FAILED"} : SignOff(p, MayFinish(p), Finished(p, status), TRUE)
    BY <1>2, <1>3 DEF EndDelivered
  <2> QED
    BY <1>1, <2>1, <2>2, WholeFinish
<1>4. CASE EndPending(p)
  <2>1. pod[p].pc # "delivered" /\ Wait(p)
    BY <1>4 DEF EndPending
  <2> QED
    BY <1>1, <2>1, WholeWait
<1>5. CASE EndFailed(p)
  <2>1. pod[p].pc = "working" /\ StopStatus(p) = "FAILED"
    BY <1>2, <1>5 DEF EndFailed, StopStatus
  <2>2. \/ p[2] >= 0 /\ \E stopChecks \in BOOLEAN : SignOff(p, MayRefreshFail(p), RefreshFailed(p, stopChecks), FALSE)
        \/ Wait(p)
        \/ ~(p[2] >= 0) /\ SignOff(p, MayFinish(p), Finished(p, "FAILED"), TRUE)
    BY <1>2, <1>5, <2>1 DEF EndFailed
  <2>3. CASE p[2] >= 0 /\ \E stopChecks \in BOOLEAN : SignOff(p, MayRefreshFail(p), RefreshFailed(p, stopChecks), FALSE)
    <3>1. PICK stopChecks \in BOOLEAN : SignOff(p, MayRefreshFail(p), RefreshFailed(p, stopChecks), FALSE)
      BY <2>3
    <3> QED
      BY <1>1, <2>1, <2>3, <3>1, WholeRefreshFailed
  <2>4. CASE Wait(p)
    BY <1>1, <2>1, <2>4, WholeWait
  <2>5. CASE ~(p[2] >= 0) /\ SignOff(p, MayFinish(p), Finished(p, "FAILED"), TRUE)
    <3>1. p[2] = -1
      BY <2>5, PodFacts
    <3>2. pod[p].run \in Attached
      BY <1>2, <2>1, <3>1 DEF BusyPod
    <3> QED
      BY <1>1, <2>5, <3>1, <3>2, WholeFinish
  <2> QED
    BY <2>2, <2>3, <2>4, <2>5
<1> QED
  BY <1>3, <1>4, <1>5

(* A Pod finds its task and its run. *)
LEMMA WholeStart ==
    ASSUME Inv, Kept, Whole, NEW p \in Pods, pod[p].pc = "leased", UNCHANGED scanned,
           NEW rec \in PodRows, pod' = [pod EXCEPT ![p] = rec], rec.pc = "working", ~rec.stop,
           NEW new \in TaskRows, task' = [task EXCEPT ![p[1]] = new], new.active = TRUE, new.worker = p,
           new.status \in {"RUNNING", "PENDING"},
           RowOK(p[1], new), Alone(p[1], new), PlainRow(new), Onward(p[1], new), Stays(p[1], new),
           new.sched # None => new.sched.run \in DOMAIN runs,
           Scheduled(p[1]) => new.sched # None /\ new.sched.run = task[p[1]].sched.run /\ new.status = "PENDING",
           DOMAIN runs \subseteq DOMAIN runs', \A k \in DOMAIN runs : runs'[k] = runs[k],
           \A k \in DOMAIN runs' \ DOMAIN runs : k \in Attached',
           rec.run \in DOMAIN runs', ~runs'[rec.run].ended,
           p[2] = -1 => /\ rec.run \in Attached' /\ new.sched = None
                        /\ \A u \in Tasks : Scheduled(u) /\ task[u].sched.run = rec.run => task[u].status # "PENDING"
    PROVE  Whole'
<1> DEFINE t == p[1]
<1>1. /\ t \in Tasks /\ task' = [task EXCEPT ![t] = new]
      /\ RowOK(t, new) /\ Alone(t, new) /\ Onward(t, new) /\ Stays(t, new)
  BY PodFacts
<1>2. pod'[p] = rec /\ \A q \in Pods \ {p} : pod'[q] = pod[q]
  BY PodUpdate DEF Inv, TypeInv
<1>3. \A q \in Pods : pod[q].pc \notin Busy
  BY OthersIdle DEF Kept, Busy
<1>4. \A u \in Tasks : ~Active(u)
  <2> SUFFICES ASSUME NEW u \in Tasks, Active(u) PROVE FALSE
    OBVIOUS
  <2>1. pod[task[u].worker].pc \in Busy /\ RowOK(u, task[u])
    BY DEF Whole, WorkedInv, Inv, RowInv, Active
  <2>2. task[u].worker \in Pods
    BY <2>1 DEF RowOK, Active
  <2> QED
    BY <1>3, <2>1, <2>2
<1>5. /\ \A q \in Pods : Launched(q)' => Launched(q)
      /\ \A q \in Pods : pod'[q].stop => pod[q].stop /\ pod'[q].pc # "absent"
      /\ \A k \in DOMAIN runs : (Open(k)' <=> Open(k)) /\ (k \in Attached' <=> k \in Attached)
  <2>1. Launched(p)
    BY DEF Launched
  <2> QED
    BY <1>2, <2>1 DEF Launched, Whole, ObsoleteInv, Open, Attached
<1> HIDE DEF t
<1>6. /\ task'[t] = new /\ new # None /\ \A u \in Tasks \ {t} : task'[u] = task[u]
      /\ Exists(t)' /\ (Scheduled(t)' <=> new.sched # None) /\ (Active(t)' <=> new.active)
      /\ \A u \in Tasks \ {t} : (Exists(u)' <=> Exists(u)) /\ (Scheduled(u)' <=> Scheduled(u)) /\ (Active(u)' <=> Active(u))
  BY <1>1, RowWritten
<1>7. SoleInv' /\ PlainInv' /\ SpentInv' /\ LaunchedInv' /\ ObsoleteInv'
  <2>1. new.status # "FAILED"
    OBVIOUS
  <2> QED
    BY <1>1, <1>5, <2>1, WholeRow
<1>8. WorkedInv'
  <2> SUFFICES ASSUME NEW u \in Tasks, Active(u)' PROVE task'[u].status \notin Terminal /\ pod'[task'[u].worker].pc \in Busy
    BY DEF WorkedInv
  <2>1. u = t
    BY <1>4, <1>6
  <2> QED
    BY <1>2, <1>6, <2>1 DEF Terminal, Busy
<1>9. BusyInv'
  <2> SUFFICES ASSUME NEW q \in Pods, pod'[q].pc \in Busy PROVE BusyPod(q)'
    BY DEF BusyInv
  <2>1. q = p
    BY <1>2, <1>3
  <2>2. rec.run \in DOMAIN runs' /\ ~runs'[rec.run].ended /\ pod'[p].run = rec.run /\ ~pod'[p].stop
    BY <1>2
  <2>3. Open(pod[p].run)'
    BY <2>2 DEF Open
  <2>4. ASSUME p[2] = -1 PROVE pod'[p].run \in Attached'
    BY <2>2, <2>4
  <2>5. ASSUME p[2] = -1, NEW u \in Tasks, Scheduled(u)', task'[u].sched.run = pod'[p].run PROVE task'[u].status # "PENDING"
    <3>1. u # t
      BY <1>6, <2>5
    <3> QED
      BY <1>6, <2>2, <2>5, <3>1
  <2> QED
    BY <2>1, <2>2, <2>3, <2>4, <2>5 DEF BusyPod
<1>10. RunsStayReachable'
  <2> SUFFICES ASSUME NEW k \in DOMAIN runs', Open(k)'
               PROVE  \/ k \in Attached'
                      \/ \E u \in Tasks : Scheduled(u)' /\ task'[u].sched.run = k /\ (task'[u].status = "PENDING" \/ Refreshable(u)')
    BY DEF RunsStayReachable
  <2>1. CASE k \notin DOMAIN runs
    BY <2>1
  <2>2. CASE k \in DOMAIN runs
    <3>1. Open(k)
      BY <1>5, <2>2
    <3>2. \/ k \in Attached
          \/ \E u \in Tasks : Scheduled(u) /\ task[u].sched.run = k /\ (task[u].status = "PENDING" \/ Refreshable(u))
          \/ \E q \in Pods : Live(q) /\ pod[q].run = k /\ Owns(q)
      BY <2>2, <3>1 DEF Whole, RunsStayReachable
    <3>3. ASSUME NEW u \in Tasks, Scheduled(u), task[u].sched.run = k, task[u].status = "PENDING" \/ Refreshable(u)
          PROVE  Scheduled(u)' /\ task'[u].sched.run = k /\ (task'[u].status = "PENDING" \/ Refreshable(u)')
      <4>1. CASE u = t
        BY <1>6, <3>3, <4>1 DEF t
      <4>2. CASE u # t
        <5>1. k \in DOMAIN runs' /\ ~runs'[k].ended
          BY DEF Open
        <5> QED
          BY <1>6, <3>3, <4>2, <5>1 DEF Refreshable, Open
      <4> QED
        BY <4>1, <4>2
    <3>4. \A q \in Pods : ~Owns(q)
      BY <1>4, PodFacts DEF Owns
    <3> QED
      BY <1>5, <2>2, <3>2, <3>3, <3>4
  <2> QED
    BY <2>1, <2>2
<1>11. NoWaitForEnded'
  <2> SUFFICES ASSUME NEW u \in Tasks, Exists(u)', task'[u].status = "PENDING", ~task'[u].active
               PROVE  task'[u].sched.run \in DOMAIN runs' /\ ~runs'[task'[u].sched.run].ended
    BY DEF NoWaitForEnded, Open
  <2>1. u # t
    BY <1>6
  <2>2. Exists(u) /\ task'[u] = task[u] /\ Open(task[u].sched.run)
    BY <1>6, <2>1 DEF Whole, NoWaitForEnded
  <2> QED
    BY <2>2 DEF Open
<1> QED
  BY <1>7, <1>8, <1>9, <1>10, <1>11 DEF Whole

(* Tasks.start() of a manual or scheduled Pod *)
LEMMA WholeStartRun ==
    ASSUME Inv, Kept, Whole, NEW p \in Pods, StartRun(p)
    PROVE  Whole'
<1>0. pod[p].pc = "leased" /\ UNCHANGED scanned /\ Live(p) /\ p[2] = -1
  BY DEF StartRun
<1>1. CASE ~Startable(p[1])
  <2>1. UNCHANGED <<task, runs>> /\ Die(p) /\ \A q \in scanned' : q \in scanned
    BY <1>0, <1>1 DEF StartRun
  <2> QED
    BY <1>0, <2>1, WholeQuiet
<1>2. CASE Startable(p[1])
  <2> DEFINE t == p[1]
             new == [seq |-> NextSeq, status |-> "RUNNING", worker |-> p, active |-> TRUE, previous |-> None, sched |-> None]
  <2>1. task' = [task EXCEPT ![p[1]] = new] /\ ~Exists(p[1])
    BY <1>2 DEF StartRun, Startable
  <2>2. new \in TaskRows /\ new.status = "RUNNING" /\ new.worker = p /\ new.active = TRUE /\ new.sched = None /\ new.previous = None
    BY RunningRow
  <2> HIDE DEF new
  <2>3. /\ runs \in Seq(RunRows) /\ pod[p] \in PodRows /\ MaxRuns \in Nat /\ setting.runs \in 0 .. MaxRuns
        /\ Len(runs) <= setting.runs /\ DOMAIN runs = 1 .. Len(runs) /\ Len(runs) \in Nat
    BY ConstantsAssumption DEF Inv, TypeInv, RunType, PodType
  <2>4. \E r \in 0 .. MaxRuns :
          /\ pod' = [pod EXCEPT ![p] = [pod[p] EXCEPT !.pc = "working", !.run = r]]
          /\ DOMAIN runs \subseteq DOMAIN runs' /\ \A k \in DOMAIN runs : runs'[k] = runs[k]
          /\ \A k \in DOMAIN runs' \ DOMAIN runs : k \in Attached'
          /\ r \in Attached'
          /\ \A u \in Tasks : Scheduled(u) /\ task[u].sched.run = r => task[u].status # "PENDING"
    <3>1. CASE UNCHANGED runs /\ \E r \in Attached : pod' = [pod EXCEPT ![p].pc = "working", ![p].run = r]
      <4>1. PICK r \in Attached : pod' = [pod EXCEPT ![p] = [pod[p] EXCEPT !.pc = "working", !.run = r]]
        BY <3>1
      <4>2. r \in 0 .. MaxRuns
        BY <2>3 DEF Attached
      <4>3. \A u \in Tasks : Scheduled(u) /\ task[u].sched.run = r => task[u].status # "PENDING"
        BY <1>2 DEF Startable
      <4>4. r \in Attached'
        BY <3>1 DEF Attached
      <4> QED
        BY <3>1, <4>1, <4>2, <4>3, <4>4
    <3>2. CASE /\ Len(runs) < setting.runs
               /\ runs' = Append(runs, [ended |-> FALSE, detached |-> FALSE])
               /\ pod' = [pod EXCEPT ![p].pc = "working", ![p].run = Len(runs) + 1]
      <4> DEFINE r == Len(runs) + 1
      <4>0. r \in 0 .. MaxRuns
        BY <2>3, <3>2
      <4>1. pod' = [pod EXCEPT ![p] = [pod[p] EXCEPT !.pc = "working", !.run = r]]
        BY <3>2
      <4>2. /\ DOMAIN runs' = 1 .. r /\ \A k \in DOMAIN runs : runs'[k] = runs[k]
            /\ runs'[r] = [ended |-> FALSE, detached |-> FALSE]
        BY <2>3, <3>2
      <4>3. r \in DOMAIN runs' /\ r \notin DOMAIN runs /\ DOMAIN runs \subseteq DOMAIN runs' /\ DOMAIN runs' \ DOMAIN runs = {r}
        BY <2>3, <4>2
      <4> HIDE DEF r
      <4>4. ~runs'[r].ended /\ ~runs'[r].detached
        BY <4>2
      <4>5. r \in Attached'
        BY <4>3, <4>4 DEF Attached
      <4>6. \A u \in Tasks : Scheduled(u) /\ task[u].sched.run = r => task[u].status # "PENDING"
        BY <4>3 DEF Inv, RunInv
      <4> QED
        BY <4>0, <4>1, <4>2, <4>3, <4>5, <4>6
    <3> QED
      BY <1>2, <3>1, <3>2 DEF StartRun
  <2>5. PICK r \in 0 .. MaxRuns :
          /\ pod' = [pod EXCEPT ![p] = [pod[p] EXCEPT !.pc = "working", !.run = r]]
          /\ DOMAIN runs \subseteq DOMAIN runs' /\ \A k \in DOMAIN runs : runs'[k] = runs[k]
          /\ \A k \in DOMAIN runs' \ DOMAIN runs : k \in Attached'
          /\ r \in Attached'
          /\ \A u \in Tasks : Scheduled(u) /\ task[u].sched.run = r => task[u].status # "PENDING"
    BY <2>4
  <2> DEFINE rec == [pod[p] EXCEPT !.pc = "working", !.run = r]
  <2>6. ~pod[p].stop
    BY <2>1 DEF Whole, ObsoleteInv, Obsolete
  <2>7. rec \in PodRows /\ rec.pc = "working" /\ ~rec.stop /\ rec.run = r /\ pod' = [pod EXCEPT ![p] = rec]
    BY <2>3, <2>5, <2>6 DEF PodRows
  <2> HIDE DEF rec
  <2>8. RowOK(p[1], new) /\ Alone(p[1], new) /\ PlainRow(new) /\ Onward(p[1], new) /\ Stays(p[1], new) /\ ~Scheduled(p[1])
    BY <1>0, <2>1, <2>2 DEF RowOK, Alone, PlainRow, Onward, Stays, Scheduled
  <2>9. rec.run \in DOMAIN runs' /\ ~runs'[rec.run].ended /\ rec.run \in Attached'
    BY <2>5, <2>7 DEF Attached
  <2>10. new.status \in {"RUNNING", "PENDING"} /\ new.sched = None
    BY <2>2
  <2>11. \A u \in Tasks : Scheduled(u) /\ task[u].sched.run = rec.run => task[u].status # "PENDING"
    BY <2>5, <2>7
  <2> QED
    BY <1>0, <2>1, <2>2, <2>5, <2>7, <2>8, <2>9, <2>10, <2>11, WholeStart
<1> QED
  BY <1>1, <1>2

(* Tasks.start() of a recovery Pod: one that is told to stop is not wanted. *)
LEMMA WholeStartCheck ==
    ASSUME Inv, Kept, Whole, NEW p \in Pods, StartCheck(p)
    PROVE  Whole'
<1> DEFINE t == p[1]
           wanted == Due(t) /\ task[t].sched.attempt = p[2]
<1>0. pod[p].pc = "leased" /\ UNCHANGED <<runs, scanned>> /\ p[2] >= 0 /\ p[2] \in Int
  BY PodFacts DEF StartCheck
<1>1. CASE ~wanted
  <2>1. UNCHANGED task /\ Die(p) /\ \A q \in scanned' : q \in scanned
    BY <1>0, <1>1 DEF StartCheck
  <2> QED
    BY <1>0, <2>1, WholeQuiet
<1>2. CASE wanted
  <2> DEFINE new == [task[t] EXCEPT !.worker = p, !.active = TRUE,
                                    !.previous = IF task[t].sched.previous # None THEN task[t].sched.previous ELSE task[t].status]
             rec == [pod[p] EXCEPT !.pc = "working", !.run = task[t].sched.run]
  <2>1. /\ task' = [task EXCEPT ![p[1]] = new] /\ pod' = [pod EXCEPT ![p] = rec]
    BY <1>2 DEF StartCheck
  <2>2. /\ Scheduled(t) /\ Exists(t) /\ task[t].status = "PENDING" /\ ~task[t].active /\ ~task[t].sched.suspended
        /\ task[t].sched.attempt = p[2] /\ Open(task[t].sched.run)
    BY <1>2 DEF Due, Active, Scheduled
  <2>3. t \in Tasks /\ task[t] \in TaskRows /\ task[t].sched \in Schedules /\ PlainRow(task[t]) /\ task[t].sched # None
    BY <2>2, PodFacts, ExistingRow DEF Inv, TypeInv, Whole, PlainInv, Scheduled
  <2>4. /\ new \in TaskRows /\ new.status = "PENDING" /\ new.worker = p /\ new.active = TRUE /\ new.sched = task[t].sched
        /\ new.previous = IF task[t].sched.previous # None THEN task[t].sched.previous ELSE "PENDING"
    BY <2>2, <2>3, CheckedRow
  <2> HIDE DEF new
  <2>5. task[t].sched.run \in DOMAIN runs /\ ~runs[task[t].sched.run].ended
    BY <2>2 DEF Open
  <2>6. ~pod[p].stop
    <3> SUFFICES ASSUME pod[p].stop PROVE FALSE
      OBVIOUS
    <3>1. p[2] < task[t].sched.attempt \/ task[t].sched.suspended
      BY <1>0, <2>2 DEF Whole, ObsoleteInv, Obsolete
    <3> QED
      BY <1>0, <2>2, <3>1
  <2>7. rec \in PodRows /\ rec.pc = "working" /\ ~rec.stop /\ rec.run = task[t].sched.run
    <3>1. pod[p] \in PodRows
      BY DEF Inv, TypeInv, PodType
    <3>2. Len(runs) <= setting.runs /\ setting.runs \in 0 .. MaxRuns /\ runs \in Seq(RunRows)
      BY ConstantsAssumption DEF Inv, TypeInv, RunType
    <3>3. task[t].sched.run \in 0 .. MaxRuns
      BY <2>5, <3>2, ConstantsAssumption
    <3> QED
      BY <2>6, <3>1, <3>3 DEF PodRows
  <2> HIDE DEF rec
  <2>8. task[t].sched.previous = None /\ task[t].sched.attempt <= task[t].sched.attempt
    BY <1>0, <2>2, <2>3 DEF PlainRow
  <2>9. RowOK(p[1], new) /\ PlainRow(new) /\ Onward(p[1], new) /\ Stays(p[1], new)
    BY <1>0, <2>2, <2>3, <2>4, <2>8 DEF RowOK, PlainRow, Onward, Stays
  <2>10. Alone(p[1], new)
    BY <2>2, <2>3, <2>4, AloneSame DEF Whole
  <2>11. /\ new.sched # None => new.sched.run \in DOMAIN runs
         /\ Scheduled(p[1]) => new.sched # None /\ new.sched.run = task[p[1]].sched.run /\ new.status = "PENDING"
         /\ rec.run \in DOMAIN runs' /\ ~runs'[rec.run].ended /\ p[2] # -1 /\ new.status \in {"RUNNING", "PENDING"}
    BY <1>0, <2>3, <2>4, <2>5, <2>7
  <2>12. DOMAIN runs \subseteq DOMAIN runs' /\ (\A k \in DOMAIN runs : runs'[k] = runs[k]) /\ DOMAIN runs' \ DOMAIN runs = {}
    BY <1>0
  <2> HIDE DEF t
  <2> QED
    BY <1>0, <2>1, <2>4, <2>7, <2>9, <2>10, <2>11, <2>12, WholeStart
<1> QED
  BY <1>1, <1>2

(* Every step. *)
LEMMA NextWhole ==
    ASSUME Inv, CalmInv, TogetherInv, [Next]_vars
    PROVE  TogetherInv'
<1>1. Uninterrupted' <=> Uninterrupted
  BY DEF Uninterrupted, Faults, Next, vars, state
<1> SUFFICES ASSUME Uninterrupted PROVE Whole'
  BY <1>1 DEF TogetherInv
<1>2. Kept /\ Whole
  BY DEF CalmInv, TogetherInv, Calm, Uninterrupted
<1>3. CASE UNCHANGED vars
  <2>1. UNCHANGED <<task, runs, pod, scanned>>
    BY <1>3 DEF vars, state
  <2>2. SoleInv' /\ PlainInv' /\ SpentInv' /\ WorkedInv' /\ LaunchedInv'
    BY <1>2, <2>1 DEF Whole, SoleInv, PlainInv, PlainRow, SpentInv, WorkedInv, LaunchedInv, Launched, Scheduled, Exists, Active, Open
  <2>3. ObsoleteInv' /\ BusyInv'
    BY <1>2, <2>1 DEF Whole, ObsoleteInv, Obsolete, BusyInv, BusyPod, Scheduled, Exists, Open, Attached
  <2>4. RunsStayReachable' /\ NoWaitForEnded'
    BY <1>2, <2>1 DEF Whole, RunsStayReachable, NoWaitForEnded, Scheduled, Exists, Open, Attached, Refreshable, Live, Owns, Active
  <2> QED
    BY <2>2, <2>3, <2>4 DEF Whole
<1>4. ASSUME NEW t \in Tasks, LaunchRun(t) PROVE Whole'
  <2>1. <<t, -1>> \in Pods
    BY ConstantsAssumption DEF Pods
  <2>2. <<t, -1>>[2] = -1 /\ LaunchRun(<<t, -1>>[1])
    BY <1>4
  <2> QED
    BY <1>2, <2>1, <2>2, WholePods
<1>5. ASSUME NEW t \in Tasks, Refresh(t) \/ Cancel(t) \/ Controller(t) PROVE Whole'
  <2>1. ~Refresh(t) /\ ~Cancel(t)
    BY DEF Refresh, Cancel, Uninterrupted
  <2> QED
    BY <1>2, <1>5, <2>1, WholeScan, WholeClose, WholeTick DEF Controller
<1>6. ASSUME NEW p \in Pods, Work(p) PROVE Whole'
  BY <1>2, <1>6, WholePods, WholeRuns, WholeEnds, WholeStartRun, WholeStartCheck DEF Work
<1>7. ASSUME NEW p \in Pods,
             \/ LaunchCheck(p) \/ Progress(p)
             \/ FailWorker(p) \/ DeletePod(p) \/ Terminate(p) \/ Crash(p) \/ Stall(p) \/ Wake(p)
      PROVE  Whole'
  BY <1>2, <1>7, WholePods, WholeLaunch, WholeFail
<1>8. CASE ExpireLease
  BY <1>2, <1>8, WholeExpire
<1> QED
  BY <1>3, <1>4, <1>5, <1>6, <1>7, <1>8 DEF Next, Step

(* The invariant. *)
LEMMA TogetherInvariance == Spec => []TogetherInv
<1>1. Init => TogetherInv
  <2> SUFFICES ASSUME Init PROVE Whole
    BY DEF TogetherInv
  <2>1. DOMAIN runs = {} /\ (\A t \in Tasks : ~Exists(t) /\ ~Scheduled(t) /\ ~Active(t))
        /\ \A p \in Pods : pod[p] = NoPod
    BY DEF Init, Exists, Scheduled, Active
  <2>2. SoleInv /\ PlainInv /\ SpentInv /\ WorkedInv /\ RunsStayReachable /\ NoWaitForEnded
    BY <2>1 DEF SoleInv, PlainInv, SpentInv, WorkedInv, RunsStayReachable, NoWaitForEnded
  <2>3. LaunchedInv /\ ObsoleteInv /\ BusyInv
    <3>1. NoPod.pc = "absent" /\ NoPod.stop = FALSE /\ scanned = {}
      BY DEF NoPod, Init
    <3> QED
      BY <2>1, <3>1 DEF LaunchedInv, Launched, ObsoleteInv, BusyInv, Busy
  <2> QED
    BY <2>2, <2>3 DEF Whole
<1>2. Inv /\ CalmInv /\ TogetherInv /\ [Next]_vars => TogetherInv'
  BY NextWhole
<1> QED
  BY <1>1, <1>2, Invariance, CalmInvariance, PTL DEF Spec

(* Runs and tasks stay together: the journal's run and the task's row are      *)
(* written in two transactions (execute.ts, tasks.ts), but as long as no Pod   *)
(* is interrupted between them every open run can be continued, no task waits  *)
(* for a run that is over, and no two tasks wait for the same one.             *)
THEOREM RunsAndTasksTogether == Spec => []TogetherUninterrupted
<1>1. TogetherInv => TogetherUninterrupted
  BY DEF TogetherInv, Whole, SoleInv, TogetherUninterrupted, OneTaskPerRun
<1> QED
  BY <1>1, TogetherInvariance, PTL
=============================================================================
