------------------------- MODULE StatusNotifications -------------------------
(***************************************************************************)
(* The notifications job of the console (GET /api/admin/notifications, run  *)
(* by a cron job).  Every run reads the outcomes of batches, syncs and dead *)
(* letters since the last run, keeps one row per change of status           *)
(* (StatusChange), derives rows for whole connections from those of their   *)
(* tables, and tells every channel what is new to it (NotificationState).   *)
(*                                                                          *)
(* A run has three cursors: the time of the last run, from which outcomes   *)
(* are read with some overlap; the timestamp of the last row processed,     *)
(* from which rows are read; and, per channel and entity, the row reported  *)
(* last.  A run may die anywhere (the request is limited to 300 s).         *)
(***************************************************************************)
EXTENDS Integers, Sequences, FiniteSets, SequencesExt, FiniteSetsExt

CONSTANTS
    Tables,        \* tables a connection writes in batches
    Others,        \* what else has outcomes: a sync, batches without a table name, dead letters
    MaxEvents,     \* bound: outcomes
    MaxTime,       \* bound: time
    MaxFaults,     \* bound: runs that die, and outcomes that become visible late (one at most)
    Overlap,       \* outcomes are read again for this long
    Window, Threshold, \* flapping: more changes than Threshold within Window
    Day,           \* changes are looked up for this long, 1 day
    Period,        \* recurringAlertsPeriodHours
    DeadQuiet,     \* dead letters older than this are no incident
    StaleAfter     \* aggregateStaleTableCutoffDays

ASSUME ConstantsAssumption ==
    /\ Tables \cap {"sync", "conn", "dead", "aggregate"} = {}
    /\ Others \subseteq {"sync", "conn", "dead"}
    /\ {MaxEvents, MaxTime, MaxFaults, Overlap, Window, Threshold, Day, Period, DeadQuiet, StaleAfter} \subseteq Nat

Sources == Tables \cup Others
Connection == "conn"                           \* batch outcomes without a table name
Aggregate == "aggregate"                       \* batch_aggregate of the connection
Keys == Sources \cup {Connection, Aggregate}
Channels == {"tables", "summary"}              \* by summarizeBatchNotificationsByTable

NaN == -1                                      \* changesPerHours of an entity without rows
Blank(k) == [key |-> k, id |-> 0, status |-> "none", ts |-> 0, changes |-> NaN]
NoState == [id |-> 0, last |-> 0, flapping |-> FALSE]

VARIABLES
    clock,      \* now
    log,        \* outcomes: [key, status, ts], in the order of time
    late,       \* outcomes that are not visible yet
    rows,       \* table StatusChange: [key, status, ts, started, first]
    saved,      \* GlobalProps notificationsLastRun: [ts, processed]
    notified,   \* table NotificationState: per channel and key, [id, last, flapping]
    reported,   \* what was sent last to a channel about a key, in the same form
    run,        \* the run under way, if any
    complete,   \* history: the last run came to its end
    wasLate,    \* history: an outcome became visible late
    mixed,      \* history: a row was taken over by another table, or by an outcome of none
    lagged,     \* history: a summary was made from what a run had read before its outcomes
    crashes     \* runs that died

vars == <<clock, log, late, rows, saved, notified, reported, run, complete, wasLate, mixed, lagged, crashes>>

(* Another run may die within the bound *)
MayDie == crashes + (IF wasLate THEN 1 ELSE 0) < MaxFaults

Idle == [phase |-> "idle", now |-> 0, entities |-> <<>>, repeats |-> <<>>, active |-> FALSE,
         queue |-> {}, sending |-> <<>>, processed |-> 0]

Init ==
    /\ clock = 1 /\ log = <<>> /\ late = {}
    /\ rows = <<>> /\ saved = [ts |-> 0, processed |-> 0]
    /\ notified = [x \in Channels \X Keys |-> NoState] /\ reported = notified
    /\ run = Idle /\ complete = FALSE /\ wasLate = FALSE /\ mixed = FALSE /\ lagged = FALSE /\ crashes = 0

-----------------------------------------------------------------------------
(* Outcomes and time.                                                        *)

(* A batch or a sync ends, or a message is dead-lettered *)
Outcome(k, status) ==
    /\ run.phase \in {"idle", "started"} /\ Len(log) < MaxEvents /\ clock < MaxTime
    /\ k = "dead" => status = "FAILED"
    /\ clock' = clock + 1
    /\ log' = Append(log, [key |-> k, status |-> status, ts |-> clock'])
    /\ \/ UNCHANGED <<late, wasLate>>
       \/ crashes < MaxFaults /\ ~wasLate /\ late' = late \cup {Len(log')} /\ wasLate' = TRUE
    /\ UNCHANGED <<rows, saved, notified, reported, run, complete, mixed, lagged, crashes>>

(* The events log gets to see it *)
Arrive ==
    /\ \E i \in late : late' = late \ {i}
    /\ UNCHANGED <<clock, log, rows, saved, notified, reported, run, complete, wasLate, mixed, lagged, crashes>>

Tick ==
    /\ run.phase = "idle" /\ clock < MaxTime /\ clock' = clock + 1
    /\ UNCHANGED <<log, late, rows, saved, notified, reported, run, complete, wasLate, mixed, lagged, crashes>>

-----------------------------------------------------------------------------
(* The rows.                                                                 *)

RowsOf(table, k) == {i \in DOMAIN table : table[i].key = k}

(* The last row of an entity, with its changes within the window *)
Entity(table, k, now) ==
    LET mine == RowsOf(table, k) IN
    IF mine = {} THEN Blank(k)
    ELSE [key |-> k, id |-> Max(mine), status |-> table[Max(mine)].status, ts |-> table[Max(mine)].ts,
          changes |-> IF \A i \in mine : table[i].started < now - Day THEN NaN
                      ELSE Cardinality({i \in mine : table[i].started >= now - Window})]

(* What is kept of every key.  The connection's entity is the batch row that    *)
(* was read last: its own, if it has one, or that of some table.                *)
Loaded(table, now) ==
    LET known == {k \in Tables \cup {Connection} : RowsOf(table, k) # {}} IN
    {[k \in Keys |-> IF k = Connection THEN base ELSE Entity(table, k, now)] :
        base \in IF known = {} THEN {Blank(Connection)} ELSE {Entity(table, k, now) : k \in known}}

More(changes) == IF changes = NaN THEN NaN ELSE changes + 1

(* timestamp.getTime() > entity.timestamp.getTime() *)
Newer(entity, ts) == entity.id = 0 \/ ts > entity.ts

(* The entity an outcome is counted on: a table that has none starts with a     *)
(* copy of the connection's, an outcome without a table has the connection's.   *)
Counted(entities, k) ==
    IF k \in Tables /\ entities[k].id = 0 THEN [entities[Connection] EXCEPT !.key = k] ELSE entities[k]

(* updateStatusChange(): a new status is a new row, a repeated one is counted *)
UpdateStatusChange(work, event) ==
    LET entity == Counted(work.entities, event.key)
        takesOver == entity.key # event.key \/ (entity.id # 0 /\ work.entities[event.key].id = 0)
        Kept(e) == [work EXCEPT !.entities[entity.key] = e, !.mixed = @ \/ takesOver] IN
    IF ~Newer(entity, event.ts) THEN IF event.key \in Tables THEN Kept(entity) ELSE work
    ELSE IF event.status # entity.status
    THEN [Kept([entity EXCEPT !.id = Len(work.rows) + 1, !.status = event.status, !.ts = event.ts,
                              !.changes = More(@)]) EXCEPT
            !.rows = Append(@, [key |-> entity.key, status |-> event.status, ts |-> event.ts,
                                started |-> event.ts, first |-> entity.id = 0])]
    ELSE [Kept([entity EXCEPT !.ts = event.ts]) EXCEPT
            !.repeats = Append(@, [id |-> entity.id, ts |-> event.ts])]

(* The outcomes a run reads: those since the last run, with the overlap; of    *)
(* dead letters always the last one, which is an incident for a while          *)
Read ==
    SelectSeq([i \in DOMAIN log |-> [log[i] EXCEPT !.key = IF i \in late THEN "hidden" ELSE @]],
              LAMBDA e : e.key \in Sources \ {"dead"} /\ e.ts > saved.ts - Overlap)
Letters(now) ==
    LET dead == {i \in DOMAIN log \ late : log[i].key = "dead"} IN
    IF dead = {} THEN <<>>
    ELSE <<[log[Max(dead)] EXCEPT !.status = IF now - log[Max(dead)].ts >= DeadQuiet THEN "SUCCESS" ELSE "FAILED"]>>

-----------------------------------------------------------------------------
(* A run.                                                                    *)

Start ==
    /\ run.phase = "idle"
    /\ run' = [Idle EXCEPT !.phase = "started", !.now = clock]
    /\ complete' = FALSE
    /\ UNCHANGED <<clock, log, late, rows, saved, notified, reported, wasLate, mixed, lagged, crashes>>

(* The entities are read, and outcomes are counted on them *)
Work(entities, events) ==
    FoldLeft(UpdateStatusChange,
             [rows |-> rows, entities |-> entities, repeats |-> <<>>, mixed |-> mixed], events)

(* loadBatchStatusesChanges(), loadSyncStatusesChanges(), loadDeadStatusesChanges() *)
Load ==
    /\ run.phase = "started"
    /\ \E entities \in Loaded(rows, run.now) :
         LET work == Work(entities, Read \o Letters(run.now)) IN
         /\ rows' = work.rows
         /\ run' = [run EXCEPT !.phase = "loaded", !.repeats = work.repeats, !.entities = work.entities,
                               !.active = \E e \in ToSet(Read) : e.key \in Tables \cup {Connection}]
         /\ mixed' = work.mixed
    /\ UNCHANGED <<clock, log, late, saved, notified, reported, complete, wasLate, lagged, crashes>>

(* The request dies while it reads: the three readers got somewhere *)
CrashLoading ==
    /\ run.phase = "started" /\ MayDie
    /\ \E entities \in Loaded(rows, run.now), batches, syncs \in {0} \cup {e.ts : e \in ToSet(Read)}, letters \in BOOLEAN :
         LET events == SelectSeq(Read, LAMBDA e : e.ts <= (IF e.key = "sync" THEN syncs ELSE batches))
             work == Work(entities, events \o (IF letters THEN Letters(run.now) ELSE <<>>)) IN
         rows' = work.rows /\ mixed' = work.mixed
    /\ crashes' = crashes + 1 /\ run' = Idle
    /\ UNCHANGED <<clock, log, late, saved, notified, reported, complete, wasLate, lagged>>

(* The repeats are written in one statement *)
Increment ==
    /\ run.phase = "loaded"
    /\ rows' = FoldLeft(LAMBDA table, r : [table EXCEPT ![r.id].ts = r.ts, ![r.id].first = FALSE], rows, run.repeats)
    /\ run' = [run EXCEPT !.phase = "incremented", !.repeats = <<>>]
    /\ UNCHANGED <<clock, log, late, saved, notified, reported, complete, wasLate, mixed, lagged, crashes>>

(* The table was active lately *)
Recent(entity) == entity.id # 0 /\ entity.ts >= run.now - StaleAfter

(* computeBatchConnectionAggregate(): a table is looked up once, and the entity *)
(* of the connection comes first, with what was read of its table               *)
View(t) ==
    LET base == run.entities[Connection] IN
    IF base.key = t /\ Recent(base) THEN base ELSE run.entities[t]

AggregateStatus(failed, all) == IF failed = {} THEN "SUCCESS" ELSE IF failed = all THEN "FAILED" ELSE "PARTIAL"

ComputeAggregate ==
    LET tables == {t \in Tables : Recent(View(t))} IN
    [tables |-> tables,
     status |-> AggregateStatus({t \in tables : View(t).status # "SUCCESS"}, tables),
     ts |-> Max({0} \cup {View(t).ts : t \in tables})]

(* The queue of the channel loop: entities with rows behind the cursor *)
Fresh(table) == {i \in DOMAIN table : table[i].ts > saved.processed}
Queue(table) ==
    {x \in Channels \X Keys :
        /\ Fresh(table) \cap RowsOf(table, x[2]) # {}
        /\ x[2] \in Tables => x[1] # "summary"
        /\ x[2] = Aggregate => x[1] = "summary"}
Cursor(table) == IF Fresh(table) = {} THEN saved.processed ELSE Max({table[i].ts : i \in Fresh(table)})

(* prepareBatchAggregateRows(), then the rows are read *)
Prepare ==
    /\ run.phase = "incremented"
    /\ LET old == run.entities[Aggregate]
           view == ComputeAggregate
           skip == ~run.active \/ view.tables = {} \/ (old.id = 0 /\ view.status = "SUCCESS" /\ run.entities[Connection].id # 0)
           fresh == old.id = 0 \/ old.status # view.status
           table == IF skip THEN rows
                    ELSE IF fresh THEN Append(rows, [key |-> Aggregate, status |-> view.status, ts |-> view.ts,
                                                     started |-> view.ts, first |-> old.id = 0])
                    ELSE [rows EXCEPT ![old.id].ts = view.ts, ![old.id].first = FALSE]
           entity == IF skip THEN old
                     ELSE IF fresh THEN [key |-> Aggregate, id |-> Len(table), status |-> view.status, ts |-> view.ts,
                                         changes |-> IF old.changes = NaN THEN 1 ELSE old.changes + 1]
                     ELSE [old EXCEPT !.ts = view.ts] IN
       /\ rows' = table
       /\ lagged' = (lagged \/ (run.active /\ \E t \in view.tables : View(t) # run.entities[t]))
       /\ run' = [run EXCEPT !.phase = "dispatching", !.entities[Aggregate] = entity,
                             !.queue = Queue(table), !.processed = Cursor(table)]
    /\ UNCHANGED <<clock, log, late, saved, notified, reported, complete, wasLate, mixed, crashes>>

(* The rows of an entity behind the cursor, in the order of their timestamps,   *)
(* without intermediate successes: the last one, and how many                   *)
Statuses(k) ==
    LET mine == SetToSortSeq(Fresh(rows) \cap RowsOf(rows, k), LAMBDA i, j : rows[i].ts < rows[j].ts \/ (rows[i].ts = rows[j].ts /\ i < j)) IN
    [last |-> mine[Len(mine)],
     many |-> Cardinality({i \in DOMAIN mine : rows[mine[i]].status # "SUCCESS" \/ i = Len(mine)}) > 1]

(* A faulty variant: an incident is reported in every run *)
Due_Always(state, row) == TRUE

(* The time of a recurring alert has come *)
Due(state, row) == row.ts > state.last + Period


(* lastStatus.id !== state.statusChangeId *)
Changed(state, id) == state.id # id

(* What a channel is told of an entity: nothing, that it is flapping, or its status *)
Verdict(state, entity, id, many) ==
    LET row == rows[id]
        bad == row.status # "SUCCESS" IN
    IF ~state.flapping
    THEN IF entity.changes > Threshold /\ (bad \/ many) THEN "flapping"
         ELSE IF state.id = 0 THEN (IF bad \/ row.first THEN "status" ELSE "none")
         ELSE IF Changed(state, id) THEN "status"
         ELSE IF bad /\ Due(state, row) THEN "status" ELSE "none"
    ELSE IF entity.changes \in {0, NaN} THEN "status"
    ELSE IF Due(state, row) /\ (bad \/ many) THEN "flapping" ELSE "none"

(* The next channel and entity: processNotification() sends what is new to it   *)
Notify(x) ==
    /\ run.phase = "dispatching" /\ run.sending = <<>> /\ x \in run.queue
    /\ LET s == Statuses(x[2])
           verdict == Verdict(notified[x], run.entities[x[2]], s.last, s.many) IN
       \/ /\ verdict = "none"
          /\ run' = [run EXCEPT !.queue = @ \ {x}]
          /\ UNCHANGED reported
       \/ /\ verdict # "none"
          /\ run' = [run EXCEPT !.sending = x]
          /\ reported' = [reported EXCEPT ![x] = [id |-> s.last, last |-> rows[s.last].ts, flapping |-> verdict = "flapping"]]
    /\ UNCHANGED <<clock, log, late, rows, saved, notified, complete, wasLate, mixed, lagged, crashes>>

(* ... and then, whether it could send or not, keeps that it has *)
UpdateNotificationState ==
    /\ run.sending # <<>>
    /\ notified' = [notified EXCEPT ![run.sending] = reported[run.sending]]
    /\ run' = [run EXCEPT !.sending = <<>>, !.queue = @ \ {run.sending}]
    /\ UNCHANGED <<clock, log, late, rows, saved, reported, complete, wasLate, mixed, lagged, crashes>>

(* The cursors are saved at the end of the run *)
Save ==
    /\ run.phase = "dispatching" /\ run.queue = {}
    /\ saved' = [ts |-> run.now, processed |-> run.processed]
    /\ run' = Idle /\ complete' = TRUE
    /\ UNCHANGED <<clock, log, late, rows, notified, reported, wasLate, mixed, lagged, crashes>>

(* The request dies or is cut off *)
Crash ==
    /\ run.phase \in {"loaded", "incremented", "dispatching"} /\ MayDie
    /\ crashes' = crashes + 1 /\ run' = Idle
    /\ UNCHANGED <<clock, log, late, rows, saved, notified, reported, complete, wasLate, mixed, lagged>>

Next ==
    \/ \E k \in Sources, status \in {"SUCCESS", "FAILED"} : Outcome(k, status)
    \/ Arrive \/ Tick
    \/ Start \/ Load \/ Increment \/ Prepare \/ (\E x \in Channels \X Keys : Notify(x))
    \/ UpdateNotificationState \/ Save
    \/ CrashLoading \/ Crash

Spec == Init /\ [][Next]_vars

-----------------------------------------------------------------------------
(* Properties.                                                               *)

Row == [key : Keys, status : {"SUCCESS", "FAILED", "PARTIAL"}, ts : 1 .. MaxTime, started : 1 .. MaxTime, first : BOOLEAN]

(* Types of the state; the rows of an entity are in the order of the outcomes    *)
(* they stand for, although outcomes are read again and again.                  *)
TypeOK ==
    /\ clock \in 1 .. MaxTime /\ late \subseteq DOMAIN log
    /\ \A i \in DOMAIN rows : rows[i] \in Row
    /\ \A i, j \in DOMAIN rows : (i < j /\ rows[i].key = rows[j].key /\ rows[i].key # Aggregate) => rows[i].started < rows[j].started
    /\ saved.processed <= clock /\ saved.ts <= clock
    /\ notified \in [Channels \X Keys -> [id : 0 .. Len(rows), last : 0 .. MaxTime, flapping : BOOLEAN]]
    /\ run.sending \in run.queue \cup {<<>>}

Listens(x) == (x[2] \in Tables => x[1] = "tables") /\ (x[2] = Aggregate => x[1] = "summary")

(* What a channel should have been told: the current status of the entity, or   *)
(* that it is flapping; nothing of an entity that was always well.              *)
Told(x) ==
    LET id == Entity(rows, x[2], clock).id IN
    \/ id = 0
    \/ notified[x].id = id \/ notified[x].flapping
    \/ notified[x].id = 0 /\ rows[id].status = "SUCCESS"

(* The last outcome of an entity that the last run had to read, and those since *)
Latest(k) ==
    LET mine == {i \in DOMAIN log : log[i].key = k}
        due == {i \in mine : log[i].ts <= saved.ts} IN
    IF due = {} THEN {} ELSE {i \in mine : i >= Max(due)}


(* "add some overlap to avoid missing status changes" (notifications.ts): an    *)
(* outcome that becomes visible later, within the overlap, is reported, too.    *)
NothingMissed ==
    (complete /\ ~mixed) => \A x \in Channels \X Sources : Listens(x) => Told(x)

(* "Connection-level aggregate rows are derivative of per-table state"          *)
(* (notifications.ts): when a connection has an aggregate row, after a complete  *)
(* run it says what the rows of the tables say.                                 *)
SummaryFollowsTables ==
    (complete /\ RowsOf(rows, Aggregate) # {} /\ ~mixed /\ ~wasLate) =>
        LET tables == {t \in Tables : RowsOf(rows, t) # {}} IN
        Entity(rows, Aggregate, clock).status
            = AggregateStatus({t \in tables : Entity(rows, t, clock).status # "SUCCESS"}, tables)

(* "No additional reports will be sent for this connection in ... hours unless  *)
(* the status changes": what a channel is sent about an entity is news.  It is   *)
(* of a later row than the last report, flapping began or ended, or the period   *)
(* is over; but for the report of a run that died before it kept that it sent    *)
(* it, which the next run sends once more.                                       *)
NotNoisy ==
    [][\A x \in Channels \X Keys :
        (run.sending = <<>> /\ run'.sending = x) =>
            \/ notified[x] # reported[x]
            \/ reported'[x].id > reported[x].id
            \/ reported'[x].flapping # reported[x].flapping
            \/ reported'[x].last > reported[x].last + Period]_vars

(* A table whose outcomes were read has a row of its own.                       *)
TablesTracked ==
    complete => \A i \in DOMAIN log \ late : (log[i].key \in Tables /\ log[i].ts <= saved.ts) => RowsOf(rows, log[i].key) # {}
=============================================================================
