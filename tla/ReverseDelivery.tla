--------------------------- MODULE ReverseDelivery ---------------------------
(***************************************************************************)
(* Upsert delivery of one reverse-ETL sync: warehouse rows, read in cursor  *)
(* order, are sent to an advertising provider in batches.  A worker keeps   *)
(* the evidence of what it did in the journal: one control row per logical  *)
(* run in PostgreSQL, which names the head of the run's immutable           *)
(* artifacts, and the saved state with the cursor the next run starts from. *)
(* A later worker recovers an unfinished run from that evidence alone.      *)
(*                                                                          *)
(* A row is its position in cursor order.  The outcomes of the rows of one  *)
(* batch agree.  Every journal transition is one conditional SQL update of  *)
(* the control row: it compares the head the worker knows with the stored   *)
(* one and, for some transitions, the phase.                                *)
(***************************************************************************)
EXTENDS Integers, Sequences, FiniteSets

CONSTANTS
    Workers,         \* runner processes: one while the Kubernetes lease excludes the others
    MaxRows,         \* bound on the rows of the warehouse model
    MaxRuns,         \* bound on the logical runs
    BatchSize,       \* stream.batchSize
    CheckpointEvery, \* options.checkpointEvery
    Streams,         \* the kinds of stream considered, of which a sync has one
    Faults           \* what may go wrong

FaultKinds ==
    {"crash",        \* the process dies; a SQL commit that fails, with or without effect, too
     "interrupt",    \* the run is cancelled or the source query fails
     "throw",        \* a provider call fails, whatever the provider did with it
     "reject"}       \* the provider refuses a batch

StreamKinds ==
    [asynchronous : BOOLEAN, \* stream.batchDelivery = "asynchronous"
     cursor : BOOLEAN,       \* the model has a cursor column; otherwise every run is a full refresh
     insertOnly : BOOLEAN]   \* adapter.insertOnly: conversion events, never sent twice

ASSUME ConstantsAssumption ==
    /\ MaxRows \in Nat /\ MaxRuns \in Nat
    /\ BatchSize \in Nat \ {0} /\ CheckpointEvery \in Nat \ {0}
    /\ Streams \subseteq StreamKinds
    /\ Faults \subseteq FaultKinds

VARIABLES
    stream,   \* the stream of the sync; never changes
    source,   \* number of rows the warehouse has
    control,  \* reverse_sync_control: the rows of the sync in run_order
    saved,    \* source_state: the resume point and the runs that wrote it
    remote,   \* the provider: what it has of every run
    worker    \* the runner processes

progress == <<source, control, saved, remote, worker>>
vars == <<stream, progress>>

Runs == 1 .. MaxRuns
Rows == 1 .. MaxRows

Ended == {"complete", "aborted"}
Phases == {"new", "init_prepared", "running", "batches_pending", "finish_prepared",
           "finish_pending", "finish_resolving", "finish_accepted", "abort_prepared"} \cup Ended

(* A batch descriptor of the head: rows, last source sequence, resume cursor *)
(* (0: none), journal status and, once acknowledged, the outcome of its rows *)
Batches ==
    [rows : SUBSET Rows, last : Nat, cursor : 0 .. MaxRows,
     status : {"prepared", "unknown", "acknowledged", "cancelled"},
     out : {"none", "accepted", "staged", "rejected"}]

(* A control row; head stands for the artifacts artifact_head refers to *)
Heads == [run : Runs, baseline : SUBSET Rows, batches : Seq(Batches)]
ControlRows ==
    [phase : Phases, base : Nat, next : Nat, checkpoint : Nat, finish : Nat, detached : BOOLEAN,
     head : Heads]

Points == [seq : Nat, cursor : 0 .. MaxRows]

NoPoint == [seq |-> 0, cursor |-> 0]

(* A faulty variant: a batch of unknown outcome counts as settled *)
Unresolved_Prepared(b) ==
    b.status = "prepared"

Unresolved(b) == b.status \in {"prepared", "unknown"}
Staged(b) == b.status = "acknowledged" /\ b.out = "staged"
Rejected(b) == b.out = "rejected"
Accepted(b) == b.out = "accepted"

Batch(s) == {s[i] : i \in DOMAIN s}

(* Rows of the batches of a head that pass a test *)
RowsOf(s, P(_)) == UNION {b.rows : b \in {x \in Batch(s) : P(x)}}

Idle == [pc |-> "idle"]

Init ==
    /\ stream \in Streams
    /\ source = 0
    /\ control = <<>>
    /\ saved = [point |-> NoPoint, runOrder |-> 0, checkpointRunOrder |-> 0]
    /\ remote = [r \in Runs |-> [session |-> "none",
                                 batch |-> [k \in Rows |-> "absent"],
                                 calls |-> [k \in Rows |-> 0],
                                 finishes |-> 0, aborts |-> 0]]
    /\ worker = [w \in Workers |-> Idle]

-----------------------------------------------------------------------------
(* Helpers on a worker's session.  A session remembers the control row as    *)
(* its last transaction left it (`row`), which the guards of the journal     *)
(* read instead of the database.                                             *)

Goto(w, pc) == worker' = [worker EXCEPT ![w].pc = pc]
Stop(w) == worker' = [worker EXCEPT ![w] = Idle]

(* A faulty variant: the phase is not compared *)
Publishable_HeadOnly(w, phase) ==
    control[worker[w].run].head = worker[w].row.head

(* publish() would succeed: the stored head is the one this session knows and, *)
(* for a conditional transition, the phase too                                 *)
Publishable(w, phase) ==
    LET stored == control[worker[w].run] IN
    /\ stored.head = worker[w].row.head
    /\ phase \in {"any", stored.phase}

(* One committed publish(): the new row is derived from the stored one *)
Publish(w, new, session) ==
    /\ control' = [control EXCEPT ![worker[w].run] = new]
    /\ worker' = [worker EXCEPT ![w] = [session EXCEPT !.row = new]]

Stored(w) == control[worker[w].run]
Known(w) == worker[w].row

(* finalPoint(): the resume point of sequence n, of the batch that ends there *)
(* or, when the run delivered nothing, the saved one                          *)
FinalPoint(row, n) ==
    [seq |-> n,
     cursor |-> IF \E b \in Batch(row.head.batches) : b.last = n
                THEN (CHOOSE b \in Batch(row.head.batches) : b.last = n).cursor
                ELSE IF stream.cursor THEN saved.point.cursor ELSE 0]

(* A faulty variant: events of earlier runs are forgotten *)
Members_ThisRun(row) ==
    RowsOf(row.head.batches, Accepted)

(* hasEventKey(): events of earlier runs and the ones accepted in this one *)
Members(row) == row.head.baseline \cup RowsOf(row.head.batches, Accepted)

(* Rows the source query still yields to the session *)
Unread(w) ==
    {i \in (worker[w].read + 1) .. source : stream.insertOnly => i \notin Members(Known(w))}

-----------------------------------------------------------------------------
(* Opening a run.                                                            *)

Unfinished(r) == control[r].phase \notin Ended

(* The run a manual or scheduled attempt works on: the latest unfinished run *)
(* that is not detached, else a new one                                      *)
Attached == {r \in DOMAIN control : Unfinished(r) /\ ~control[r].detached}

NewRow ==
    [phase |-> "new", base |-> 0, next |-> 0, checkpoint |-> 0, finish |-> 0,
     detached |-> FALSE, head |-> [run |-> 1, baseline |-> {}, batches |-> <<>>]]

(* The sequence a run that has not started yet counts from *)
Base == IF stream.cursor /\ saved.point.cursor # 0 THEN saved.point.seq ELSE 0

Rebased(row) == [row EXCEPT !.base = Base, !.next = Base, !.checkpoint = Base]

Session(r, row, recovered) ==
    [pc |-> "open", run |-> r, row |-> row, recovered |-> recovered, point |-> NoPoint,
     read |-> 0, since |-> 0, staged |-> FALSE, pending |-> FALSE, rejected |-> FALSE,
     seen |-> {}, k |-> 0, result |-> "none"]

(* openRun() of a run that exists *)
ReopenRun(w, r) ==
    /\ Unfinished(r)
    /\ LET row == IF control[r].phase = "new" THEN Rebased(control[r]) ELSE control[r] IN
       /\ control' = [control EXCEPT ![r] = row]
       /\ worker' = [worker EXCEPT ![w] = Session(r, row, control[r].phase # "new")]

(* openRun() of a new logical run, refused while another one must be recovered; *)
(* the row starts with the head of the run before it                            *)
OpenNewRun(w) ==
    /\ Len(control) < MaxRuns
    /\ \A r \in DOMAIN control : Unfinished(r) => control[r].detached /\ ~stream.insertOnly
    /\ LET r == Len(control) + 1
           head == IF r = 1 THEN NewRow.head ELSE control[r - 1].head
           row == [Rebased(NewRow) EXCEPT !.head = head] IN
       /\ control' = Append(control, row)
       /\ worker' = [worker EXCEPT ![w] = Session(r, row, FALSE)]

(* A manual or scheduled attempt *)
StartAttempt(w) ==
    /\ worker[w].pc = "idle"
    /\ \/ \E r \in Attached : (\A q \in Attached : q <= r) /\ ReopenRun(w, r)
       \/ /\ Attached = {}
          /\ OpenNewRun(w)
    /\ UNCHANGED <<source, saved, remote>>

(* A status refresh or recovery of a given run; it must not extract again *)
StartRecovery(w) ==
    /\ worker[w].pc = "idle"
    /\ \E r \in DOMAIN control : control[r].phase # "new" /\ ReopenRun(w, r)
    /\ UNCHANGED <<source, saved, remote>>

(* ObjectJournal.open(): the head a new run inherited is compacted; a head   *)
(* with unresolved batches is refused                                        *)
OpenJournal(w) ==
    /\ worker[w].pc = "open"
    /\ LET head == Known(w).head
           settled == \A b \in Batch(head.batches) : ~Unresolved(b)
           baseline == head.baseline \cup RowsOf(head.batches, Accepted)
                                     \cup RowsOf(head.batches, Staged)
           pc == IF worker[w].recovered THEN "recover" ELSE "ready" IN
       \/ /\ head.run = worker[w].run
          /\ Goto(w, pc)
          /\ UNCHANGED control
       \/ /\ head.run # worker[w].run /\ settled
          /\ Publishable(w, "any")
          /\ Publish(w, [Stored(w) EXCEPT !.head = [run |-> worker[w].run,
                                                    baseline |-> baseline,
                                                    batches |-> <<>>]],
                     [worker[w] EXCEPT !.pc = pc])
       \/ /\ head.run # worker[w].run /\ ~settled
          /\ Stop(w)
          /\ UNCHANGED control
    /\ UNCHANGED <<source, saved, remote>>

-----------------------------------------------------------------------------
(* runReverseEtl(): extraction and delivery of a fresh run.                  *)

AssertReady(w) ==
    /\ worker[w].pc = "ready"
    /\ worker' = [worker EXCEPT ![w].pc = "start",
                                ![w].point = IF stream.cursor THEN saved.point ELSE NoPoint,
                                ![w].read = IF stream.cursor THEN saved.point.cursor ELSE 0]
    /\ UNCHANGED <<source, control, saved, remote>>

PrepareInit(w) ==
    /\ worker[w].pc = "start"
    /\ Publishable(w, "new")
    /\ Publish(w, [Stored(w) EXCEPT !.phase = "init_prepared"],
               [worker[w] EXCEPT !.pc = "init"])
    /\ UNCHANGED <<source, saved, remote>>

(* createWriter() and writer.init() *)
CallInit(w) ==
    /\ worker[w].pc = "init"
    /\ \/ /\ remote' = [remote EXCEPT ![worker[w].run].session = "open"]
          /\ Goto(w, "ackInit")
       \/ /\ "throw" \in Faults
          /\ \E s \in {"none", "open"} : remote' = [remote EXCEPT ![worker[w].run].session = s]
          /\ Stop(w)
    /\ UNCHANGED <<source, control, saved>>

AcknowledgeInit(w) ==
    /\ worker[w].pc = "ackInit"
    /\ Publishable(w, "init_prepared")
    /\ Publish(w, [Stored(w) EXCEPT !.phase = "running"], [worker[w] EXCEPT !.pc = "read"])
    /\ UNCHANGED <<source, saved, remote>>

(* The catch block: cleanup unless a provider call may still have an effect; *)
(* asynchronous jobs that were submitted cannot be cleaned up                *)
Cleanup(w, staged) == IF stream.asynchronous /\ staged THEN Idle ELSE [worker[w] EXCEPT !.pc = "cleanup"]

(* The batch of the unread rows up to row `to` *)
NextBatch(w, to) ==
    LET rows == {i \in Unread(w) : i <= to} IN
    [rows |-> rows, last |-> worker[w].point.seq + Cardinality(rows),
     cursor |-> IF stream.cursor THEN to ELSE 0, status |-> "prepared", out |-> "none"]

(* The guards of prepare() that do not concern the batch itself *)
Preparable(w) ==
    /\ Known(w).phase = "running"
    /\ \A b \in Batch(Known(w).head.batches) : ~Unresolved(b) /\ ~Rejected(b)
    /\ worker[w].point.seq = Known(w).next

(* The row loop up to a flush(), and journal.prepare() of the batch *)
Prepare(w) ==
    /\ worker[w].pc = "read"
    /\ \E to \in Unread(w) :
         LET b == NextBatch(w, to)
             n == Cardinality(b.rows)
             batches == Append(Stored(w).head.batches, b) IN
         /\ n <= BatchSize /\ worker[w].since + n <= CheckpointEvery
         /\ \/ /\ Preparable(w) /\ Publishable(w, "any")
               /\ Publish(w, [Stored(w) EXCEPT !.head.batches = batches, !.next = b.last],
                          [worker[w] EXCEPT !.pc = "call", !.read = to, !.k = Len(batches),
                                            !.point = [seq |-> b.last, cursor |-> b.cursor],
                                            !.since = @ + n])
            \/ /\ ~Preparable(w)
               /\ worker' = [worker EXCEPT ![w] = Cleanup(w, worker[w].staged)]
               /\ UNCHANGED control
    /\ UNCHANGED <<source, saved, remote>>

(* What the provider does with a batch: where it ends and what it answers *)
Answers ==
    {<<"done", "accepted">>, <<"staged", "staged">>}
        \cup (IF "reject" \in Faults THEN {<<"refused", "rejected">>} ELSE {})

(* writer.upsert() / writer.remove() *)
CallBatch(w) ==
    /\ worker[w].pc = "call"
    /\ LET r == worker[w].run
           k == worker[w].k
           Receive(state) == remote' = [remote EXCEPT ![r].batch[k] = state, ![r].calls[k] = @ + 1] IN
       \/ \E a \in Answers :
             /\ Receive(a[1])
             /\ worker' = [worker EXCEPT ![w].pc = "ack", ![w].result = a[2]]
       \/ /\ "throw" \in Faults
          /\ \E a \in Answers \cup {<<"absent", "none">>} : Receive(a[1])
          /\ Goto(w, "mark")
    /\ UNCHANGED <<source, control, saved>>

MarkUnknown(w) ==
    /\ worker[w].pc = "mark"
    /\ \/ /\ Known(w).phase = "running" /\ Publishable(w, "any")
          /\ control' = [control EXCEPT ![worker[w].run].head.batches[worker[w].k].status = "unknown"]
       \/ /\ ~(Known(w).phase = "running" /\ Publishable(w, "any"))
          /\ UNCHANGED control
    /\ Stop(w)
    /\ UNCHANGED <<source, saved, remote>>

(* The head with the receipt of batch k *)
WithReceipt(row, k, out) ==
    [row EXCEPT !.head.batches[k] = [@ EXCEPT !.status = "acknowledged", !.out = out]]

(* journal.acknowledge() and the rest of flush() *)
Acknowledge(w) ==
    /\ worker[w].pc = "ack"
    /\ LET out == worker[w].result
           staged == worker[w].staged \/ out = "staged"
           new == WithReceipt(Stored(w), worker[w].k, out)
           due == worker[w].since >= CheckpointEvery
           pc == IF due /\ stream.cursor /\ ~staged THEN "checkpoint" ELSE "read" IN
       \/ /\ Known(w).phase = "running" /\ Publishable(w, "any")
          /\ control' = [control EXCEPT ![worker[w].run] = new]
          /\ worker' = [worker EXCEPT ![w] =
                IF out = "rejected"
                THEN IF stream.asynchronous /\ worker[w].staged THEN Idle
                     ELSE [worker[w] EXCEPT !.pc = "cleanup", !.row = new]
                ELSE [worker[w] EXCEPT !.pc = pc, !.row = new, !.staged = staged,
                                       !.since = IF due /\ pc = "read" THEN 0 ELSE @]]
       \/ /\ ~(Known(w).phase = "running" /\ Publishable(w, "any"))
          /\ Stop(w)
          /\ UNCHANGED control
    /\ UNCHANGED <<source, saved, remote>>

-----------------------------------------------------------------------------
(* Checkpoints.                                                              *)

(* A faulty variant: a run that completes late overwrites the state of a later one *)
Merged_Always(point, run) ==
    [point |-> point, runOrder |-> run, checkpointRunOrder |-> run]

(* Merging a checkpoint into the saved state: a later run's state wins, and  *)
(* a cursor run that delivered nothing does not fence out an older one       *)
Merged(point, run) ==
    LET replaceState == run >= saved.runOrder
        replacePoint == (~stream.cursor \/ point.seq > control[run].base) /\ run >= saved.checkpointRunOrder
        first == saved.runOrder = 0 IN
    [point |-> IF replacePoint \/ first THEN point ELSE saved.point,
     runOrder |-> IF replaceState THEN run ELSE saved.runOrder,
     checkpointRunOrder |-> IF replacePoint THEN run ELSE saved.checkpointRunOrder]

(* The guards of commitCheckpoint() *)
Checkpointable(w, point, complete) ==
    LET row == Known(w)
        accepted == {b \in Batch(row.head.batches) : Accepted(b) /\ b.last <= point.seq} IN
    /\ point.seq >= row.checkpoint /\ point.seq <= row.next
    /\ IF complete THEN row.phase = "finish_accepted" /\ point.seq = row.finish /\ point.seq = row.next
                   ELSE row.phase = "running" /\ stream.cursor
    /\ Cardinality(UNION {b.rows : b \in accepted}) = point.seq - row.base
    /\ point.cursor = FinalPoint(row, point.seq).cursor
    /\ point.seq > row.base => \E b \in Batch(row.head.batches) : b.last = point.seq

(* commitCheckpoint() between batches *)
Checkpoint(w) ==
    /\ worker[w].pc = "checkpoint"
    /\ LET point == worker[w].point
           new == [Stored(w) EXCEPT !.checkpoint = point.seq] IN
       \/ /\ Checkpointable(w, point, FALSE) /\ Publishable(w, "any")
          /\ Publish(w, new, [worker[w] EXCEPT !.pc = "read", !.since = 0])
          /\ saved' = Merged(point, worker[w].run)
       \/ /\ ~Checkpointable(w, point, FALSE)
          /\ worker' = [worker EXCEPT ![w] = Cleanup(w, worker[w].staged)]
          /\ UNCHANGED <<control, saved>>
    /\ UNCHANGED <<source, remote>>

(* sealExtraction(): asynchronous streams, when the source query is exhausted *)
SealExtraction(w) ==
    /\ worker[w].pc = "read" /\ Unread(w) = {} /\ stream.asynchronous
    /\ LET clean == /\ Known(w).phase = "running" /\ worker[w].point.seq = Known(w).next
                    /\ \A b \in Batch(Known(w).head.batches) : ~Unresolved(b) /\ ~Rejected(b) IN
       \/ /\ clean /\ Publishable(w, "running")
          /\ Publish(w, [Stored(w) EXCEPT !.phase = "batches_pending"],
                     [worker[w] EXCEPT !.pc = IF worker[w].staged THEN "detach" ELSE "prepareFinish"])
       \/ /\ ~clean
          /\ worker' = [worker EXCEPT ![w] = Cleanup(w, worker[w].staged)]
          /\ UNCHANGED control
    /\ UNCHANGED <<source, saved, remote>>

-----------------------------------------------------------------------------
(* Finishing a run, in the worker that delivered it or in recovery.          *)

(* The guards of prepareFinish() *)
Finishable(w) ==
    /\ Known(w).phase \in {"running", "batches_pending"}
    /\ worker[w].point.seq = Known(w).next
    /\ \A b \in Batch(Known(w).head.batches) :
         ~Unresolved(b) /\ ~Rejected(b) /\ (Known(w).phase = "batches_pending" => ~Staged(b))

(* A faulty variant: finish() is called before it is recorded *)
PrepareFinish_NotRecorded(w) ==
    /\ \/ worker[w].pc = "prepareFinish"
       \/ worker[w].pc = "read" /\ Unread(w) = {} /\ ~stream.asynchronous
    /\ Finishable(w) /\ Goto(w, "finish")
    /\ UNCHANGED <<source, control, saved, remote>>

PrepareFinish(w) ==
    /\ \/ worker[w].pc = "prepareFinish"
       \/ worker[w].pc = "read" /\ Unread(w) = {} /\ ~stream.asynchronous
    /\ \/ /\ Finishable(w) /\ Publishable(w, Known(w).phase)
          /\ Publish(w, [Stored(w) EXCEPT !.phase = "finish_prepared", !.finish = worker[w].point.seq],
                     [worker[w] EXCEPT !.pc = "finish"])
       \/ /\ ~Finishable(w)
          /\ worker' = [worker EXCEPT ![w] = IF worker[w].recovered THEN Idle ELSE Cleanup(w, worker[w].staged)]
          /\ UNCHANGED control
    /\ UNCHANGED <<source, saved, remote>>

(* The provider session after a finish that took effect *)
FinishedSession(s) ==
    [s EXCEPT !.session = "finished",
              !.batch = [k \in Rows |-> IF @[k] = "staged" THEN "done" ELSE @[k]]]

(* writer.finish() *)
CallFinish(w) ==
    /\ worker[w].pc = "finish"
    /\ LET r == worker[w].run
           now == [remote[r] EXCEPT !.finishes = @ + 1]
           later == [now EXCEPT !.session = "finishing"] IN
       \/ /\ remote' = [remote EXCEPT ![r] = FinishedSession(now)]
          /\ worker' = [worker EXCEPT ![w].pc = "ackFinish", ![w].result = "accepted"]
       \/ /\ remote' = [remote EXCEPT ![r] = later]
          /\ worker' = [worker EXCEPT ![w].pc = "ackFinish", ![w].result = "pending"]
       \/ /\ "throw" \in Faults
          /\ \E s \in {now, later, FinishedSession(now)} : remote' = [remote EXCEPT ![r] = s]
          /\ Stop(w)
    /\ UNCHANGED <<source, control, saved>>

(* finish(): the receipt of the finish *)
AcknowledgeFinish(w) ==
    /\ worker[w].pc = "ackFinish"
    /\ LET phase == Known(w).phase
           pending == worker[w].result = "pending"
           again == \/ phase = "finish_pending" /\ pending
                    \/ phase = "finish_resolving"
           pc == IF pending THEN "detach" ELSE "resolve" IN
       \/ /\ again /\ Goto(w, pc) /\ UNCHANGED control
       \/ /\ ~again /\ phase \in {"finish_prepared", "finish_pending"}
          /\ Publishable(w, "any")
          /\ Publish(w, [Stored(w) EXCEPT !.phase = IF pending THEN "finish_pending" ELSE "finish_resolving"],
                     [worker[w] EXCEPT !.pc = pc])
    /\ UNCHANGED <<source, saved, remote>>

(* finish(): the staged batches are accepted one by one, then the run *)
ResolveFinish(w) ==
    /\ worker[w].pc = "resolve"
    /\ Publishable(w, "any")
    /\ LET staged == {k \in DOMAIN Known(w).head.batches : Staged(Known(w).head.batches[k])} IN
       \/ /\ Known(w).phase = "finish_resolving"
          /\ \E k \in staged :
               /\ \A j \in staged : k <= j
               /\ Publish(w, WithReceipt(Stored(w), k, "accepted"), worker[w])
       \/ /\ staged = {}
          /\ Publish(w, [Stored(w) EXCEPT !.phase = "finish_accepted"],
                     [worker[w] EXCEPT !.pc = "commit",
                                       !.point = IF worker[w].recovered
                                                 THEN FinalPoint(Known(w), Known(w).next) ELSE @])
    /\ UNCHANGED <<source, saved, remote>>

(* commitCheckpoint() of the whole run; the attempt ends *)
CommitComplete(w) ==
    /\ worker[w].pc = "commit"
    /\ LET point == worker[w].point IN
       \/ /\ Checkpointable(w, point, TRUE) /\ Publishable(w, "any")
          /\ control' = [control EXCEPT ![worker[w].run].checkpoint = point.seq,
                                        ![worker[w].run].phase = "complete"]
          /\ saved' = Merged(point, worker[w].run)
       \/ /\ ~Checkpointable(w, point, TRUE)
          /\ UNCHANGED <<control, saved>>
    /\ Stop(w)
    /\ UNCHANGED <<source, remote>>

(* The attempt ends with pending work; detach() lets new runs start *)
Detach(w) ==
    /\ worker[w].pc = "detach"
    /\ LET detachable == /\ ~Known(w).detached
                         /\ Known(w).phase \in {"batches_pending", "finish_pending"}
                         /\ \A b \in Batch(Known(w).head.batches) : ~Unresolved(b) /\ ~Rejected(b) IN
       \/ /\ detachable /\ Publishable(w, "any")
          /\ control' = [control EXCEPT ![worker[w].run].detached = TRUE]
       \/ /\ ~detachable
          /\ UNCHANGED control
    /\ Stop(w)
    /\ UNCHANGED <<source, saved, remote>>

-----------------------------------------------------------------------------
(* Cleanup of a run that will not finish.                                    *)

PrepareAbort(w) ==
    /\ worker[w].pc = "cleanup"
    /\ LET safe == /\ Known(w).phase \in {"running", "batches_pending"}
                   /\ \A b \in Batch(Known(w).head.batches) :
                        ~Unresolved(b) /\ (Known(w).phase = "batches_pending" => ~Staged(b)) IN
       \/ /\ safe /\ Publishable(w, Known(w).phase)
          /\ Publish(w, [Stored(w) EXCEPT !.phase = "abort_prepared"], [worker[w] EXCEPT !.pc = "abort"])
       \/ /\ ~safe
          /\ Stop(w) /\ UNCHANGED control
    /\ UNCHANGED <<source, saved, remote>>

(* writer.abort() or hooks.reconcileAbort(): what was only staged is dropped *)
CallAbort(w) ==
    /\ worker[w].pc = "abort"
    /\ LET r == worker[w].run
           gone == [remote[r] EXCEPT !.session = "aborted", !.aborts = 1,
                                     !.batch = [k \in Rows |-> IF @[k] = "staged" THEN "absent" ELSE @[k]]] IN
       \/ /\ remote' = [remote EXCEPT ![r] = gone]
          /\ Goto(w, "ackAbort")
       \/ /\ "throw" \in Faults
          /\ \E s \in {remote[r], gone} : remote' = [remote EXCEPT ![r] = s]
          /\ Stop(w)
    /\ UNCHANGED <<source, control, saved>>

AcknowledgeAbort(w) ==
    /\ worker[w].pc = "ackAbort"
    /\ Publishable(w, "abort_prepared")
    /\ LET old == Stored(w).head.batches
           cancelled == [k \in DOMAIN old |->
               IF Staged(old[k]) THEN [old[k] EXCEPT !.status = "cancelled"] ELSE old[k]] IN
       control' = [control EXCEPT ![worker[w].run] =
                      [Stored(w) EXCEPT !.phase = "aborted", !.head.batches = cancelled]]
    /\ Stop(w)
    /\ UNCHANGED <<source, saved, remote>>

-----------------------------------------------------------------------------
(* recoverRun(): a later worker takes the run from its durable evidence.     *)

(* The initialization is proved absent or cleaned up, and the run starts over *)
RecoverInit(w) ==
    /\ worker[w].pc = "recover" /\ Known(w).phase = "init_prepared"
    /\ Publishable(w, "init_prepared")
    /\ remote' = [remote EXCEPT ![worker[w].run].session = "none"]
    /\ control' = [control EXCEPT ![worker[w].run].phase = "new"]
    /\ Stop(w)
    /\ UNCHANGED <<source, saved>>

(* A faulty variant: a finish without evidence is taken for accepted *)
FinishEvidence_Trusting(s) ==
    IF s.session = "finishing" THEN "pending" ELSE "accepted"

(* What hooks.reconcileFinish() can prove *)
FinishEvidence(s) ==
    IF s.session = "finishing" THEN "pending"
    ELSE IF s.session = "finished" \/ \A k \in Rows : s.batch[k] # "staged" THEN "accepted"
    ELSE "none"

RecoverFinish(w) ==
    /\ worker[w].pc = "recover"
    /\ LET evidence == FinishEvidence(remote[worker[w].run]) IN
       \/ /\ Known(w).phase \in {"finish_prepared", "finish_pending"}
          /\ worker' = [worker EXCEPT ![w] =
                IF evidence = "none" THEN Idle
                ELSE [worker[w] EXCEPT !.pc = "ackFinish", !.result = evidence]]
       \/ /\ Known(w).phase = "finish_resolving"
          /\ worker' = [worker EXCEPT ![w].pc = "ackFinish", ![w].result = "accepted"]
       \/ /\ Known(w).phase = "finish_accepted"
          /\ worker' = [worker EXCEPT ![w].pc = "commit", ![w].point = FinalPoint(Known(w), Known(w).next)]
    /\ UNCHANGED <<source, control, saved, remote>>

(* A faulty variant: a staged job counts as accepted *)
BatchEvidence_Staged(state) ==
    CASE state \in {"done", "staged"} -> "accepted" [] state = "refused" -> "rejected" [] OTHER -> "none"

(* A faulty variant: without evidence a batch is taken for accepted *)
BatchEvidence_Trusting(state) ==
    CASE state = "staged" -> "staged" [] state = "refused" -> "rejected" [] OTHER -> "accepted"

(* What hooks.reconcileBatch() can prove; without a receipt it may have to give up *)
BatchEvidence(state) ==
    CASE state = "done" -> "accepted"
      [] state = "staged" -> "staged"
      [] state = "refused" -> "rejected"
      [] OTHER -> "none"

(* One batch of the recovery page: settled, or its outcome asked for *)
RecoverBatch(w) ==
    /\ worker[w].pc = "recover" /\ Known(w).phase \in {"running", "batches_pending"}
    /\ \E k \in DOMAIN Known(w).head.batches \ worker[w].seen :
         LET b == Known(w).head.batches[k]
             evidence == BatchEvidence(remote[worker[w].run].batch[k])
             visited == [worker[w] EXCEPT !.seen = @ \cup {k}, !.rejected = @ \/ Rejected(b)] IN
         \/ /\ ~Unresolved(b) /\ ~Staged(b)
            /\ worker' = [worker EXCEPT ![w] = visited]
         \/ /\ Unresolved(b) \/ Staged(b)
            /\ evidence # "none"
            /\ worker' = [worker EXCEPT ![w] = [visited EXCEPT !.pc = "ackBatch", !.k = k, !.result = evidence]]
         \/ /\ Unresolved(b)
            /\ Stop(w)
    /\ UNCHANGED <<source, control, saved, remote>>

(* acknowledgeRecovered(): a receipt that only repeats "staged" is not rewritten *)
AcknowledgeRecovered(w) ==
    /\ worker[w].pc = "ackBatch"
    /\ LET k == worker[w].k
           out == worker[w].result
           new == WithReceipt(Stored(w), k, out)
           session == [worker[w] EXCEPT !.pc = "recover", !.pending = @ \/ out = "staged"] IN
       \/ /\ Staged(Known(w).head.batches[k]) /\ out = "staged"
          /\ worker' = [worker EXCEPT ![w] = session]
          /\ UNCHANGED control
       \/ /\ ~(Staged(Known(w).head.batches[k]) /\ out = "staged")
          /\ Publishable(w, "any")
          /\ control' = [control EXCEPT ![worker[w].run] = new]
          /\ worker' = [worker EXCEPT ![w] = IF out = "rejected" THEN Idle ELSE [session EXCEPT !.row = new]]
    /\ UNCHANGED <<source, saved, remote>>

(* A faulty variant: a sealed run always waits for the provider *)
RecoverDecide_Waits(w) ==
    /\ worker[w].pc = "recover" /\ Known(w).phase \in {"running", "batches_pending"}
    /\ worker[w].seen = DOMAIN Known(w).head.batches
    /\ Goto(w, IF Known(w).phase = "batches_pending" THEN "detach" ELSE "cleanup")
    /\ UNCHANGED <<source, control, saved, remote>>

(* Every batch is known: wait, finish the sealed extraction, or clean up *)
RecoverDecide(w) ==
    /\ worker[w].pc = "recover"
    /\ \/ Known(w).phase = "abort_prepared"
       \/ /\ Known(w).phase \in {"running", "batches_pending"}
          /\ worker[w].seen = DOMAIN Known(w).head.batches
    /\ LET sealed == Known(w).phase = "batches_pending"
           pc == IF Known(w).phase = "abort_prepared" THEN "abort"
                 ELSE IF worker[w].pending /\ (stream.asynchronous \/ sealed) THEN "detach"
                 ELSE IF sealed /\ ~worker[w].rejected THEN "prepareFinish"
                 ELSE "cleanup" IN
       worker' = [worker EXCEPT ![w].pc = pc,
                                ![w].point = IF pc = "prepareFinish"
                                             THEN FinalPoint(Known(w), Known(w).next) ELSE @]
    /\ UNCHANGED <<source, control, saved, remote>>

-----------------------------------------------------------------------------
(* Failures and the environment.                                             *)

Crash(w) ==
    /\ "crash" \in Faults /\ worker[w].pc # "idle"
    /\ Stop(w)
    /\ UNCHANGED <<source, control, saved, remote>>

(* Cancellation, or a failing source query, while rows are read *)
Interrupt(w) ==
    /\ "interrupt" \in Faults /\ worker[w].pc = "read"
    /\ worker' = [worker EXCEPT ![w] = Cleanup(w, worker[w].staged)]
    /\ UNCHANGED <<source, control, saved, remote>>

(* The phase a conditional transition expects *)
Expected(w) ==
    CASE worker[w].pc = "start" -> "new"
      [] worker[w].pc \in {"ackInit"} -> "init_prepared"
      [] worker[w].pc \in {"prepareFinish", "cleanup"} -> Known(w).phase
      [] worker[w].pc = "read" /\ Unread(w) = {} -> Known(w).phase
      [] worker[w].pc = "ackAbort" -> "abort_prepared"
      [] worker[w].pc = "recover" /\ Known(w).phase = "init_prepared" -> "init_prepared"
      [] OTHER -> "any"

(* publish() finds another head or phase: the session is unusable *)
PublishRefused(w) ==
    /\ worker[w].pc \in {"open", "start", "ackInit", "read", "checkpoint", "prepareFinish", "ackFinish",
                         "resolve", "commit", "detach", "cleanup", "ackAbort", "recover", "ackBatch"}
    /\ worker[w].pc = "recover" => Known(w).phase = "init_prepared"
    /\ ~Publishable(w, Expected(w))
    /\ Stop(w)
    /\ UNCHANGED <<source, control, saved, remote>>

(* The warehouse gets a row behind the others *)
NewSourceRow ==
    /\ source < MaxRows
    /\ source' = source + 1
    /\ UNCHANGED <<control, saved, remote, worker>>

(* An asynchronous job ends *)
SettleBatch(r, k) ==
    /\ stream.asynchronous /\ remote[r].batch[k] = "staged"
    /\ \E s \in {a[1] : a \in Answers} \ {"staged"} : remote' = [remote EXCEPT ![r].batch[k] = s]
    /\ UNCHANGED <<source, control, saved, worker>>

(* A pending finish ends *)
SettleFinish(r) ==
    /\ remote[r].session = "finishing"
    /\ remote' = [remote EXCEPT ![r] = FinishedSession(remote[r])]
    /\ UNCHANGED <<source, control, saved, worker>>

Deliver(w) ==
    \/ OpenJournal(w) \/ AssertReady(w) \/ PrepareInit(w) \/ CallInit(w) \/ AcknowledgeInit(w)
    \/ Prepare(w) \/ CallBatch(w) \/ MarkUnknown(w) \/ Acknowledge(w) \/ Checkpoint(w)
    \/ SealExtraction(w) \/ PrepareFinish(w) \/ CallFinish(w) \/ AcknowledgeFinish(w)
    \/ ResolveFinish(w) \/ CommitComplete(w) \/ Detach(w)
    \/ PrepareAbort(w) \/ CallAbort(w) \/ AcknowledgeAbort(w)

Recover(w) ==
    \/ RecoverInit(w) \/ RecoverFinish(w) \/ RecoverBatch(w) \/ AcknowledgeRecovered(w)
    \/ RecoverDecide(w)

Provider == \E r \in Runs : SettleFinish(r) \/ \E k \in Rows : SettleBatch(r, k)

Next ==
    /\ UNCHANGED stream
    /\ \/ \E w \in Workers :
            \/ StartAttempt(w) \/ StartRecovery(w) \/ Deliver(w) \/ Recover(w)
            \/ Crash(w) \/ Interrupt(w) \/ PublishRefused(w)
       \/ NewSourceRow
       \/ Provider

Spec == Init /\ [][Next]_vars

(* Fairness: attempts and status checks are launched again and again (cron    *)
(* and the recovery scan) and their workers run, and the provider ends what   *)
(* it accepted.                                                               *)
FairSpec ==
    /\ Spec
    /\ \A w \in Workers : /\ WF_progress(Deliver(w)) /\ WF_progress(Recover(w)) /\ SF_progress(StartAttempt(w))
                           /\ \A r \in Runs : SF_progress(StartRecovery(w) /\ worker'[w].run = r)
    /\ \A r \in Runs : WF_progress(SettleFinish(r)) /\ \A k \in Rows : WF_progress(SettleBatch(r, k))

-----------------------------------------------------------------------------
(* Properties.                                                               *)

Sessions ==
    [pc : {"open", "ready", "start", "init", "ackInit", "read", "call", "ack", "mark", "checkpoint",
           "prepareFinish", "finish", "ackFinish", "resolve", "commit", "detach", "cleanup", "abort",
           "ackAbort", "recover", "ackBatch"},
     run : Runs, row : ControlRows, recovered : BOOLEAN, point : Points, read : 0 .. MaxRows,
     since : Nat, staged : BOOLEAN, pending : BOOLEAN, rejected : BOOLEAN, seen : SUBSET Nat, k : Nat,
     result : {"none", "accepted", "staged", "rejected", "pending"}]

(* Types of the state. *)
TypeOK ==
    /\ source \in 0 .. MaxRows
    /\ control \in Seq(ControlRows)
    /\ saved \in [point : Points, runOrder : 0 .. MaxRuns, checkpointRunOrder : 0 .. MaxRuns]
    /\ remote \in [Runs -> [session : {"none", "open", "finishing", "finished", "aborted"},
                            batch : [Rows -> {"absent", "staged", "done", "refused"}],
                            calls : [Rows -> Nat], finishes : Nat, aborts : 0 .. 1]]
    /\ worker \in [Workers -> Sessions \cup {Idle}]

(* Rows the provider has taken for good *)
Delivered ==
    {i \in Rows : \E r \in DOMAIN control :
        /\ control[r].head.run = r
        /\ \E k \in Rows \cap DOMAIN control[r].head.batches :
              remote[r].batch[k] = "done" /\ i \in control[r].head.batches[k].rows}

(* The cursor the next run starts behind never passes a row the provider did   *)
(* not take: nothing is skipped, whatever crashed, was rejected, stayed staged *)
(* or was recovered in between (commitCheckpoint, journal.ts).                 *)
CheckpointSafe == stream.cursor => 1 .. saved.point.cursor \subseteq Delivered

(* A receipt in the journal that says "accepted" is true at the provider.      *)
(* Receipts are written after the call, after a reconciliation, and for staged *)
(* batches after the finish (ack, finish, acknowledgeAbort in journal.ts).     *)
ReceiptsAreTrue ==
    \A r \in DOMAIN control : control[r].head.run = r =>
        \A k \in DOMAIN control[r].head.batches :
            Accepted(control[r].head.batches[k]) => remote[r].batch[k] = "done"

(* A completed run has delivered all it extracted.                             *)
CompleteIsDelivered ==
    \A r \in DOMAIN control : control[r].phase = "complete" =>
        \A k \in DOMAIN control[r].head.batches : remote[r].batch[k] = "done"

(* No provider call is made twice for the same evidence: a batch is sent at    *)
(* most once and a session finished at most once, recovery included.           *)
NoBlindReplay ==
    \A r \in Runs : remote[r].finishes <= 1 /\ \A k \in Rows : remote[r].calls[k] <= 1

(* A session is never both finished and aborted ("admits only one competing    *)
(* finish or abort preparation", persistence.test.ts).                         *)
FinishExcludesAbort == \A r \in Runs : remote[r].finishes = 0 \/ remote[r].aborts = 0

(* A conversion event is taken by the provider at most once over all runs.     *)
EventsOnce ==
    stream.insertOnly =>
      \A r, q \in DOMAIN control : \A k, j \in Rows :
        /\ <<r, k>> # <<q, j>> /\ control[r].head.run = r /\ control[q].head.run = q
        /\ k \in DOMAIN control[r].head.batches /\ j \in DOMAIN control[q].head.batches
        /\ remote[r].batch[k] = "done" /\ remote[q].batch[j] = "done"
        => control[r].head.batches[k].rows \cap control[q].head.batches[j].rows = {}

(* The next run can always be opened: once a run has ended or is detached, its *)
(* head, which the next run inherits, has no batch of unknown outcome.         *)
HeadsAreSettled ==
    \A r \in DOMAIN control : control[r].phase \in Ended \/ control[r].detached =>
        \A b \in Batch(control[r].head.batches) : b.status \notin {"prepared", "unknown"}

(* The journal implements checkpointed delivery: seen from outside, rows are   *)
(* taken and the cursor moves forward only over taken rows, also when a        *)
(* detached run completes after a later one (publish(), journal.ts).           *)
Checkpointed == INSTANCE CheckpointedDelivery WITH delivered <- Delivered, cursor <- saved.point.cursor

ImplementsCheckpointedDelivery == Checkpointed!Spec

(* Delivery that waits for the provider is eventually committed or cleaned up. *)
PendingResolves ==
    \A r \in Runs :
        r \in DOMAIN control /\ control[r].phase \in {"batches_pending", "finish_pending"}
            ~> r \in DOMAIN control /\ control[r].phase \in Ended
=============================================================================
