--------------------------- MODULE SnapshotMirror ---------------------------
(***************************************************************************)
(* Mirror delivery of one reverse-ETL sync: the members of a remote         *)
(* audience are made equal to what the warehouse query yields.  A run reads *)
(* the complete source, seals it as a snapshot, uploads the members that    *)
(* are missing and, once all of them are accepted, removes the others, one  *)
(* by one (snapshot-diff) or with one cleanup request (native replacement). *)
(* What is at the provider is never read back: the journal's own record of  *)
(* memberships, handed from run to run as a baseline, stands for it.        *)
(*                                                                          *)
(* One worker: the lease excludes a second one (ReverseDelivery has the     *)
(* races of two).  A member is its identity; a changed payload is treated   *)
(* like a missing member, so payloads and refresh ages are left out.        *)
(***************************************************************************)
EXTENDS Integers, Sequences, FiniteSets

CONSTANTS
    Members,       \* identities of people the query may yield
    MaxRuns,       \* bound on logical runs
    BatchSize,     \* stream.batchSize
    Setups         \* the kinds of stream and circumstance to consider

FaultKinds ==
    {"crash",      \* the process dies; a commit that fails, with or without effect, too
     "interrupt",  \* the run is cancelled or the source query fails
     "throw",      \* a provider call fails, whatever the provider did with it
     "reject"}     \* the provider refuses a request

ASSUME ConstantsAssumption ==
    /\ MaxRuns \in Nat /\ BatchSize \in Nat \ {0}
    /\ Setups \subseteq [asynchronous : BOOLEAN,        \* adapter.batchDelivery = "asynchronous"
                         replace : BOOLEAN,             \* stream.capabilities.mirror = "native-replace"
                         overlap : BOOLEAN,             \* attempts are made while a detached run is pending
                         faults : SUBSET FaultKinds]    \* what may go wrong

VARIABLES
    setup,     \* the stream and its circumstances
    source,    \* the members the warehouse query yields now
    control,   \* reverse_sync_control: the rows of the sync in run_order
    audience,  \* the provider: per member 0 (not in the audience) or when it was uploaded
    queue,     \* the provider: requests it has accepted and not processed yet
    outcome,   \* the provider: what became of request k of run r
    clock,     \* the provider's clock, advanced when a replacement run begins
    worker     \* the runner process

vars == <<setup, source, control, audience, queue, outcome, clock, worker>>

Runs == 1 .. MaxRuns
Requests == 0 .. (2 * Cardinality(Members))   \* 0 is the cleanup request of finish()
Ended == {"complete", "aborted"}
Finishing == {"finish_prepared", "finish_pending", "finish_resolving", "finish_accepted"}

Idle == [pc |-> "idle"]
In == {m \in Members : audience[m] > 0}

NoSnapshot == [state |-> "none", desired |-> {}, planned |-> 0, cleanup |-> "none", cutoff |-> 0]
NoHead == [run |-> 1, base |-> {}, unsure |-> {}, snap |-> NoSnapshot, batches |-> <<>>]

Asynchronous == setup.asynchronous
Replace == setup.replace
Overlap == setup.overlap
Faults == setup.faults

Init ==
    /\ setup \in Setups
    /\ source = {}
    /\ control = <<>>
    /\ audience = [m \in Members |-> 0]
    /\ queue = {}
    /\ outcome = [r \in Runs |-> [k \in Requests |-> "absent"]]
    /\ clock = 1
    /\ worker = Idle

-----------------------------------------------------------------------------
(* The local index of a head: what the journal holds of memberships.         *)

Batch(head) == {head.batches[k] : k \in DOMAIN head.batches}
Unresolved(b) == b.status \in {"prepared", "unknown"}
Staged(b) == b.status = "acknowledged" /\ b.out = "staged"
IdsOf(head, action, outs) ==
    UNION {b.ids : b \in {x \in Batch(head) : x.action = action /\ x.out \in outs}}
Touched(head) == UNION {b.ids : b \in Batch(head)}

(* A faulty variant: the baseline is not carried over *)
Present_ThisRun(head) ==
    IdsOf(head, "upsert", {"accepted"}) \ IdsOf(head, "remove", {"accepted"})

(* LocalIndex.apply() and applyReplacement(): members by acknowledged evidence *)
Present(head) ==
    LET kept == (head.base \cup IdsOf(head, "upsert", {"accepted"})) \ IdsOf(head, "remove", {"accepted"}) IN
    IF head.snap.cleanup = "accepted" THEN kept \cap head.snap.desired ELSE kept

(* Members a still processing older run may change *)
Unsure(head) ==
    (head.unsure \cap Present(head)) \ (IdsOf(head, "upsert", {"accepted"}) \cup IdsOf(head, "remove", {"accepted"}))

(* LocalIndex.page("additions"): desired members that are not known to be in *)
Missing(head) == {m \in head.snap.desired : m \notin Present(head) \/ m \in Unsure(head)}

(* ObjectSnapshots.page("additions"): ... and are not prepared in this run    *)
Additions(head) ==
    IF Replace THEN head.snap.desired \ Touched(head) ELSE Missing(head) \ Touched(head)

(* LocalIndex.page("removals"), from where this attempt has come to           *)
Removals(head) == (Present(head) \ head.snap.desired) \ Touched(head)

(* assertRemovalsAllowed() *)
RemovalsAllowed(head) ==
    /\ head.snap.state = "sealed"
    /\ \A b \in Batch(head) : b.action = "upsert" => b.out = "accepted"
    /\ Missing(head) = {}

(* assertReplacementReady() *)
ReplacementReady(head) ==
    /\ head.snap.state = "sealed"
    /\ \A b \in Batch(head) : b.action = "upsert" /\ b.out = "accepted"
    /\ Additions(head) = {}

(* assertPromotable() *)
Promotable(head) ==
    IF Replace THEN ReplacementReady(head) /\ head.snap.cleanup = "accepted"
    ELSE RemovalsAllowed(head) /\ Present(head) \subseteq head.snap.desired

-----------------------------------------------------------------------------
(* Opening a run.                                                            *)

Row == control[worker.run]
Unfinished(r) == control[r].phase \notin Ended
Attached == {r \in DOMAIN control : Unfinished(r) /\ ~control[r].detached}

Session(r, recovered) ==
    [pc |-> "open", run |-> r, recovered |-> recovered, kind |-> "upsert", pending |-> FALSE,
     uncertain |-> FALSE, k |-> 0, result |-> "none"]

(* publish() of a new row, and the next step of the worker *)
Publish(row, session) == control' = [control EXCEPT ![worker.run] = row] /\ worker' = session
Goto(pc) == worker' = [worker EXCEPT !.pc = pc]
Stop == worker' = Idle

(* execute() and openRun(): the unfinished run that is not detached, or a new *)
(* one, which starts from the head of the run before it                       *)
StartAttempt ==
    /\ worker = Idle
    /\ \/ /\ Attached # {}
          /\ LET r == CHOOSE r \in Attached : \A q \in Attached : q <= r IN
             worker' = Session(r, control[r].phase # "new")
          /\ UNCHANGED control
       \/ /\ Attached = {} /\ Len(control) < MaxRuns
          /\ Overlap \/ \A r \in DOMAIN control : ~Unfinished(r)
          /\ LET r == Len(control) + 1 IN
             /\ control' = Append(control, [phase |-> "new", detached |-> FALSE,
                                            head |-> IF r = 1 THEN NoHead ELSE control[r - 1].head])
             /\ worker' = Session(r, FALSE)
    /\ UNCHANGED <<source, audience, queue, outcome, clock>>

(* A status check of a given run *)
StartCheck ==
    /\ worker = Idle
    /\ \E r \in DOMAIN control : Unfinished(r) /\ control[r].phase # "new" /\ worker' = Session(r, TRUE)
    /\ UNCHANGED <<source, control, audience, queue, outcome, clock>>

(* A faulty variant: the last snapshot is taken for delivered *)
Compacted_Desired(head) ==
    [NoHead EXCEPT !.run = worker.run, !.base = head.snap.desired]

(* ObjectJournal.open(): the baseline of a new run.  Members of requests that *)
(* are still processing are candidates, and then nothing is certain.          *)
Compacted(head) ==
    LET staged == UNION {b.ids : b \in {x \in Batch(head) : Staged(x)}}
        base == Present(head) \cup staged
        unclear == \/ \E b \in Batch(head) : Staged(b)
                   \/ Replace /\ head.snap.state # "none" /\ head.snap.cleanup # "accepted" IN
    [NoHead EXCEPT !.run = worker.run, !.base = base,
                   !.unsure = IF unclear THEN base ELSE Unsure(head) \cup staged]

OpenJournal ==
    /\ worker.pc = "open"
    /\ LET head == Row.head
           mine == head.run = worker.run
           pc == IF worker.recovered THEN "recover" ELSE "start" IN
       \/ /\ mine /\ Goto(pc) /\ UNCHANGED control
       \/ /\ ~mine /\ \A b \in Batch(head) : ~Unresolved(b)
          /\ Publish([Row EXCEPT !.head = Compacted(head)], [worker EXCEPT !.pc = pc])
       \/ /\ ~mine /\ \E b \in Batch(head) : Unresolved(b)
          /\ Stop /\ UNCHANGED control
    /\ UNCHANGED <<source, audience, queue, outcome, clock>>

-----------------------------------------------------------------------------
(* runSnapshotMirror(): a fresh run.                                         *)

(* assertReady(), snapshots.start() *)
StartSnapshot ==
    /\ worker.pc = "start"
    /\ Publish([Row EXCEPT !.head.snap = [NoSnapshot EXCEPT !.state = "open"]], [worker EXCEPT !.pc = "prepareInit"])
    /\ UNCHANGED <<source, audience, queue, outcome, clock>>

PrepareInit ==
    /\ worker.pc = "prepareInit"
    /\ Publish([Row EXCEPT !.phase = "init_prepared"], [worker EXCEPT !.pc = "init"])
    /\ UNCHANGED <<source, audience, queue, outcome, clock>>

(* createWriter(), writer.init() and acknowledgeInit(): a replacement run     *)
(* notes the provider's time, which its cleanup will use                      *)
InitWriter ==
    /\ worker.pc = "init"
    /\ clock' = IF Replace THEN clock + 1 ELSE clock
    /\ Publish([Row EXCEPT !.phase = "running", !.head.snap.cutoff = clock'], [worker EXCEPT !.pc = "extract"])
    /\ UNCHANGED <<source, audience, queue, outcome>>

(* The complete source is read, and seal()ed *)
Seal ==
    /\ worker.pc = "extract"
    /\ LET sealed == [Row.head EXCEPT !.snap.state = "sealed", !.snap.desired = source] IN
       Publish([Row EXCEPT !.head = [sealed EXCEPT !.snap.planned = Cardinality(Additions(sealed))]],
               [worker EXCEPT !.pc = "plan"])
    /\ UNCHANGED <<source, audience, queue, outcome, clock>>

(* The catch block: cleanup unless a provider call may still have an effect *)
Failed(uncertain) == IF worker.recovered \/ uncertain THEN Idle ELSE [worker EXCEPT !.pc = "abort"]

-----------------------------------------------------------------------------
(* deliver(): additions, then removals, then finish.                         *)

Planned == IF worker.kind = "upsert" THEN Additions(Row.head) ELSE Removals(Row.head)

(* journal.prepare() of the next page *)
Prepare ==
    /\ worker.pc = "plan" /\ Planned # {}
    /\ worker.kind = "remove" => RemovalsAllowed(Row.head)
    /\ \E ids \in SUBSET Planned :
         /\ ids # {} /\ Cardinality(ids) <= BatchSize /\ (Cardinality(ids) = BatchSize \/ ids = Planned)
         /\ \/ /\ \A b \in Batch(Row.head) : ~Unresolved(b) /\ b.out # "rejected"
               /\ Publish([Row EXCEPT !.head.batches = Append(@, [action |-> worker.kind, ids |-> ids,
                                                                  status |-> "prepared", out |-> "none"])],
                          [worker EXCEPT !.pc = "call", !.k = Len(Row.head.batches) + 1])
            \/ /\ \E b \in Batch(Row.head) : Unresolved(b) \/ b.out = "rejected"
               /\ worker' = Failed(worker.uncertain)
               /\ UNCHANGED control
    /\ UNCHANGED <<source, audience, queue, outcome, clock>>

(* The end of a phase: pending requests postpone what comes next *)
EndOfPhase ==
    /\ worker.pc = "plan" /\ Planned = {}
    /\ worker.kind = "remove" => RemovalsAllowed(Row.head)
    /\ worker' = IF worker.pending THEN [worker EXCEPT !.pc = "detach"]
                 ELSE IF worker.kind = "upsert" /\ ~Replace THEN [worker EXCEPT !.kind = "remove"]
                 ELSE [worker EXCEPT !.pc = "prepareFinish"]
    /\ UNCHANGED <<source, control, audience, queue, outcome, clock>>

(* page("removals") is refused *)
RefusedRemovals ==
    /\ worker.pc = "plan" /\ worker.kind = "remove" /\ ~RemovalsAllowed(Row.head)
    /\ worker' = Failed(worker.uncertain)
    /\ UNCHANGED <<source, control, audience, queue, outcome, clock>>

(* The effect of a request on the audience *)
Applied(r, k) ==
    LET head == control[r].head IN
    [m \in Members |->
        IF k = 0 THEN IF audience[m] < head.snap.cutoff THEN 0 ELSE audience[m]
        ELSE IF m \notin head.batches[k].ids THEN audience[m]
        ELSE IF head.batches[k].action = "upsert" THEN clock ELSE 0]

(* The provider receives a request: processed at once, or put in the queue *)
Receive(r, k, now) ==
    /\ outcome' = [outcome EXCEPT ![r][k] = IF now THEN "done" ELSE "processing"]
    /\ audience' = IF now THEN Applied(r, k) ELSE audience
    /\ queue' = IF now THEN queue ELSE queue \cup {<<r, k>>}

Refuse(r, k) == outcome' = [outcome EXCEPT ![r][k] = "failed"] /\ UNCHANGED <<audience, queue>>

(* A request is processed; the provider keeps no order among them *)
Process ==
    /\ \E job \in queue :
         LET r == job[1]
             k == job[2] IN
         /\ queue' = queue \ {job}
         /\ \/ outcome' = [outcome EXCEPT ![r][k] = "done"] /\ audience' = Applied(r, k)
            \/ "reject" \in Faults /\ outcome' = [outcome EXCEPT ![r][k] = "failed"] /\ UNCHANGED audience
    /\ UNCHANGED <<source, control, clock, worker>>

(* writer.upsert() / writer.remove() *)
CallBatch ==
    /\ worker.pc = "call"
    /\ LET Answer(out) == worker' = [worker EXCEPT !.pc = "ack", !.result = out] IN
       \/ Receive(worker.run, worker.k, ~Asynchronous) /\ Answer(IF Asynchronous THEN "staged" ELSE "accepted")
       \/ "reject" \in Faults /\ Refuse(worker.run, worker.k) /\ Answer("rejected")
       \/ /\ "throw" \in Faults
          /\ \/ Receive(worker.run, worker.k, ~Asynchronous)
             \/ UNCHANGED <<audience, queue, outcome>>
          /\ Goto("mark")
    /\ UNCHANGED <<source, control, clock>>

MarkUnknown ==
    /\ worker.pc = "mark"
    /\ control' = [control EXCEPT ![worker.run].head.batches[worker.k].status = "unknown"]
    /\ Stop
    /\ UNCHANGED <<source, audience, queue, outcome, clock>>

(* A faulty variant: a request that was only queued counts as accepted *)
Receipt_Optimistic(row, k, out) ==
    [row EXCEPT !.head.batches[k].status = "acknowledged",
                !.head.batches[k].out = IF out = "staged" THEN "accepted" ELSE out]

(* ack(): the receipt of a batch *)
Receipt(row, k, out) ==
    [row EXCEPT !.head.batches[k].status = "acknowledged", !.head.batches[k].out = out]

Acknowledge ==
    /\ worker.pc = "ack"
    /\ LET pending == worker.pending \/ worker.result = "staged" IN
       Publish(Receipt(Row, worker.k, worker.result),
               IF worker.result = "rejected" THEN Failed(worker.pending)
               ELSE [worker EXCEPT !.pc = "plan", !.pending = pending, !.uncertain = pending])
    /\ UNCHANGED <<source, audience, queue, outcome, clock>>

(* prepareFinish() *)
PrepareFinish ==
    /\ worker.pc = "prepareFinish"
    /\ LET ready == /\ \A b \in Batch(Row.head) : ~Unresolved(b) /\ b.out # "rejected"
                    /\ IF Replace THEN ReplacementReady(Row.head) ELSE Promotable(Row.head) IN
       \/ /\ ready
          /\ Publish([Row EXCEPT !.phase = "finish_prepared", !.head.snap.cleanup = IF Replace THEN "prepared" ELSE @],
                     [worker EXCEPT !.pc = "finish"])
       \/ /\ ~ready
          /\ worker' = Failed(worker.uncertain)
          /\ UNCHANGED control
    /\ UNCHANGED <<source, audience, queue, outcome, clock>>

(* writer.finish(): local for snapshot-diff, the cleanup request otherwise *)
CallFinish ==
    /\ worker.pc = "finish"
    /\ LET Answer(out) == worker' = [worker EXCEPT !.pc = "ackFinish", !.result = out] IN
       \/ /\ ~Replace /\ Answer("accepted") /\ UNCHANGED <<audience, queue, outcome>>
       \/ /\ Replace /\ Receive(worker.run, 0, ~Asynchronous)
          /\ Answer(IF Asynchronous THEN "pending" ELSE "accepted")
       \/ /\ "throw" \in Faults
          /\ \/ Replace /\ Receive(worker.run, 0, ~Asynchronous)
             \/ UNCHANGED <<audience, queue, outcome>>
          /\ Stop
    /\ UNCHANGED <<source, control, clock>>

(* finish(): the receipt, and the acceptance *)
AcknowledgeFinish ==
    /\ worker.pc = "ackFinish"
    /\ LET pending == worker.result = "pending" IN
       Publish([Row EXCEPT !.phase = IF pending THEN "finish_pending" ELSE "finish_resolving",
                           !.head.snap.cleanup = IF Replace /\ pending THEN "pending" ELSE @],
               [worker EXCEPT !.pc = IF pending THEN "detach" ELSE "resolve"])
    /\ UNCHANGED <<source, audience, queue, outcome, clock>>

AcceptFinish ==
    /\ worker.pc = "resolve"
    /\ Publish([Row EXCEPT !.phase = "finish_accepted", !.head.snap.cleanup = IF Replace THEN "accepted" ELSE @],
               [worker EXCEPT !.pc = "commit"])
    /\ UNCHANGED <<source, audience, queue, outcome, clock>>

(* commitCheckpoint() *)
Commit ==
    /\ worker.pc = "commit"
    /\ LET may == Promotable(Row.head) /\ \A b \in Batch(Row.head) : b.out = "accepted" IN
       control' = IF may THEN [control EXCEPT ![worker.run].phase = "complete"] ELSE control
    /\ Stop
    /\ UNCHANGED <<source, audience, queue, outcome, clock>>

(* The attempt ends with pending requests; detach() lets new runs start *)
Detach ==
    /\ worker.pc = "detach"
    /\ LET head == Row.head
           uploads == UNION {b.ids : b \in {x \in Batch(head) : x.action = "upsert"}}
           may == /\ \A b \in Batch(head) : ~Unresolved(b) /\ b.out # "rejected"
                  /\ head.snap.state = "sealed" /\ Cardinality(uploads) = head.snap.planned IN
       control' = IF may THEN [control EXCEPT ![worker.run].detached = TRUE] ELSE control
    /\ Stop
    /\ UNCHANGED <<source, audience, queue, outcome, clock>>

-----------------------------------------------------------------------------
(* Recovery.                                                                 *)

Open == {k \in DOMAIN Row.head.batches : Unresolved(Row.head.batches[k]) \/ Staged(Row.head.batches[k])}
HasRejected == \E b \in Batch(Row.head) : b.out = "rejected"

(* resumeSnapshotMirror() rather than recoverRun() *)
Resumable == Row.phase # "abort_prepared" /\ ~HasRejected /\ Row.head.snap.state = "sealed"

(* recoverRun(): an interrupted initialization is forgotten *)
RecoverInit ==
    /\ worker.pc = "recover" /\ Row.phase = "init_prepared"
    /\ control' = [control EXCEPT ![worker.run].phase = "new"]
    /\ Stop
    /\ UNCHANGED <<source, audience, queue, outcome, clock>>

(* The next batch is reconciled with the provider: its state is looked up, or *)
(* it is sent again when the provider never got it                            *)
Answered(out) == CASE out = "done" -> "accepted" [] out = "failed" -> "rejected" [] OTHER -> "staged"

ReconcileBatch ==
    /\ worker.pc = "recover" /\ Row.phase = "running"
    /\ LET todo == {k \in Open : k > worker.k} IN
       /\ todo # {}
       /\ LET k == CHOOSE k \in todo : \A j \in todo : k <= j
              out == Answered(outcome'[worker.run][k]) IN
          \/ /\ \/ outcome[worker.run][k] # "absent" /\ UNCHANGED <<audience, queue, outcome>>
                \/ outcome[worker.run][k] = "absent" /\ Receive(worker.run, k, ~Asynchronous)
             /\ Publish(Receipt(Row, k, out),
                        IF out = "rejected" THEN Idle
                        ELSE [worker EXCEPT !.k = k, !.pending = @ \/ out = "staged"])
          \/ "throw" \in Faults /\ Stop /\ UNCHANGED <<control, audience, queue, outcome>>
    /\ UNCHANGED <<source, clock>>

(* All batches are reconciled: go on with the delivery, wait, or clean up *)
Reconciled ==
    /\ worker.pc = "recover" /\ Row.phase = "running"
    /\ \A k \in Open : k <= worker.k
    /\ IF Resumable
       THEN worker' = IF worker.pending /\ Additions(Row.head) = {} THEN [worker EXCEPT !.pc = "detach"]
                      ELSE [worker EXCEPT !.pc = "plan", !.uncertain = worker.pending]
       ELSE worker' = IF worker.pending /\ Asynchronous THEN [worker EXCEPT !.pc = "detach"]
                      ELSE [worker EXCEPT !.pc = "abort"]
    /\ UNCHANGED <<source, control, audience, queue, outcome, clock>>

(* reconcileFinish(): Google cannot tell what became of a cleanup without a receipt *)
RecoverFinish ==
    /\ worker.pc = "recover" /\ Row.phase \in Finishing
    /\ worker' =
         IF Row.phase = "finish_accepted" THEN [worker EXCEPT !.pc = "commit"]
         ELSE IF Row.phase = "finish_resolving" THEN [worker EXCEPT !.pc = "resolve"]
         ELSE IF ~Replace THEN [worker EXCEPT !.pc = "ackFinish", !.result = "accepted"]
         ELSE IF Row.phase = "finish_prepared" THEN Idle
         ELSE IF outcome[worker.run][0] = "done" THEN [worker EXCEPT !.pc = "ackFinish", !.result = "accepted"]
         ELSE IF outcome[worker.run][0] = "processing" THEN [worker EXCEPT !.pc = "detach"]
         ELSE Idle
    /\ UNCHANGED <<source, control, audience, queue, outcome, clock>>

(* prepareAbort(), in the failed worker or in recovery *)
PrepareAbort ==
    /\ \/ worker.pc = "abort" /\ Row.phase = "running"
       \/ worker.pc = "recover" /\ Row.phase = "abort_prepared"
    /\ \/ /\ \A b \in Batch(Row.head) : ~Unresolved(b)
          /\ Publish([Row EXCEPT !.phase = "abort_prepared"], [worker EXCEPT !.pc = "ackAbort"])
       \/ /\ \E b \in Batch(Row.head) : Unresolved(b)
          /\ Stop /\ UNCHANGED control
    /\ UNCHANGED <<source, audience, queue, outcome, clock>>

(* writer.abort() and acknowledgeAbort(): staged batches count as cancelled *)
AcknowledgeAbort ==
    /\ worker.pc = "ackAbort"
    /\ LET Cancelled(b) == IF Staged(b) THEN [b EXCEPT !.status = "cancelled"] ELSE b IN
       control' = [control EXCEPT ![worker.run].phase = "aborted",
                                  ![worker.run].head.batches = [k \in DOMAIN @ |-> Cancelled(@[k])]]
    /\ Stop
    /\ UNCHANGED <<source, audience, queue, outcome, clock>>

-----------------------------------------------------------------------------
(* The environment.                                                          *)

ChangeSource ==
    /\ \E s \in SUBSET Members : s # source /\ source' = s
    /\ worker = Idle
    /\ UNCHANGED <<control, audience, queue, outcome, clock, worker>>

Crash ==
    /\ "crash" \in Faults /\ worker # Idle
    /\ Stop
    /\ UNCHANGED <<source, control, audience, queue, outcome, clock>>

(* Cancellation, a failing source query or an invalid row *)
Interrupt ==
    /\ "interrupt" \in Faults /\ worker.pc \in {"extract", "plan"}
    /\ worker' = Failed(worker.uncertain)
    /\ UNCHANGED <<source, control, audience, queue, outcome, clock>>

Step ==
    \/ StartAttempt \/ StartCheck \/ OpenJournal \/ StartSnapshot \/ PrepareInit \/ InitWriter \/ Seal
    \/ Prepare \/ EndOfPhase \/ RefusedRemovals \/ Process \/ CallBatch \/ MarkUnknown \/ Acknowledge
    \/ PrepareFinish \/ CallFinish \/ AcknowledgeFinish \/ AcceptFinish \/ Commit \/ Detach
    \/ RecoverInit \/ ReconcileBatch \/ Reconciled \/ RecoverFinish \/ PrepareAbort \/ AcknowledgeAbort
    \/ ChangeSource \/ Crash \/ Interrupt

Next == Step /\ UNCHANGED setup

Spec == Init /\ [][Next]_vars

-----------------------------------------------------------------------------
(* Properties.                                                               *)

Last == Len(control)

(* Types of the state. *)
TypeOK ==
    /\ source \subseteq Members
    /\ \A r \in DOMAIN control :
         /\ r \in Runs
         /\ control[r].head.base \subseteq Members /\ control[r].head.unsure \subseteq control[r].head.base
         /\ \A b \in Batch(control[r].head) : b.ids \subseteq Members /\ b.ids # {}
    /\ audience \in [Members -> Nat]
    /\ queue \subseteq Runs \X Requests

(* What the journal of run r takes for members, or has asked for *)
Tracked(r) ==
    LET head == control[r].head IN
    Present(head) \cup IdsOf(head, "upsert", {"none", "staged", "accepted"})
                  \cup UNION {b.ids : b \in {x \in Batch(head) : Staged(x)}}

(* Members that a newer run has asked to remove beside an older, detached one's  *)
(* upload of them: the provider may finish the older request last.               *)
Overtaken ==
    {m \in Members : \E r, q \in DOMAIN control :
        /\ r < q /\ control[r].detached
        /\ m \in IdsOf(control[r].head, "upsert", {"staged", "accepted"})
        /\ \/ m \in IdsOf(control[q].head, "remove", {"none", "staged", "accepted"})
           \/ control[q].head.snap.cleanup # "none" /\ m \notin control[q].head.snap.desired}

(* What the journal of the latest run takes for members, or has asked for,     *)
(* covers the audience: nobody is in it whom no later run would remove, but     *)
(* for members whose older upload was overtaken by a newer run's removal.       *)
AudienceTracked == Last > 0 => In \ Overtaken \subseteq Tracked(Last)

(* Additions come first: when a run starts to take members away, everyone the  *)
(* sealed snapshot wants is in the audience already.  (An older run that is    *)
(* still pending may disturb it.)                                              *)
NoGap ==
    ~Overlap /\ Last > 0 => LET head == control[Last].head IN
        head.run = Last /\ ((\E b \in Batch(head) : b.action = "remove") \/ head.snap.cleanup # "none")
            => head.snap.desired \subseteq In

(* "A previously tracked member becomes removable only when no source row      *)
(* projects it" (mirror.md): once the latest run is complete and nothing is    *)
(* under way, the audience is what its sealed snapshot wants.                  *)
AudienceIsSnapshot ==
    (/\ Last > 0 /\ worker = Idle /\ queue = {}
     /\ \A r \in DOMAIN control : ~Unfinished(r)
     /\ control[Last].phase = "complete")
        => In = control[Last].head.snap.desired

(* The same for runs that follow each other: with no older run left pending    *)
(* when a new one starts, mirror delivery is exact.                            *)
ExactMirror == ~Overlap => AudienceIsSnapshot
=============================================================================
