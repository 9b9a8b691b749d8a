----------------------- MODULE ReverseCheckpoint_proofs -----------------------
(***************************************************************************)
(* The checkpoints of the delivery journal: the cursor the next run starts   *)
(* behind never passes a row the provider has not taken, for any number of   *)
(* workers that may overlap, of runs and of rows.  While one worker runs at  *)
(* a time, ended and detached runs are settled, the journal implements       *)
(* checkpointed delivery, and events are sent once.                          *)
(***************************************************************************)
EXTENDS ReverseDelivery_proofs

-----------------------------------------------------------------------------
(* The inductive invariant, beside Inv and TruthInv *)

(* A worker that extracts, from the moment it has read the resume point. *)
Extracting == {"start", "init", "ackInit"} \cup Reading

(* Row i is delivered (d) or in a batch. *)
Covered(d, i, batches) == i \in d \/ \E j \in DOMAIN batches : i \in batches[j].rows

(* The rows up to the cursor of any batch are delivered or in a batch. *)
CoversHead(d, head) ==
    \A k \in DOMAIN head.batches : \A i \in 1 .. head.batches[k].cursor : Covered(d, i, head.batches)

(* A run leaves out no row: neither the saved cursor, nor the one of a batch,  *)
(* nor the position of a reader has passed a row that is in no batch.          *)
CursorInv ==
    stream.cursor =>
        /\ 1 .. saved.point.cursor \subseteq Delivered
        /\ \A r \in DOMAIN control : control[r].head.run = r => CoversHead(Delivered, control[r].head)
        /\ \A w \in Workers : worker[w].pc \in Extracting =>
             \A i \in 1 .. worker[w].read : Covered(Delivered, i, worker[w].row.head.batches)

(* Events that a run does not send again are delivered: the ones its head has  *)
(* as its baseline, and the ones it will have when an inherited head is        *)
(* compacted.                                                                  *)
BaselineInv ==
    stream.insertOnly =>
        \A r \in DOMAIN control :
            /\ control[r].head.baseline \subseteq Delivered
            /\ control[r].head.run # r =>
                 \A k \in DOMAIN control[r].head.batches :
                     Accepted(control[r].head.batches[k]) \/ Staged(control[r].head.batches[k])
                         => control[r].head.batches[k].rows \subseteq Delivered

(* An aborted run has nothing staged; a batch that a late reader appended to a *)
(* run being aborted has no receipt, as whoever could write it knows of the     *)
(* abort.                                                                      *)
AbortInv ==
    /\ \A r \in DOMAIN control : control[r].phase = "aborted" =>
         \A k \in DOMAIN control[r].head.batches : ~Staged(control[r].head.batches[k])
    /\ \A w \in Workers :
         /\ Working(w) /\ control[worker[w].run].phase \in AbortSide
         /\ worker[w].row.head = control[worker[w].run].head
         /\ \E k \in DOMAIN worker[w].row.head.batches : Unresolved(worker[w].row.head.batches[k])
         => worker[w].row.phase \in AbortSide

(* A worker knows no batch that the journal does not have. *)
LengthInv ==
    \A w \in Workers : Working(w) /\ worker[w].row.head.run = worker[w].run =>
        DOMAIN worker[w].row.head.batches \subseteq DOMAIN control[worker[w].run].head.batches

ResumeInv == CursorInv /\ BaselineInv /\ AbortInv /\ LengthInv

-----------------------------------------------------------------------------
(* Steps *)

(* The batches of a head stay, with their rows. *)
KeepsRows(old, new) ==
    \A k \in DOMAIN old.batches : k \in DOMAIN new.batches /\ new.batches[k].rows = old.batches[k].rows

(* Only receipts differ. *)
SameBatches(old, new) ==
    /\ new.run = old.run /\ new.baseline = old.baseline
    /\ DOMAIN new.batches = DOMAIN old.batches
    /\ \A k \in DOMAIN old.batches :
         new.batches[k].rows = old.batches[k].rows /\ new.batches[k].cursor = old.batches[k].cursor

(* What the provider has taken it keeps. *)
KeepsDone(s, t) == \A k \in Rows : s.batch[k] = "done" => t.batch[k] = "done"

ProviderKeeps == \A q \in Runs : KeepsDone(remote[q], remote'[q])

(* A step of w changes only its session and its run's row. *)
OnlyRun(w) ==
    /\ stream' = stream /\ DOMAIN control' = DOMAIN control
    /\ \A v \in Workers \ {w} : worker'[v] = worker[v]
    /\ \A q \in DOMAIN control \ {worker[w].run} : control'[q] = control[q]

(* The session of w goes on with the row it knows, or ends. *)
Local(w) ==
    /\ \A v \in Workers \ {w} : worker'[v] = worker[v]
    /\ Working(w)' =>
         /\ worker'[w].run = worker[w].run /\ worker'[w].row = worker[w].row
         /\ worker'[w].pc \in Extracting =>
              worker[w].pc \in Extracting /\ worker'[w].read = worker[w].read /\ worker'[w].point = worker[w].point

(* What is delivered stays so. *)
LEMMA DeliveredStays ==
    ASSUME Inv, \A q \in Runs : KeepsDone(remote[q], remote'[q]),
           \A q \in DOMAIN control : control[q].head.run = q =>
               q \in DOMAIN control' /\ control'[q].head.run = q /\ KeepsRows(control[q].head, control'[q].head)
    PROVE  Delivered \subseteq Delivered'
<1> SUFFICES ASSUME NEW i \in Delivered PROVE i \in Delivered'
  OBVIOUS
<1>1. DOMAIN control \subseteq Runs
  BY ConstantsAssumption DEF Inv, TypeInv, ControlType, Runs
<1>2. i \in Rows
  BY DEF Delivered
<1>3. PICK r \in DOMAIN control : /\ control[r].head.run = r
                                  /\ \E k \in Rows \cap DOMAIN control[r].head.batches :
                                        remote[r].batch[k] = "done" /\ i \in control[r].head.batches[k].rows
  BY DEF Delivered
<1>6. PICK k \in Rows \cap DOMAIN control[r].head.batches :
          remote[r].batch[k] = "done" /\ i \in control[r].head.batches[k].rows
  BY <1>3
<1>4. /\ r \in DOMAIN control' /\ control'[r].head.run = r
      /\ k \in DOMAIN control'[r].head.batches /\ i \in control'[r].head.batches[k].rows
  BY <1>3, <1>6 DEF KeepsRows
<1>5. remote'[r].batch[k] = "done"
  BY <1>1, <1>6 DEF KeepsDone
<1> QED
  BY <1>2, <1>4, <1>5, <1>6 DEF Delivered

(* The rows of a done batch of a run's own journal are delivered. *)
LEMMA DoneIsDelivered ==
    ASSUME Inv, NEW r \in DOMAIN control, control[r].head.run = r,
           NEW k \in Rows, k \in DOMAIN control[r].head.batches, remote[r].batch[k] = "done"
    PROVE  control[r].head.batches[k].rows \subseteq Delivered
<1>1. control[r] \in ControlRows
  BY DEF Inv, TypeInv, ControlType
<1>2. control[r].head \in Heads
  BY <1>1 DEF ControlRows
<1>3. control[r].head.batches \in Seq(Batches)
  BY <1>2 DEF Heads
<1>4. control[r].head.batches[k] \in Batches
  BY <1>3
<1>5. control[r].head.batches[k].rows \subseteq Rows
  BY <1>4 DEF Batches
<1> QED
  BY <1>5 DEF Delivered

(* A worker's step that only changes receipts, phases and positions. *)
LEMMA ResumeStep ==
    ASSUME Inv, Inv', TruthInv, TruthInv', ResumeInv, NEW w \in Workers, Working(w), OnlyRun(w), ProviderKeeps,
           NEW new, new = control'[worker[w].run], SameBatches(Stored(w).head, new.head),
           new.head = Stored(w).head \/ worker[w].pc # "open",
           Working(w)' =>
             /\ worker'[w].run = worker[w].run /\ SameBatches(Known(w).head, worker'[w].row.head)
             /\ worker'[w].row = Known(w) \/ worker'[w].row = new
             /\ worker'[w].pc \in Extracting => worker[w].pc \in Extracting /\ worker'[w].read = worker[w].read,
           new.phase = "aborted" => \A k \in DOMAIN new.head.batches : ~Staged(new.head.batches[k]),
           new.phase \in AbortSide =>
             \/ new.head = Stored(w).head /\ Stored(w).phase \in AbortSide
             \/ \A k \in DOMAIN new.head.batches : ~Unresolved(new.head.batches[k])
             \/ \E k \in DOMAIN new.head.batches : new.head.batches[k].status = "cancelled",
           stream.cursor => saved'.point = saved.point \/ 1 .. saved'.point.cursor \subseteq Delivered
    PROVE  ResumeInv' /\ Delivered \subseteq Delivered'
<1> DEFINE r == worker[w].run
<1>1. CursorInv /\ BaselineInv /\ AbortInv /\ LengthInv
  BY DEF ResumeInv
<1>2. r \in DOMAIN control /\ r \in Runs
  BY Facts DEF Inv
<1>3. /\ DOMAIN control' = DOMAIN control /\ stream' = stream
      /\ \A q \in DOMAIN control \ {r} : control'[q] = control[q]
      /\ \A v \in Workers \ {w} : worker'[v] = worker[v]
  BY DEF OnlyRun
<1>4. \A q \in Runs : KeepsDone(remote[q], remote'[q])
  BY DEF ProviderKeeps
<1>5. \A q \in DOMAIN control : control'[q].head.run = control[q].head.run /\ SameBatches(control[q].head, control'[q].head)
  BY <1>2, <1>3 DEF SameBatches, Stored
<1>6. \A old, mid : SameBatches(old, mid) => KeepsRows(old, mid)
  BY DEF SameBatches, KeepsRows
<1>7. Delivered \subseteq Delivered'
  BY <1>3, <1>4, <1>5, <1>6, DeliveredStays
<1>8. \A v \in Workers : Working(v)' => /\ Working(v) /\ worker'[v].run = worker[v].run
                                       /\ worker[v].run \in DOMAIN control
                                       /\ SameBatches(worker[v].row.head, worker'[v].row.head)
  <2> SUFFICES ASSUME NEW v \in Workers, Working(v)'
               PROVE  /\ Working(v) /\ worker'[v].run = worker[v].run /\ worker[v].run \in DOMAIN control
                      /\ SameBatches(worker[v].row.head, worker'[v].row.head)
    OBVIOUS
  <2>1. CASE v = w
    BY <1>2, <2>1 DEF Known
  <2>2. CASE v # w
    <3>1. worker'[v] = worker[v] /\ Working(v)
      BY <1>3, <2>2 DEF Working
    <3> QED
      BY <3>1, Facts DEF Inv, SameBatches
  <2> QED
    BY <2>1, <2>2
<1>9. CursorInv'
  <2> SUFFICES ASSUME stream.cursor
               PROVE  /\ 1 .. saved'.point.cursor \subseteq Delivered'
                      /\ \A q \in DOMAIN control' : control'[q].head.run = q => CoversHead(Delivered', control'[q].head)
                      /\ \A v \in Workers : worker'[v].pc \in Extracting =>
                           \A i \in 1 .. worker'[v].read : Covered(Delivered', i, worker'[v].row.head.batches)
    BY <1>3 DEF CursorInv
  <2>1. 1 .. saved'.point.cursor \subseteq Delivered'
    BY <1>1, <1>7 DEF CursorInv
  <2>2. ASSUME NEW q \in DOMAIN control, control'[q].head.run = q PROVE CoversHead(Delivered', control'[q].head)
    <3>1. CoversHead(Delivered, control[q].head) /\ SameBatches(control[q].head, control'[q].head)
      BY <1>1, <1>5, <2>2 DEF CursorInv
    <3>2. KeepsRows(control[q].head, control'[q].head)
      BY <1>6, <3>1
    <3> SUFFICES ASSUME NEW k \in DOMAIN control'[q].head.batches, NEW i \in 1 .. control'[q].head.batches[k].cursor
                 PROVE  Covered(Delivered', i, control'[q].head.batches)
      BY DEF CoversHead
    <3>3. k \in DOMAIN control[q].head.batches /\ i \in 1 .. control[q].head.batches[k].cursor
      BY <3>1 DEF SameBatches
    <3>4. Covered(Delivered, i, control[q].head.batches)
      BY <3>1, <3>3 DEF CoversHead
    <3> QED
      BY <1>7, <3>2, <3>4 DEF Covered, KeepsRows
  <2>3. ASSUME NEW v \in Workers, worker'[v].pc \in Extracting, NEW i \in 1 .. worker'[v].read
        PROVE  Covered(Delivered', i, worker'[v].row.head.batches)
    <3>1. Working(v)'
      BY <2>3 DEF Working, Extracting, Reading
    <3>2. KeepsRows(worker[v].row.head, worker'[v].row.head)
      BY <1>6, <1>8, <3>1
    <3>3. worker[v].pc \in Extracting /\ worker'[v].read = worker[v].read
      BY <1>3, <2>3, <3>1
    <3>4. Covered(Delivered, i, worker[v].row.head.batches)
      BY <1>1, <2>3, <3>3 DEF CursorInv
    <3> QED
      BY <1>7, <3>2, <3>4 DEF Covered, KeepsRows
  <2> QED
    BY <1>3, <2>1, <2>2, <2>3
<1>10. BaselineInv'
  <2> SUFFICES ASSUME stream.insertOnly, NEW q \in DOMAIN control
               PROVE  /\ control'[q].head.baseline \subseteq Delivered'
                      /\ control'[q].head.run # q =>
                           \A k \in DOMAIN control'[q].head.batches :
                               Accepted(control'[q].head.batches[k]) \/ Staged(control'[q].head.batches[k])
                                   => control'[q].head.batches[k].rows \subseteq Delivered'
    BY <1>3 DEF BaselineInv
  <2>1. control'[q].head.baseline \subseteq Delivered'
    BY <1>1, <1>5, <1>7 DEF BaselineInv, SameBatches
  <2>2. control'[q].head.run # q => control'[q].head = control[q].head
    <3>1. CASE q = r
      BY <1>5, <3>1, TruthFacts DEF Stored
    <3>2. CASE q # r
      BY <1>3, <3>2
    <3> QED
      BY <3>1, <3>2
  <2> QED
    BY <1>1, <1>7, <2>1, <2>2 DEF BaselineInv
<1>11. AbortInv'
  <2>1. ASSUME NEW q \in DOMAIN control, control'[q].phase = "aborted", NEW k \in DOMAIN control'[q].head.batches
        PROVE  ~Staged(control'[q].head.batches[k])
    BY <1>1, <1>3, <2>1 DEF AbortInv
  <2>2. ASSUME NEW v \in Workers, Working(v)', control'[worker'[v].run].phase \in AbortSide,
               worker'[v].row.head = control'[worker'[v].run].head,
               NEW k \in DOMAIN worker'[v].row.head.batches, Unresolved(worker'[v].row.head.batches[k])
        PROVE  worker'[v].row.phase \in AbortSide
    <3>1. Working(v) /\ worker'[v].run = worker[v].run /\ worker[v].run \in DOMAIN control
      BY <1>8, <2>2
    <3>2. CASE worker[v].run # r
      <4>1. v # w /\ worker'[v] = worker[v] /\ control'[worker[v].run] = control[worker[v].run]
        BY <1>3, <3>1, <3>2
      <4> QED
        BY <1>1, <2>2, <3>1, <4>1 DEF AbortInv
    <3>3. CASE worker[v].run = r /\ worker'[v].row = new
      BY <2>2, <3>1, <3>3
    <3>4. CASE worker[v].run = r /\ worker'[v].row # new
      <4>1. worker'[v].row = worker[v].row
        BY <1>3, <2>2, <3>4 DEF Known
      <4>2. new.phase \in AbortSide /\ worker[v].row.head = new.head
        BY <2>2, <3>1, <3>4, <4>1
      <4>3. CASE new.head = Stored(w).head /\ Stored(w).phase \in AbortSide
        BY <1>1, <2>2, <3>1, <3>4, <4>1, <4>2, <4>3 DEF AbortInv, Stored
      <4>4. CASE \A j \in DOMAIN new.head.batches : ~Unresolved(new.head.batches[j])
        BY <2>2, <4>1, <4>2, <4>4
      <4>5. CASE \E j \in DOMAIN new.head.batches : new.head.batches[j].status = "cancelled"
        <5>1. PICK j \in DOMAIN new.head.batches : new.head.batches[j].status = "cancelled"
          BY <4>5
        <5>2. new.phase # "new"
          BY <4>2 DEF AbortSide
        <5>3. new.head.run = r
          BY <1>2, <1>3, <5>2 DEF TruthInv, RowInv
        <5>4. TrueRow(stream.asynchronous, r, worker[v].row, remote[r])
          BY <3>1, <3>4, TruthFacts DEF Known
        <5>5. worker[v].row.phase = "aborted"
          BY Zenon, <4>2, <5>1, <5>3, <5>4 DEF TrueRow, TrueBatch
        <5> QED
          BY <4>1, <5>5 DEF AbortSide
      <4> QED
        BY <4>2, <4>3, <4>4, <4>5
    <3> QED
      BY <3>2, <3>3, <3>4
  <2> QED
    BY <1>3, <2>1, <2>2 DEF AbortInv
<1>12. LengthInv'
  <2> SUFFICES ASSUME NEW v \in Workers, Working(v)', worker'[v].row.head.run = worker'[v].run
               PROVE  DOMAIN worker'[v].row.head.batches \subseteq DOMAIN control'[worker'[v].run].head.batches
    BY DEF LengthInv
  <2>1. /\ Working(v) /\ worker'[v].run = worker[v].run /\ worker[v].run \in DOMAIN control
        /\ SameBatches(worker[v].row.head, worker'[v].row.head)
    BY <1>8
  <2>2. DOMAIN worker[v].row.head.batches \subseteq DOMAIN control[worker[v].run].head.batches
    BY Zenon, <1>1, <2>1 DEF LengthInv, SameBatches
  <2> QED
    BY Zenon, <1>5, <2>1, <2>2 DEF SameBatches
<1> QED
  BY <1>7, <1>9, <1>10, <1>11, <1>12 DEF ResumeInv


(* A step that leaves the journal and the saved state alone. *)
LEMMA ResumeLocal ==
    ASSUME Inv, Inv', TruthInv, TruthInv', ResumeInv, NEW w \in Workers, Working(w),
           UNCHANGED <<stream, control, saved>>, Local(w), ProviderKeeps
    PROVE  ResumeInv'
<1>1. OnlyRun(w) /\ control'[worker[w].run] = Stored(w)
  BY DEF OnlyRun, Local, Stored
<1>2. \A h : SameBatches(h, h)
  BY DEF SameBatches
<1>3. Stored(w).phase = "aborted" => \A k \in DOMAIN Stored(w).head.batches : ~Staged(Stored(w).head.batches[k])
  BY Facts DEF Inv, ResumeInv, AbortInv, Stored
<1>4. Working(w)' => /\ worker'[w].run = worker[w].run /\ worker'[w].row = Known(w)
                     /\ worker'[w].pc \in Extracting => worker[w].pc \in Extracting /\ worker'[w].read = worker[w].read
  BY DEF Local, Known
<1> QED
  BY <1>1, <1>2, <1>3, <1>4, ResumeStep

(* A session that is replaced. *)
LEMMA LocalSession ==
    ASSUME Inv, NEW w \in Workers, NEW session, worker' = [worker EXCEPT ![w] = session],
           \/ session = Idle
           \/ /\ session.run = worker[w].run /\ session.row = Known(w)
              /\ session.pc \in Extracting =>
                   worker[w].pc \in Extracting /\ session.read = worker[w].read /\ session.point = worker[w].point
    PROVE  Local(w)
<1>1. worker'[w] = session /\ \A v \in Workers \ {w} : worker'[v] = worker[v]
  BY DEF Inv, TypeInv, WorkerType
<1>2. session = Idle => session.pc = "idle"
  BY DEF Idle
<1> QED
  BY <1>1, <1>2 DEF Local, Working, Known

(* A session that ends, goes on at another step, or goes to the cleanup. *)
LEMMA LocalMoves ==
    ASSUME Inv, NEW w \in Workers, Working(w),
           \/ Stop(w)
           \/ \E pc : Goto(w, pc) /\ (pc \in Extracting => worker[w].pc \in Extracting)
           \/ \E staged : worker' = [worker EXCEPT ![w] = Cleanup(w, staged)]
    PROVE  Local(w)
<1>1. worker[w] \in Sessions
  BY Facts DEF Inv
<1>2. ASSUME NEW pc, worker' = [worker EXCEPT ![w] = [worker[w] EXCEPT !.pc = pc]],
             pc \in Extracting => worker[w].pc \in Extracting
      PROVE  Local(w)
  <2> DEFINE session == [worker[w] EXCEPT !.pc = pc]
  <2>1. /\ session.run = worker[w].run /\ session.row = Known(w) /\ session.pc = pc
        /\ session.read = worker[w].read /\ session.point = worker[w].point
    BY <1>1 DEF Sessions, Known
  <2>2. worker' = [worker EXCEPT ![w] = session]
    BY <1>2
  <2> HIDE DEF session
  <2> QED
    BY <1>2, <2>1, <2>2, LocalSession
<1>3. CASE Stop(w)
  BY <1>3, LocalSession DEF Stop
<1>4. ASSUME NEW pc, Goto(w, pc), pc \in Extracting => worker[w].pc \in Extracting PROVE Local(w)
  <2>1. worker' = [worker EXCEPT ![w] = [worker[w] EXCEPT !.pc = pc]]
    BY <1>4 DEF Goto
  <2> QED
    BY <1>2, <1>4, <2>1
<1>5. ASSUME NEW staged, worker' = [worker EXCEPT ![w] = Cleanup(w, staged)] PROVE Local(w)
  <2>1. "cleanup" \notin Extracting
    BY DEF Extracting, Reading
  <2>2. \/ worker' = [worker EXCEPT ![w] = Idle]
        \/ worker' = [worker EXCEPT ![w] = [worker[w] EXCEPT !.pc = "cleanup"]]
    BY Zenon, <1>5 DEF Cleanup
  <2> QED
    BY <1>2, <2>1, <2>2, LocalSession
<1> QED
  BY <1>3, <1>4, <1>5

(* A call that has no effect on what the provider has taken. *)
LEMMA ProviderStep ==
    ASSUME Inv, NEW r \in Runs, NEW s, remote' = [remote EXCEPT ![r] = s], KeepsDone(remote[r], s)
    PROVE  ProviderKeeps
<1>1. remote'[r] = s /\ \A q \in Runs \ {r} : remote'[q] = remote[q]
  BY DEF Inv, TypeInv, RemoteType
<1> QED
  BY <1>1 DEF ProviderKeeps, KeepsDone

(* No call undoes a delivery: a batch is sent only while the provider has none. *)
LEMMA DoneStays ==
    ASSUME Inv, TruthInv, NEW w \in Workers,
           CallInit(w) \/ CallBatch(w) \/ CallFinish(w) \/ CallAbort(w) \/ RecoverInit(w)
    PROVE  ProviderKeeps
<1> DEFINE r == worker[w].run
           S == remote[r]
<1>1. Working(w)
  BY Zenon DEF CallInit, CallBatch, CallFinish, CallAbort, RecoverInit, Working
<1>2. r \in Runs /\ S \in RemoteRows
  BY <1>1, Facts DEF Inv
<1>3. CASE CallInit(w) \/ RecoverInit(w)
  <2> DEFINE s(x) == [S EXCEPT !.session = x]
  <2>1. PICK x : remote' = [remote EXCEPT ![r] = s(x)]
    BY <1>3 DEF CallInit, RecoverInit
  <2>2. s(x).batch = S.batch
    BY <1>2 DEF RemoteRows
  <2> HIDE DEF s
  <2> QED
    BY <1>2, <2>1, <2>2, ProviderStep DEF KeepsDone
<1>4. CASE CallBatch(w)
  <2> DEFINE k == worker[w].k
             t(x) == [S EXCEPT !.batch[k] = x, !.calls[k] = @ + 1]
  <2>1. /\ TrueReader(worker[w]) /\ TrueProvider(S)
        /\ TrueRow(stream.asynchronous, r, Known(w), S) /\ Known(w).head.run = r /\ worker[w].pc = "call"
    BY Zenon, <1>1, <1>4, TruthFacts DEF TrueSession, Reading, CallBatch
  <2>2. k \in Rows
    BY <2>1 DEF TrueReader, TrueRow, Sending, Known
  <2>3. S.batch[k] = "absent"
    BY <2>1, <2>2 DEF Inv, CallInv, TrueProvider
  <2>4. \A x : [remote EXCEPT ![r].batch[k] = x, ![r].calls[k] = @ + 1] = [remote EXCEPT ![r] = t(x)]
    BY Zenon, <1>2 DEF Inv, TypeInv, RemoteType
  <2>5. PICK x : remote' = [remote EXCEPT ![r].batch[k] = x, ![r].calls[k] = @ + 1]
    BY Zenon, <1>4 DEF CallBatch
  <2>6. \A j \in Rows \ {k} : t(x).batch[j] = S.batch[j]
    BY <1>2 DEF RemoteRows
  <2>7. remote' = [remote EXCEPT ![r] = t(x)]
    BY Zenon, <2>4, <2>5
  <2> HIDE DEF t
  <2>8. KeepsDone(S, t(x))
    BY <2>3, <2>6 DEF KeepsDone
  <2> QED
    BY Zenon, <1>2, <2>7, <2>8, ProviderStep
<1>5. CASE CallFinish(w)
  <2> DEFINE now == [S EXCEPT !.finishes = @ + 1]
             later == [now EXCEPT !.session = "finishing"]
  <2>1. PICK s \in {now, later, FinishedSession(now)} : remote' = [remote EXCEPT ![r] = s]
    BY <1>5 DEF CallFinish
  <2>2. now \in RemoteRows /\ now.batch = S.batch /\ later.batch = S.batch
    BY <1>2 DEF RemoteRows
  <2> HIDE DEF now, later
  <2>3. \A k \in Rows : FinishedSession(now).batch[k] = IF now.batch[k] = "staged" THEN "done" ELSE now.batch[k]
    BY <2>2 DEF FinishedSession, RemoteRows
  <2>4. KeepsDone(S, s)
    BY <2>1, <2>2, <2>3 DEF KeepsDone
  <2> QED
    BY <1>2, <2>1, <2>4, ProviderStep
<1>6. CASE CallAbort(w)
  <2> DEFINE gone == [S EXCEPT !.session = "aborted", !.aborts = 1,
                               !.batch = [k \in Rows |-> IF @[k] = "staged" THEN "absent" ELSE @[k]]]
  <2>1. PICK s \in {S, gone} : remote' = [remote EXCEPT ![r] = s]
    BY <1>6 DEF CallAbort
  <2>2. \A k \in Rows : gone.batch[k] = IF S.batch[k] = "staged" THEN "absent" ELSE S.batch[k]
    BY <1>2 DEF RemoteRows
  <2> HIDE DEF gone
  <2>3. KeepsDone(S, s)
    BY <2>1, <2>2 DEF KeepsDone
  <2> QED
    BY <1>2, <2>1, <2>3, ProviderStep
<1> QED
  BY <1>3, <1>4, <1>5, <1>6

(* The provider calls leave the journal to later steps. *)
LEMMA CallsLocal ==
    ASSUME Inv, NEW w \in Workers, CallInit(w) \/ CallBatch(w) \/ CallFinish(w) \/ CallAbort(w)
    PROVE  Working(w) /\ UNCHANGED <<source, control, saved>> /\ Local(w)
<1>1. Working(w) /\ UNCHANGED <<source, control, saved>>
  BY Zenon DEF CallInit, CallBatch, CallFinish, CallAbort, Working
<1>2. worker[w] \in Sessions /\ WorkerType
  BY <1>1, Facts DEF Inv, TypeInv
<1>3. {"ackFinish", "ackAbort"} \cap Extracting = {} /\ {"init", "call", "ackInit", "mark", "ack"} \subseteq Extracting
  BY DEF Extracting, Reading
<1>4. Local(w)
  <2>1. CASE CallInit(w) \/ CallAbort(w)
    BY <1>1, <1>3, <2>1, LocalMoves DEF CallInit, CallAbort
  <2>2. ASSUME NEW x, NEW pc, worker' = [worker EXCEPT ![w].pc = pc, ![w].result = x],
               pc \in Extracting => worker[w].pc \in Extracting
        PROVE  Local(w)
    <3> DEFINE session == [worker[w] EXCEPT !.pc = pc, !.result = x]
    <3>1. /\ session.run = worker[w].run /\ session.row = Known(w) /\ session.pc = pc
          /\ session.read = worker[w].read /\ session.point = worker[w].point
      BY <1>2 DEF Sessions, Known
    <3>2. worker' = [worker EXCEPT ![w] = session]
      BY <1>2, <2>2 DEF WorkerType
    <3> HIDE DEF session
    <3> QED
      BY <2>2, <3>1, <3>2, LocalSession
  <2>3. CASE CallBatch(w)
    <3>1. worker[w].pc = "call"
      BY Zenon, <2>3 DEF CallBatch
    <3>2. Goto(w, "mark") \/ \E x : worker' = [worker EXCEPT ![w].pc = "ack", ![w].result = x]
      BY Zenon, <2>3 DEF CallBatch
    <3> QED
      BY <1>1, <1>3, <2>2, <3>1, <3>2, LocalMoves
  <2>4. CASE CallFinish(w)
    <3>1. Stop(w) \/ \E x : worker' = [worker EXCEPT ![w].pc = "ackFinish", ![w].result = x]
      BY <2>4 DEF CallFinish
    <3> QED
      BY <1>1, <1>3, <2>2, <3>1, LocalMoves
  <2> QED
    BY <2>1, <2>3, <2>4
<1> QED
  BY <1>1, <1>4

(* The calls keep the invariant. *)
LEMMA CallsResume ==
    ASSUME Inv, Inv', TruthInv, TruthInv', ResumeInv, NEW w \in Workers, UNCHANGED stream,
           CallInit(w) \/ CallBatch(w) \/ CallFinish(w) \/ CallAbort(w)
    PROVE  ResumeInv'
  BY CallsLocal, DoneStays, ResumeLocal

(* Failures. *)
LEMMA FailuresResume ==
    ASSUME Inv, Inv', TruthInv, TruthInv', ResumeInv, NEW w \in Workers, UNCHANGED stream,
           Crash(w) \/ Interrupt(w) \/ PublishRefused(w)
    PROVE  ResumeInv'
<1>1. Working(w) /\ UNCHANGED <<control, saved, remote>>
  BY DEF Crash, Interrupt, PublishRefused, Working
<1>2. Local(w)
  BY <1>1, LocalMoves DEF Crash, Interrupt, PublishRefused
<1>3. ProviderKeeps
  BY <1>1 DEF ProviderKeeps, KeepsDone
<1> QED
  BY <1>1, <1>2, <1>3, ResumeLocal

(* recoverRun(), where it only looks. *)
LEMMA RecoveryLocal ==
    ASSUME Inv, NEW w \in Workers, RecoverFinish(w) \/ RecoverBatch(w) \/ RecoverDecide(w)
    PROVE  Working(w) /\ UNCHANGED <<source, control, saved, remote>> /\ Local(w)
<1>1. Working(w) /\ UNCHANGED <<source, control, saved, remote>> /\ worker[w].pc = "recover"
  BY Zenon DEF RecoverFinish, RecoverBatch, RecoverDecide, Working
<1>2. worker[w] \in Sessions /\ WorkerType
  BY <1>1, Facts DEF Inv, TypeInv
<1>3. ASSUME NEW session, worker' = [worker EXCEPT ![w] = session], session.run = worker[w].run,
             session.row = Known(w),
             session.pc \in {"recover", "ackFinish", "commit", "ackBatch", "abort", "detach", "prepareFinish", "cleanup"}
      PROVE  Local(w)
  BY <1>3, LocalSession DEF Extracting, Reading
<1>4. ASSUME RecoverFinish(w) PROVE Local(w)
  <2> DEFINE answered(x) == [worker[w] EXCEPT !.pc = "ackFinish", !.result = x]
             commits == [worker[w] EXCEPT !.pc = "commit", !.point = FinalPoint(Known(w), Known(w).next)]
  <2>1. /\ \A x : answered(x).pc = "ackFinish" /\ answered(x).run = worker[w].run /\ answered(x).row = Known(w)
        /\ commits.pc = "commit" /\ commits.run = worker[w].run /\ commits.row = Known(w)
    BY <1>2 DEF Sessions, Known
  <2>2. /\ [worker EXCEPT ![w].pc = "ackFinish", ![w].result = "accepted"] = [worker EXCEPT ![w] = answered("accepted")]
        /\ [worker EXCEPT ![w].pc = "commit", ![w].point = FinalPoint(Known(w), Known(w).next)]
               = [worker EXCEPT ![w] = commits]
    BY <1>2 DEF WorkerType
  <2>3. \/ worker' = [worker EXCEPT ![w] = Idle]
        \/ \E x : worker' = [worker EXCEPT ![w] = answered(x)]
        \/ worker' = [worker EXCEPT ![w] = commits]
    BY Zenon, <1>4, <2>2 DEF RecoverFinish
  <2> HIDE DEF answered, commits
  <2> QED
    BY <1>3, <2>1, <2>3, LocalSession
<1>5. ASSUME RecoverBatch(w) PROVE Local(w)
  <2> DEFINE K == Known(w).head.batches
             evidence(k) == BatchEvidence(remote[worker[w].run].batch[k])
             visited(k) == [worker[w] EXCEPT !.seen = @ \cup {k}, !.rejected = @ \/ Rejected(K[k])]
             asks(k) == [visited(k) EXCEPT !.pc = "ackBatch", !.k = k, !.result = evidence(k)]
  <2>1. \A k : /\ visited(k).pc = "recover" /\ visited(k).run = worker[w].run /\ visited(k).row = Known(w)
               /\ asks(k).pc = "ackBatch" /\ asks(k).run = worker[w].run /\ asks(k).row = Known(w)
    BY <1>1, <1>2 DEF Sessions, Known
  <2>2. \/ worker' = [worker EXCEPT ![w] = Idle]
        \/ \E k : worker' = [worker EXCEPT ![w] = visited(k)]
        \/ \E k : worker' = [worker EXCEPT ![w] = asks(k)]
    BY Zenon, <1>5 DEF RecoverBatch, Stop
  <2> HIDE DEF visited, asks
  <2> QED
    BY <1>3, <2>1, <2>2, LocalSession
<1>6. ASSUME RecoverDecide(w) PROVE Local(w)
  <2> DEFINE session(pc, point) == [worker[w] EXCEPT !.pc = pc, !.point = point]
  <2>1. \A pc, point : /\ session(pc, point).pc = pc /\ session(pc, point).run = worker[w].run
                       /\ session(pc, point).row = Known(w)
    BY <1>2 DEF Sessions, Known
  <2>2. \E pc \in {"abort", "detach", "prepareFinish", "cleanup"} : \E point :
            worker' = [worker EXCEPT ![w] = session(pc, point)]
    <3> DEFINE sealed == Known(w).phase = "batches_pending"
               pc == IF Known(w).phase = "abort_prepared" THEN "abort"
                     ELSE IF worker[w].pending /\ (stream.asynchronous \/ sealed) THEN "detach"
                     ELSE IF sealed /\ ~worker[w].rejected THEN "prepareFinish"
                     ELSE "cleanup"
               point == IF pc = "prepareFinish" THEN FinalPoint(Known(w), Known(w).next) ELSE worker[w].point
    <3>1. pc \in {"abort", "detach", "prepareFinish", "cleanup"}
      OBVIOUS
    <3>2. worker' = [worker EXCEPT ![w] = session(pc, point)]
      BY <1>2, <1>6 DEF RecoverDecide, WorkerType
    <3> HIDE DEF pc, point, session
    <3> QED
      BY <3>1, <3>2
  <2> HIDE DEF session
  <2> QED
    BY Zenon, <1>3, <2>1, <2>2
<1> QED
  BY <1>1, <1>4, <1>5, <1>6

(* Looking keeps the invariant. *)
LEMMA RecoveryResume ==
    ASSUME Inv, Inv', TruthInv, TruthInv', ResumeInv, NEW w \in Workers, UNCHANGED stream,
           RecoverFinish(w) \/ RecoverBatch(w) \/ RecoverDecide(w)
    PROVE  ResumeInv'
<1>1. ProviderKeeps
  BY RecoveryLocal DEF ProviderKeeps, KeepsDone
<1> QED
  BY <1>1, RecoveryLocal, ResumeLocal

-----------------------------------------------------------------------------
(* Journal transitions *)

(* A transition of a worker that knows the head of its run. *)
LEMMA ResumePublish ==
    ASSUME Inv, Inv', TruthInv, TruthInv', ResumeInv, NEW w \in Workers, Working(w), UNCHANGED stream, ProviderKeeps,
           NEW new, control' = [control EXCEPT ![worker[w].run] = new],
           Stored(w).head = Known(w).head, SameBatches(Stored(w).head, new.head),
           new.head = Stored(w).head \/ worker[w].pc # "open",
           NEW session, worker' = [worker EXCEPT ![w] = session],
           \/ session = Idle
           \/ /\ session.run = worker[w].run /\ session.row = new
              /\ session.pc \in Extracting => worker[w].pc \in Extracting /\ session.read = worker[w].read,
           new.phase = "aborted" => \A k \in DOMAIN new.head.batches : ~Staged(new.head.batches[k]),
           new.phase \in AbortSide =>
             \/ new.head = Stored(w).head /\ Stored(w).phase \in AbortSide
             \/ \A k \in DOMAIN new.head.batches : ~Unresolved(new.head.batches[k])
             \/ \E k \in DOMAIN new.head.batches : new.head.batches[k].status = "cancelled",
           stream.cursor => saved'.point = saved.point \/ 1 .. saved'.point.cursor \subseteq Delivered
    PROVE  ResumeInv'
<1>1. TypeInv /\ worker[w].run \in DOMAIN control
  BY Facts DEF Inv
<1>2. worker'[w] = session /\ \A v \in Workers \ {w} : worker'[v] = worker[v]
  BY <1>1 DEF TypeInv, WorkerType
<1>3. OnlyRun(w) /\ control'[worker[w].run] = new
  BY <1>1, <1>2 DEF TypeInv, ControlType, OnlyRun
<1>4. session = Idle => session.pc = "idle"
  BY DEF Idle
<1>5. Working(w)' =>
        /\ worker'[w].run = worker[w].run /\ SameBatches(Known(w).head, worker'[w].row.head) /\ worker'[w].row = new
        /\ worker'[w].pc \in Extracting => worker[w].pc \in Extracting /\ worker'[w].read = worker[w].read
  BY <1>2, <1>4 DEF Working
<1> QED
  BY <1>3, <1>5, ResumeStep

(* A transition that leaves the head alone. *)
LEMMA ResumePhase ==
    ASSUME Inv, Inv', TruthInv, TruthInv', ResumeInv, NEW w \in Workers, Working(w), UNCHANGED stream, ProviderKeeps,
           NEW new, control' = [control EXCEPT ![worker[w].run] = new],
           Stored(w).head = Known(w).head, new.head = Stored(w).head,
           NEW session, worker' = [worker EXCEPT ![w] = session],
           \/ session = Idle
           \/ /\ session.run = worker[w].run /\ session.row = new
              /\ session.pc \in Extracting => worker[w].pc \in Extracting /\ session.read = worker[w].read,
           \/ new.phase \notin AbortSide
           \/ new.phase = Stored(w).phase
           \/ /\ new.phase = "abort_prepared"
              /\ \A k \in DOMAIN Known(w).head.batches : ~Unresolved(Known(w).head.batches[k]),
           stream.cursor => saved'.point = saved.point \/ 1 .. saved'.point.cursor \subseteq Delivered
    PROVE  ResumeInv'
<1>1. SameBatches(Stored(w).head, new.head)
  BY DEF SameBatches
<1>2. worker[w].run \in DOMAIN control
  BY Facts DEF Inv
<1>3. new.phase = "aborted" => \A k \in DOMAIN new.head.batches : ~Staged(new.head.batches[k])
  BY <1>2 DEF ResumeInv, AbortInv, AbortSide, Stored
<1> QED
  BY <1>1, <1>3, ResumePublish

(* The initialization. *)
LEMMA InitPhasesResume ==
    ASSUME Inv, Inv', TruthInv, TruthInv', ResumeInv, NEW w \in Workers, UNCHANGED stream,
           PrepareInit(w) \/ AcknowledgeInit(w) \/ RecoverInit(w)
    PROVE  ResumeInv'
<1> DEFINE new(phase) == [Stored(w) EXCEPT !.phase = phase]
           next(pc, phase) == [[worker[w] EXCEPT !.pc = pc] EXCEPT !.row = new(phase)]
<1>1. Working(w) /\ Stored(w).head = Known(w).head /\ UNCHANGED saved
  BY DEF PrepareInit, AcknowledgeInit, RecoverInit, Working, Publishable, Stored, Known
<1>2. worker[w] \in Sessions /\ Stored(w) \in ControlRows
  BY <1>1, Facts DEF Inv
<1>3. \A phase : new(phase).head = Stored(w).head /\ new(phase).phase = phase
  BY <1>2 DEF ControlRows
<1>4. \A pc, phase : /\ next(pc, phase).run = worker[w].run /\ next(pc, phase).row = new(phase)
                     /\ next(pc, phase).read = worker[w].read
  BY <1>2 DEF Sessions
<1>5. \/ /\ control' = [control EXCEPT ![worker[w].run] = new("init_prepared")]
         /\ worker' = [worker EXCEPT ![w] = next("init", "init_prepared")] /\ worker[w].pc = "start"
      \/ /\ control' = [control EXCEPT ![worker[w].run] = new("running")]
         /\ worker' = [worker EXCEPT ![w] = next("read", "running")] /\ worker[w].pc = "ackInit"
      \/ /\ control' = [control EXCEPT ![worker[w].run] = new("new")]
         /\ worker' = [worker EXCEPT ![w] = Idle]
  BY DEF PrepareInit, AcknowledgeInit, RecoverInit, Publish, Stop, Stored
<1>6. ProviderKeeps
  BY DoneStays DEF PrepareInit, AcknowledgeInit, ProviderKeeps, KeepsDone
<1>7. {"init_prepared", "running", "new"} \cap AbortSide = {} /\ {"start", "ackInit"} \subseteq Extracting
  BY DEF AbortSide, Extracting
<1> HIDE DEF new, next
<1> QED
  BY <1>1, <1>3, <1>4, <1>5, <1>6, <1>7, ResumePhase

(* sealExtraction() and prepareFinish() *)
LEMMA SealingResume ==
    ASSUME Inv, Inv', TruthInv, TruthInv', ResumeInv, NEW w \in Workers, UNCHANGED stream,
           SealExtraction(w) \/ PrepareFinish(w)
    PROVE  ResumeInv'
<1> DEFINE sealed == [Stored(w) EXCEPT !.phase = "batches_pending"]
           finish == [Stored(w) EXCEPT !.phase = "finish_prepared", !.finish = worker[w].point.seq]
           next(pc, new) == [[worker[w] EXCEPT !.pc = pc] EXCEPT !.row = new]
<1>1. Working(w) /\ UNCHANGED <<saved, remote>>
  BY DEF SealExtraction, PrepareFinish, Working
<1>2. worker[w] \in Sessions /\ Stored(w) \in ControlRows
  BY <1>1, Facts DEF Inv
<1>3. /\ sealed.head = Stored(w).head /\ sealed.phase = "batches_pending"
      /\ finish.head = Stored(w).head /\ finish.phase = "finish_prepared"
  BY <1>2 DEF ControlRows
<1>4. \A pc, new : next(pc, new).run = worker[w].run /\ next(pc, new).row = new /\ next(pc, new).pc = pc
  BY <1>2 DEF Sessions
<1>5. ProviderKeeps
  BY <1>1 DEF ProviderKeeps, KeepsDone
<1>6. {"batches_pending", "finish_prepared"} \cap AbortSide = {} /\ {"detach", "prepareFinish", "finish"} \cap Extracting = {}
  BY DEF AbortSide, Extracting, Reading
<1>7. CASE /\ UNCHANGED control
           /\ worker' = [worker EXCEPT ![w] = Idle] \/ worker' = [worker EXCEPT ![w] = Cleanup(w, worker[w].staged)]
  <2>1. Local(w)
    BY <1>1, <1>7, LocalMoves DEF Stop
  <2> QED
    BY <1>1, <1>5, <1>7, <2>1, ResumeLocal
<1>8. CASE /\ Stored(w).head = Known(w).head
           /\ control' = [control EXCEPT ![worker[w].run] = sealed]
           /\ \E pc \in {"detach", "prepareFinish"} : worker' = [worker EXCEPT ![w] = next(pc, sealed)]
  <2>1. PICK pc \in {"detach", "prepareFinish"} : worker' = [worker EXCEPT ![w] = next(pc, sealed)]
    BY <1>8
  <2>2. /\ next(pc, sealed).run = worker[w].run /\ next(pc, sealed).row = sealed
        /\ next(pc, sealed).pc \notin Extracting
    BY <1>4, <1>6
  <2> HIDE DEF sealed, next
  <2> QED
    BY <1>1, <1>3, <1>5, <1>6, <1>8, <2>1, <2>2, ResumePhase
<1>9. CASE /\ Stored(w).head = Known(w).head
           /\ control' = [control EXCEPT ![worker[w].run] = finish]
           /\ worker' = [worker EXCEPT ![w] = next("finish", finish)]
  <2>1. /\ next("finish", finish).run = worker[w].run /\ next("finish", finish).row = finish
        /\ next("finish", finish).pc \notin Extracting
    BY <1>4, <1>6
  <2> HIDE DEF finish, next
  <2> QED
    BY <1>1, <1>3, <1>5, <1>6, <1>9, <2>1, ResumePhase
<1> QED
  BY <1>7, <1>8, <1>9 DEF SealExtraction, PrepareFinish, Publish, Publishable, Stored, Known

(* Detach, and the preparation of an abort: every batch has an outcome. *)
LEMMA DetachResume ==
    ASSUME Inv, Inv', TruthInv, TruthInv', ResumeInv, NEW w \in Workers, UNCHANGED stream,
           Detach(w) \/ PrepareAbort(w)
    PROVE  ResumeInv'
<1> DEFINE detached == [Stored(w) EXCEPT !.detached = TRUE]
           abort == [Stored(w) EXCEPT !.phase = "abort_prepared"]
           next == [[worker[w] EXCEPT !.pc = "abort"] EXCEPT !.row = abort]
<1>1. Working(w) /\ UNCHANGED <<saved, remote>>
  BY DEF Detach, PrepareAbort, Working
<1>2. worker[w] \in Sessions /\ Stored(w) \in ControlRows
  BY <1>1, Facts DEF Inv
<1>3. /\ detached.head = Stored(w).head /\ detached.phase = Stored(w).phase
      /\ abort.head = Stored(w).head /\ abort.phase = "abort_prepared"
      /\ next.run = worker[w].run /\ next.row = abort /\ next.pc = "abort"
  BY <1>2 DEF ControlRows, Sessions
<1>5. ProviderKeeps
  BY <1>1 DEF ProviderKeeps, KeepsDone
<1>6. "abort" \notin Extracting
  BY DEF Extracting, Reading
<1>7. CASE UNCHANGED control /\ Stop(w)
  BY <1>1, <1>5, <1>7, LocalMoves, ResumeLocal
<1>8. CASE /\ Stored(w).head = Known(w).head /\ Stop(w)
           /\ control' = [control EXCEPT ![worker[w].run] = detached]
  <2> HIDE DEF detached
  <2> QED
    BY <1>1, <1>3, <1>5, <1>8, ResumePhase DEF Stop
<1>9. CASE /\ Stored(w).head = Known(w).head
           /\ \A k \in DOMAIN Known(w).head.batches : ~Unresolved(Known(w).head.batches[k])
           /\ control' = [control EXCEPT ![worker[w].run] = abort]
           /\ worker' = [worker EXCEPT ![w] = next]
  <2> HIDE DEF abort, next
  <2> QED
    BY <1>1, <1>3, <1>5, <1>6, <1>9, ResumePhase
<1> QED
  BY <1>7, <1>8, <1>9 DEF Detach, PrepareAbort, Publish, Publishable, Stored, Known, Batch

(* The cursor of a run whose batches are all accepted has passed no row that is *)
(* not delivered.                                                               *)
LEMMA PointIsDelivered ==
    ASSUME Inv, TruthInv, ResumeInv, NEW w \in Workers, worker[w].pc \notin {"idle", "open"},
           Stored(w).head = Known(w).head, stream.cursor, NEW n,
           \A k \in DOMAIN Known(w).head.batches : Accepted(Known(w).head.batches[k])
    PROVE  1 .. FinalPoint(Known(w), n).cursor \subseteq Delivered
<1> DEFINE r == worker[w].run
           K == Known(w).head.batches
<1>1. Working(w) /\ r \in DOMAIN control
  BY Facts DEF Working, Inv
<1>2. Stored(w).head.run = r /\ TrueRow(stream.asynchronous, r, Stored(w), remote[r])
  BY <1>1, TruthFacts
<1>3. \A k \in DOMAIN K : k \in Rows /\ remote[r].batch[k] = "done"
  BY <1>2 DEF TrueRow, TrueBatch
<1>4. \A k \in DOMAIN K : K[k].rows \subseteq Delivered
  BY <1>1, <1>2, <1>3, DoneIsDelivered DEF Stored
<1>5. CoversHead(Delivered, Known(w).head)
  BY <1>1, <1>2 DEF ResumeInv, CursorInv, Stored
<1>6. \A k \in DOMAIN K : 1 .. K[k].cursor \subseteq Delivered
  BY <1>4, <1>5 DEF CoversHead, Covered
<1>7. CASE \E b \in Batch(K) : b.last = n
  <2> DEFINE b == CHOOSE x \in Batch(K) : x.last = n
  <2>1. b \in Batch(K)
    BY <1>7
  <2>2. PICK k \in DOMAIN K : b = K[k]
    BY <2>1 DEF Batch
  <2>3. FinalPoint(Known(w), n).cursor = b.cursor
    BY <1>7 DEF FinalPoint
  <2> HIDE DEF b
  <2> QED
    BY <1>6, <2>2, <2>3
<1>8. CASE ~ \E b \in Batch(K) : b.last = n
  <2>1. FinalPoint(Known(w), n).cursor = saved.point.cursor
    BY <1>8 DEF FinalPoint
  <2> QED
    BY <2>1 DEF ResumeInv, CursorInv
<1> QED
  BY <1>7, <1>8

(* commitCheckpoint(), between batches and of the whole run. *)
LEMMA CheckpointResume ==
    ASSUME Inv, Inv', TruthInv, TruthInv', ResumeInv, NEW w \in Workers, UNCHANGED stream,
           Checkpoint(w) \/ CommitComplete(w)
    PROVE  ResumeInv'
<1> DEFINE point == worker[w].point
           r == worker[w].run
           new == [Stored(w) EXCEPT !.checkpoint = point.seq]
           next == [[worker[w] EXCEPT !.pc = "read", !.since = 0] EXCEPT !.row = new]
           done == [Stored(w) EXCEPT !.checkpoint = point.seq, !.phase = "complete"]
<1>1. Working(w) /\ UNCHANGED remote /\ worker[w].pc \notin {"idle", "open"}
  BY DEF Checkpoint, CommitComplete, Working
<1>2. worker[w] \in Sessions /\ Stored(w) \in ControlRows /\ r \in DOMAIN control /\ TypeInv
  BY <1>1, Facts DEF Inv
<1>3. /\ new.head = Stored(w).head /\ new.phase = Stored(w).phase
      /\ done.head = Stored(w).head /\ done.phase = "complete"
  BY <1>2 DEF ControlRows
<1>4. next.run = r /\ next.row = new /\ next.pc = "read" /\ next.read = worker[w].read
  BY <1>2 DEF Sessions
<1>5. ProviderKeeps /\ "complete" \notin AbortSide
  BY <1>1 DEF ProviderKeeps, KeepsDone, AbortSide
<1>6. \/ worker' = [worker EXCEPT ![w] = Idle] /\ UNCHANGED <<control, saved>>
      \/ worker' = [worker EXCEPT ![w] = Cleanup(w, worker[w].staged)] /\ UNCHANGED <<control, saved>>
      \/ /\ worker[w].pc = "checkpoint" /\ Checkpointable(w, point, FALSE) /\ Stored(w).head = Known(w).head
         /\ control' = [control EXCEPT ![r] = new] /\ worker' = [worker EXCEPT ![w] = next]
         /\ saved' = Merged(point, r)
      \/ /\ Checkpointable(w, point, TRUE) /\ Stored(w).head = Known(w).head
         /\ control' = [control EXCEPT ![r].checkpoint = point.seq, ![r].phase = "complete"]
         /\ worker' = [worker EXCEPT ![w] = Idle]
         /\ saved' = Merged(point, r)
  BY DEF Checkpoint, CommitComplete, Publish, Publishable, Stop, Stored, Known
<1>7. saved' = Merged(point, r) => saved'.point \in {point, saved.point}
  BY DEF Merged
<1>8. ASSUME Stored(w).head = Known(w).head, stream.cursor, point.cursor = FinalPoint(Known(w), point.seq).cursor,
             \A k \in DOMAIN Known(w).head.batches : Accepted(Known(w).head.batches[k]), saved' = Merged(point, r)
      PROVE  saved'.point = saved.point \/ 1 .. saved'.point.cursor \subseteq Delivered
  BY <1>1, <1>7, <1>8, PointIsDelivered
<1>9. CASE /\ worker[w].pc = "checkpoint" /\ Checkpointable(w, point, FALSE) /\ Stored(w).head = Known(w).head
           /\ control' = [control EXCEPT ![r] = new] /\ worker' = [worker EXCEPT ![w] = next]
           /\ saved' = Merged(point, r)
  <2>1. TrueReader(worker[w])
    BY <1>1, <1>9, TruthFacts DEF TrueSession, Reading
  <2>2. \A k \in DOMAIN Known(w).head.batches : Accepted(Known(w).head.batches[k])
    BY <1>9, <2>1 DEF TrueReader, Sending, Known
  <2>3. point.cursor = FinalPoint(Known(w), point.seq).cursor
    BY <1>9 DEF Checkpointable
  <2>4. stream.cursor => saved'.point = saved.point \/ 1 .. saved'.point.cursor \subseteq Delivered
    BY <1>8, <1>9, <2>2, <2>3
  <2>5. worker[w].pc \in Extracting
    BY <1>9 DEF Extracting, Reading
  <2> HIDE DEF new, next, point
  <2> QED
    BY <1>1, <1>3, <1>4, <1>5, <1>9, <2>4, <2>5, ResumePhase
<1>10. CASE /\ Checkpointable(w, point, TRUE) /\ Stored(w).head = Known(w).head
            /\ control' = [control EXCEPT ![r].checkpoint = point.seq, ![r].phase = "complete"]
            /\ worker' = [worker EXCEPT ![w] = Idle]
            /\ saved' = Merged(point, r)
  <2>1. /\ Known(w).phase = "finish_accepted" /\ point.cursor = FinalPoint(Known(w), point.seq).cursor
    BY <1>10 DEF Checkpointable
  <2>2. TrueRow(stream.asynchronous, r, Known(w), remote[r]) /\ Known(w).head.run = r
    BY <1>1, TruthFacts
  <2>3. \A k \in DOMAIN Known(w).head.batches : Accepted(Known(w).head.batches[k])
    BY <2>1, <2>2 DEF TrueRow, TrueBatch
  <2>4. stream.cursor => saved'.point = saved.point \/ 1 .. saved'.point.cursor \subseteq Delivered
    BY <1>8, <1>10, <2>1, <2>3
  <2>5. control' = [control EXCEPT ![r] = done]
    BY <1>2, <1>10 DEF Stored, TypeInv, ControlType
  <2>6. Stored(w).head = Known(w).head /\ worker' = [worker EXCEPT ![w] = Idle]
    BY <1>10
  <2> HIDE DEF done, point
  <2>7. done.head = Stored(w).head /\ done.phase \notin AbortSide
    BY <1>3, <1>5
  <2> QED
    BY <1>1, <1>5, <2>4, <2>5, <2>6, <2>7, ResumePhase
<1>11. CASE \/ worker' = [worker EXCEPT ![w] = Idle] /\ UNCHANGED <<control, saved>>
            \/ worker' = [worker EXCEPT ![w] = Cleanup(w, worker[w].staged)] /\ UNCHANGED <<control, saved>>
  BY <1>1, <1>5, <1>11, LocalMoves, ResumeLocal DEF Stop
<1> QED
  BY <1>6, <1>9, <1>10, <1>11

-----------------------------------------------------------------------------
(* Receipts *)

(* A receipt leaves the rows and the cursors alone. *)
LEMMA ReceiptSame ==
    ASSUME NEW row \in ControlRows, NEW k \in DOMAIN row.head.batches,
           NEW out \in {"none", "accepted", "staged", "rejected"}
    PROVE  SameBatches(row.head, WithReceipt(row, k, out).head)
<1> DEFINE old == row.head.batches
           batch == [old[k] EXCEPT !.status = "acknowledged", !.out = out]
           batches == [old EXCEPT ![k] = batch]
           head == [row.head EXCEPT !.batches = batches]
<1>1. row.head \in Heads /\ old \in Seq(Batches)
  BY DEF ControlRows, Heads
<1>2. batch.rows = old[k].rows /\ batch.cursor = old[k].cursor
  <2>1. old[k] \in Batches
    BY <1>1
  <2> QED
    BY <2>1 DEF Batches
<1>3. DOMAIN batches = DOMAIN old /\ batches[k] = batch /\ \A j \in DOMAIN old \ {k} : batches[j] = old[j]
  BY <1>1
<1>4. head.batches = batches /\ head.run = row.head.run /\ head.baseline = row.head.baseline
  BY <1>1 DEF Heads
<1>5. WithReceipt(row, k, out) = [row EXCEPT !.head = head]
  BY DEF WithReceipt
<1>6. [row EXCEPT !.head = head].head = head
  BY DEF ControlRows
<1> HIDE DEF batch, batches, head
<1>7. SameBatches(row.head, head)
  BY <1>2, <1>3, <1>4 DEF SameBatches
<1> QED
  BY <1>5, <1>6, <1>7

(* A receipt for a batch that is unresolved or staged, by a worker that does   *)
(* not know of an abort: if there is one, all other batches are settled.        *)
LEMMA ReceiptResume ==
    ASSUME Inv, Inv', TruthInv, TruthInv', ResumeInv, NEW w \in Workers, worker[w].pc \notin {"idle", "open"},
           UNCHANGED <<stream, saved, remote>>, Stored(w).head = Known(w).head, Known(w).phase \notin AbortSide,
           NEW k \in DOMAIN Known(w).head.batches, NEW out \in {"accepted", "staged", "rejected"},
           Unresolved(Known(w).head.batches[k]) \/ Staged(Known(w).head.batches[k]),
           NEW new, new = WithReceipt(Stored(w), k, out), control' = [control EXCEPT ![worker[w].run] = new],
           NEW session, worker' = [worker EXCEPT ![w] = session],
           \/ session = Idle
           \/ /\ session.run = worker[w].run /\ session.row = new
              /\ session.pc \in Extracting => worker[w].pc \in Extracting /\ session.read = worker[w].read
    PROVE  ResumeInv'
<1> DEFINE K == Known(w).head.batches
<1>1. Working(w)
  BY DEF Working
<1>2. Stored(w) \in ControlRows /\ worker[w].run \in DOMAIN control
  BY <1>1, Facts DEF Inv
<1>3. SameBatches(Stored(w).head, new.head)
  BY <1>2, ReceiptSame
<1>4. /\ DOMAIN new.head.batches = DOMAIN K /\ new.head.batches[k].status = "acknowledged"
      /\ \A j \in DOMAIN K \ {k} : new.head.batches[j] = K[j]
  BY <1>2, ReceiptBatch
<1>5. new.phase = Stored(w).phase
  BY <1>2, ReceiptRow
<1>6. Stored(w).phase \in AbortSide => \A j \in DOMAIN K : ~Unresolved(K[j])
  BY <1>1 DEF ResumeInv, AbortInv, Stored, Known
<1>7. Stored(w).phase # "aborted"
  <2>1. Stored(w).phase = "aborted" => ~Staged(K[k])
    BY <1>2 DEF ResumeInv, AbortInv, Stored
  <2> QED
    BY <1>6, <2>1 DEF AbortSide
<1>8. new.phase \in AbortSide => \A j \in DOMAIN new.head.batches : ~Unresolved(new.head.batches[j])
  <2>1. ~Unresolved(new.head.batches[k])
    BY <1>4 DEF Unresolved
  <2> QED
    BY <1>4, <1>5, <1>6, <2>1
<1>9. ProviderKeeps
  BY DEF ProviderKeeps, KeepsDone
<1> QED
  BY <1>1, <1>3, <1>5, <1>7, <1>8, <1>9, ResumePublish

(* markUnknown(): whoever has the batch under way knows of no abort, so there is none. *)
LEMMA MarkUnknownResume ==
    ASSUME Inv, Inv', TruthInv, TruthInv', ResumeInv, NEW w \in Workers, UNCHANGED stream, MarkUnknown(w)
    PROVE  ResumeInv'
<1> DEFINE r == worker[w].run
           k == worker[w].k
           row == Stored(w)
           old == row.head.batches
           batch == [old[k] EXCEPT !.status = "unknown"]
           batches == [old EXCEPT ![k] = batch]
           head == [row.head EXCEPT !.batches = batches]
           new == [row EXCEPT !.head = head]
<1>1. worker[w].pc = "mark" /\ Working(w) /\ TypeInv /\ UNCHANGED <<saved, remote>> /\ worker' = [worker EXCEPT ![w] = Idle]
  BY DEF MarkUnknown, Working, Inv, Stop
<1>2. row \in ControlRows /\ row.head \in Heads /\ old \in Seq(Batches) /\ r \in DOMAIN control
  BY <1>1, Facts
<1>3. TrueReader(worker[w])
  BY <1>1, TruthFacts DEF TrueSession, Reading
<1>4. ProviderKeeps
  BY <1>1 DEF ProviderKeeps, KeepsDone
<1>5. CASE /\ row.head = Known(w).head /\ Known(w).phase = "running"
           /\ control' = [control EXCEPT ![r].head.batches[k].status = "unknown"]
  <2>1. k \in DOMAIN old /\ Unresolved(old[k])
    BY Zenon, <1>1, <1>3, <1>5 DEF TrueReader, Sending, Known, Unresolved
  <2>2. batch.rows = old[k].rows /\ batch.cursor = old[k].cursor
    <3>1. old[k] \in Batches
      BY <1>2, <2>1
    <3> QED
      BY <3>1 DEF Batches
  <2>3. DOMAIN batches = DOMAIN old /\ batches[k] = batch /\ \A j \in DOMAIN old \ {k} : batches[j] = old[j]
    BY <1>2, <2>1
  <2>4. head.batches = batches /\ head.run = row.head.run /\ head.baseline = row.head.baseline
    BY <1>2 DEF Heads
  <2>5. new.head = head /\ new.phase = row.phase
    BY <1>2 DEF ControlRows
  <2>6. control' = [control EXCEPT ![r] = new]
    BY <1>1, <1>2, <1>5 DEF TypeInv, ControlType, Stored
  <2>7. row.phase \notin AbortSide
    <3>1. row.phase \in AbortSide => Known(w).phase \in AbortSide
      BY <1>1, <1>5, <2>1 DEF ResumeInv, AbortInv, Stored, Known
    <3> QED
      BY <1>5, <3>1 DEF AbortSide
  <2> HIDE DEF batch, batches, head, new
  <2>8. SameBatches(row.head, new.head)
    BY <2>2, <2>3, <2>4, <2>5 DEF SameBatches
  <2>9. new.phase \notin AbortSide /\ new.phase # "aborted"
    BY <2>5, <2>7 DEF AbortSide
  <2>10. row.head = Known(w).head
    BY <1>5
  <2> QED
    BY Zenon, <1>1, <1>4, <2>6, <2>8, <2>9, <2>10, ResumePublish
<1>6. CASE UNCHANGED control
  BY <1>1, <1>4, <1>6, LocalMoves, ResumeLocal DEF Stop
<1> QED
  BY <1>5, <1>6 DEF MarkUnknown, Publishable, Stored, Known

(* acknowledge() *)
LEMMA AcknowledgeResume ==
    ASSUME Inv, Inv', TruthInv, TruthInv', ResumeInv, NEW w \in Workers, UNCHANGED stream, Acknowledge(w)
    PROVE  ResumeInv'
<1> DEFINE r == worker[w].run
           k == worker[w].k
           out == worker[w].result
           staged == worker[w].staged \/ out = "staged"
           receipt == WithReceipt(Stored(w), k, out)
           due == worker[w].since >= CheckpointEvery
           pc == IF due /\ stream.cursor /\ ~staged THEN "checkpoint" ELSE "read"
           failed(new) == [worker[w] EXCEPT !.pc = "cleanup", !.row = new]
           goes(new) == [worker[w] EXCEPT !.pc = pc, !.row = new, !.staged = staged,
                                          !.since = IF due /\ pc = "read" THEN 0 ELSE @]
<1>1. worker[w].pc = "ack" /\ Working(w) /\ UNCHANGED <<saved, remote>>
  BY DEF Acknowledge, Working
<1>2. worker[w] \in Sessions
  BY <1>1, Facts DEF Inv
<1>3. TrueReader(worker[w]) /\ TrueResult(stream.asynchronous, worker[w], remote[r])
  BY <1>1, TruthFacts DEF TrueSession, Reading
<1>4. /\ k \in DOMAIN Known(w).head.batches /\ out \in {"accepted", "staged", "rejected"}
      /\ Unresolved(Known(w).head.batches[k])
  BY <1>1, <1>3 DEF TrueReader, TrueResult, Sending, Known, Unresolved
<1>5. \A new : failed(new).run = r /\ failed(new).row = new /\ failed(new).pc = "cleanup"
  BY <1>2 DEF Sessions
<1>6. \A new : goes(new).run = r /\ goes(new).row = new /\ goes(new).read = worker[w].read
  BY <1>2 DEF Sessions
<1>7. worker[w].pc \in Extracting /\ "cleanup" \notin Extracting /\ "running" \notin AbortSide
  BY <1>1 DEF Extracting, Reading, AbortSide
<1>8. CASE Stop(w) /\ UNCHANGED control
  <2>1. ProviderKeeps
    BY <1>1 DEF ProviderKeeps, KeepsDone
  <2> QED
    BY <1>1, <1>8, <2>1, LocalMoves, ResumeLocal
<1>9. ASSUME Stored(w).head = Known(w).head, Known(w).phase = "running", NEW new, new = receipt,
             control' = [control EXCEPT ![r] = new],
             \/ worker' = [worker EXCEPT ![w] = Idle]
             \/ worker' = [worker EXCEPT ![w] = failed(new)]
             \/ worker' = [worker EXCEPT ![w] = goes(new)]
      PROVE  ResumeInv'
  <2>1. PICK session : /\ worker' = [worker EXCEPT ![w] = session]
                       /\ \/ session = Idle
                          \/ /\ session.run = r /\ session.row = new
                             /\ session.pc \in Extracting => session.read = worker[w].read
    <3> HIDE DEF failed, goes
    <3>1. CASE worker' = [worker EXCEPT ![w] = Idle]
      BY <3>1
    <3>2. CASE worker' = [worker EXCEPT ![w] = failed(new)]
      BY Zenon, <1>5, <1>7, <3>2
    <3>3. CASE worker' = [worker EXCEPT ![w] = goes(new)]
      <4>1. goes(new).run = r /\ goes(new).row = new /\ goes(new).read = worker[w].read
        BY <1>6
      <4> WITNESS goes(new)
      <4> QED
        BY <3>3, <4>1
    <3> QED
      BY <1>9, <3>1, <3>2, <3>3
  <2>2. /\ new = WithReceipt(Stored(w), k, out) /\ control' = [control EXCEPT ![r] = new]
        /\ Stored(w).head = Known(w).head /\ Known(w).phase \notin AbortSide
    BY <1>7, <1>9
  <2>3. /\ worker' = [worker EXCEPT ![w] = session]
        /\ \/ session = Idle
           \/ /\ session.run = r /\ session.row = new
              /\ session.pc \in Extracting => worker[w].pc \in Extracting /\ session.read = worker[w].read
    BY <1>7, <2>1
  <2>4. worker[w].pc \notin {"idle", "open"}
    BY <1>1
  <2> HIDE DEF k, out
  <2> QED
    BY <1>1, <1>4, <2>2, <2>3, <2>4, ReceiptResume
<1>10. \/ Stop(w) /\ UNCHANGED control
       \/ /\ Stored(w).head = Known(w).head /\ Known(w).phase = "running"
          /\ control' = [control EXCEPT ![r] = receipt]
          /\ \/ worker' = [worker EXCEPT ![w] = Idle]
             \/ worker' = [worker EXCEPT ![w] = failed(receipt)]
             \/ worker' = [worker EXCEPT ![w] = goes(receipt)]
  <2>1. CASE Stop(w) /\ UNCHANGED control
    BY <2>1
  <2>2. CASE /\ Known(w).phase = "running" /\ Publishable(w, "any") /\ control' = [control EXCEPT ![r] = receipt]
             /\ worker' = [worker EXCEPT ![w] =
                  IF out = "rejected"
                  THEN IF stream.asynchronous /\ worker[w].staged THEN Idle ELSE failed(receipt)
                  ELSE goes(receipt)]
    <3> HIDE DEF failed, goes, receipt
    <3>1. Stored(w).head = Known(w).head
      BY <2>2 DEF Publishable, Stored, Known
    <3> QED
      BY <2>2, <3>1
  <2> QED
    BY <2>1, <2>2 DEF Acknowledge
<1> HIDE DEF failed, goes, receipt
<1> QED
  BY <1>8, <1>9, <1>10

(* acknowledgeRecovered() *)
LEMMA AcknowledgeRecoveredResume ==
    ASSUME Inv, Inv', TruthInv, TruthInv', ResumeInv, NEW w \in Workers, UNCHANGED stream, AcknowledgeRecovered(w)
    PROVE  ResumeInv'
<1> DEFINE r == worker[w].run
           k == worker[w].k
           out == worker[w].result
           session == [worker[w] EXCEPT !.pc = "recover", !.pending = @ \/ out = "staged"]
<1>1. worker[w].pc = "ackBatch" /\ Working(w) /\ UNCHANGED <<saved, remote>>
  BY DEF AcknowledgeRecovered, Working
<1>2. worker[w] \in Sessions
  BY <1>1, Facts DEF Inv
<1>3. TrueSession(stream.asynchronous, worker[w], remote[r])
  BY <1>1, TruthFacts
<1>4. /\ k \in DOMAIN Known(w).head.batches /\ out \in {"accepted", "staged", "rejected"}
      /\ Unresolved(Known(w).head.batches[k]) \/ Staged(Known(w).head.batches[k])
      /\ Known(w).phase \notin AbortSide
  BY <1>1, <1>3 DEF TrueSession, TrueResult, Known, AbortSide
<1>5. session.pc = "recover" /\ session.run = r /\ session.row = Known(w) /\ "recover" \notin Extracting
  BY <1>2 DEF Sessions, Known, Extracting, Reading
<1>6. CASE worker' = [worker EXCEPT ![w] = session] /\ UNCHANGED control
  <2>1. ProviderKeeps
    BY <1>1 DEF ProviderKeeps, KeepsDone
  <2> HIDE DEF session
  <2>2. Local(w)
    BY <1>5, <1>6, LocalSession
  <2> QED
    BY <1>1, <1>6, <2>1, <2>2, ResumeLocal
<1>7. ASSUME Stored(w).head = Known(w).head, NEW new, new = WithReceipt(Stored(w), k, out),
             control' = [control EXCEPT ![r] = new],
             \/ worker' = [worker EXCEPT ![w] = Idle]
             \/ worker' = [worker EXCEPT ![w] = [session EXCEPT !.row = new]]
      PROVE  ResumeInv'
  <2> DEFINE next == [session EXCEPT !.row = new]
  <2>1. next.pc = "recover" /\ next.run = r /\ next.row = new
    BY <1>2 DEF Sessions
  <2>2. worker' = [worker EXCEPT ![w] = Idle] \/ worker' = [worker EXCEPT ![w] = next]
    BY <1>7
  <2> HIDE DEF next, session, k, out
  <2>3. CASE worker' = [worker EXCEPT ![w] = Idle]
    BY <1>1, <1>4, <1>7, <2>3, ReceiptResume
  <2>4. CASE worker' = [worker EXCEPT ![w] = next]
    <3>1. next.pc \notin Extracting
      BY <1>5, <2>1
    <3>2. /\ new = WithReceipt(Stored(w), k, out) /\ control' = [control EXCEPT ![r] = new]
          /\ Stored(w).head = Known(w).head /\ worker[w].pc \notin {"idle", "open"}
      BY <1>1, <1>7
    <3> QED
      BY <1>1, <1>4, <2>1, <2>4, <3>1, <3>2, ReceiptResume
  <2> QED
    BY <2>2, <2>3, <2>4
<1>8. \/ worker' = [worker EXCEPT ![w] = session] /\ UNCHANGED control
      \/ /\ Stored(w).head = Known(w).head /\ control' = [control EXCEPT ![r] = WithReceipt(Stored(w), k, out)]
         /\ \/ worker' = [worker EXCEPT ![w] = Idle]
            \/ worker' = [worker EXCEPT ![w] = [session EXCEPT !.row = WithReceipt(Stored(w), k, out)]]
  BY DEF AcknowledgeRecovered, Publishable, Stored, Known
<1> HIDE DEF session
<1> QED
  BY <1>6, <1>7, <1>8

(* finish(): the receipt of the finish, and the staged batches one by one. *)
LEMMA FinishReceiptsResume ==
    ASSUME Inv, Inv', TruthInv, TruthInv', ResumeInv, NEW w \in Workers, UNCHANGED stream,
           AcknowledgeFinish(w) \/ ResolveFinish(w)
    PROVE  ResumeInv'
<1> DEFINE r == worker[w].run
           K == Known(w).head.batches
<1>1. worker[w].pc \in {"ackFinish", "resolve"} /\ Working(w) /\ UNCHANGED <<saved, remote>>
  BY DEF AcknowledgeFinish, ResolveFinish, Working
<1>2. worker[w] \in Sessions /\ Stored(w) \in ControlRows
  BY <1>1, Facts DEF Inv
<1>3. Known(w).phase \notin AbortSide
  BY <1>1 DEF Inv, SideInv, Known, FinishSide, AbortSide
<1>4. ProviderKeeps /\ {"detach", "resolve", "commit"} \cap Extracting = {}
  BY <1>1 DEF ProviderKeeps, KeepsDone, Extracting, Reading
<1>5. CASE AcknowledgeFinish(w)
  <2> DEFINE new(phase) == [Stored(w) EXCEPT !.phase = phase]
             next(pc, phase) == [[worker[w] EXCEPT !.pc = pc] EXCEPT !.row = new(phase)]
  <2>1. \A phase : new(phase).head = Stored(w).head /\ new(phase).phase = phase
    BY <1>2 DEF ControlRows
  <2>2. \A pc, phase : /\ next(pc, phase).run = r /\ next(pc, phase).row = new(phase) /\ next(pc, phase).pc = pc
    BY <1>2 DEF Sessions
  <2>3. \/ UNCHANGED control /\ \E pc \in {"detach", "resolve"} : Goto(w, pc)
        \/ /\ Stored(w).head = Known(w).head
           /\ \E phase \in {"finish_pending", "finish_resolving"}, pc \in {"detach", "resolve"} :
                /\ control' = [control EXCEPT ![r] = new(phase)]
                /\ worker' = [worker EXCEPT ![w] = next(pc, phase)]
    BY <1>5 DEF AcknowledgeFinish, Publish, Publishable, Stored, Known
  <2> HIDE DEF new, next
  <2>4. CASE UNCHANGED control /\ \E pc \in {"detach", "resolve"} : Goto(w, pc)
    BY <1>1, <1>4, <2>4, LocalMoves, ResumeLocal
  <2>5. ASSUME Stored(w).head = Known(w).head,
               NEW phase \in {"finish_pending", "finish_resolving"}, NEW pc \in {"detach", "resolve"},
               control' = [control EXCEPT ![r] = new(phase)], worker' = [worker EXCEPT ![w] = next(pc, phase)]
        PROVE  ResumeInv'
    <3>1. /\ new(phase).head = Stored(w).head /\ new(phase).phase \notin AbortSide
          /\ next(pc, phase).run = r /\ next(pc, phase).row = new(phase) /\ next(pc, phase).pc \notin Extracting
      BY <1>4, <2>1, <2>2 DEF AbortSide
    <3> QED
      BY <1>1, <1>4, <2>5, <3>1, ResumePhase
  <2> QED
    BY <2>3, <2>4, <2>5
<1>6. CASE ResolveFinish(w)
  <2> DEFINE staged == {k \in DOMAIN K : Staged(K[k])}
             accepted == [Stored(w) EXCEPT !.phase = "finish_accepted"]
             session == [worker[w] EXCEPT !.pc = "commit",
                                          !.point = IF worker[w].recovered
                                                    THEN FinalPoint(Known(w), Known(w).next) ELSE @]
  <2>1. /\ worker[w].pc = "resolve" /\ Stored(w).head = Known(w).head
        /\ \/ \E k \in staged : Publish(w, WithReceipt(Stored(w), k, "accepted"), worker[w])
           \/ Publish(w, accepted, session)
    BY <1>6 DEF ResolveFinish, Publishable, Stored, Known
  <2>2. ASSUME NEW k \in staged, NEW new, new = WithReceipt(Stored(w), k, "accepted"), Publish(w, new, worker[w])
        PROVE  ResumeInv'
    <3> DEFINE next == [worker[w] EXCEPT !.row = new]
    <3>1. next.run = r /\ next.row = new /\ next.pc = "resolve"
      BY <1>2, <2>1 DEF Sessions
    <3>2. control' = [control EXCEPT ![r] = new] /\ worker' = [worker EXCEPT ![w] = next]
      BY <2>2 DEF Publish
    <3> HIDE DEF next
    <3>3. next.pc \notin Extracting /\ worker[w].pc \notin {"idle", "open"}
      BY <1>4, <2>1, <3>1
    <3>4. k \in DOMAIN K /\ Staged(K[k]) /\ Stored(w).head = Known(w).head
      BY <2>1
    <3> QED
      BY <1>1, <1>3, <2>2, <3>1, <3>2, <3>3, <3>4, ReceiptResume
  <2>3. CASE Publish(w, accepted, session)
    <3> DEFINE next == [session EXCEPT !.row = accepted]
    <3>1. accepted.head = Stored(w).head /\ accepted.phase = "finish_accepted"
      BY <1>2 DEF ControlRows
    <3>2. next.run = r /\ next.row = accepted /\ next.pc = "commit"
      BY <1>2 DEF Sessions
    <3>3. control' = [control EXCEPT ![r] = accepted] /\ worker' = [worker EXCEPT ![w] = next]
      BY <2>3 DEF Publish
    <3> HIDE DEF next, accepted, session
    <3>4. next.pc \notin Extracting /\ accepted.phase \notin AbortSide
      BY <1>4, <3>1, <3>2 DEF AbortSide
    <3> QED
      BY <1>1, <1>4, <2>1, <3>1, <3>2, <3>3, <3>4, ResumePhase
  <2> QED
    BY <2>1, <2>2, <2>3
<1> QED
  BY <1>5, <1>6

(* acknowledgeAbort(): nothing stays staged. *)
LEMMA AcknowledgeAbortResume ==
    ASSUME Inv, Inv', TruthInv, TruthInv', ResumeInv, NEW w \in Workers, UNCHANGED stream, AcknowledgeAbort(w)
    PROVE  ResumeInv'
<1> DEFINE r == worker[w].run
           row == Stored(w)
           old == row.head.batches
           cancelled == [k \in DOMAIN old |->
                            IF Staged(old[k]) THEN [old[k] EXCEPT !.status = "cancelled"] ELSE old[k]]
           head == [row.head EXCEPT !.batches = cancelled]
           new == [row EXCEPT !.phase = "aborted", !.head = head]
<1>1. /\ worker[w].pc = "ackAbort" /\ Working(w) /\ UNCHANGED <<saved, remote>>
      /\ worker' = [worker EXCEPT ![w] = Idle]
      /\ row.head = Known(w).head /\ row.phase = "abort_prepared"
  BY DEF AcknowledgeAbort, Working, Stop, Publishable, Stored, Known
<1>2. row \in ControlRows /\ row.head \in Heads /\ old \in Seq(Batches)
  BY <1>1, Facts DEF Inv
<1>3. head.batches = cancelled /\ head.run = row.head.run /\ head.baseline = row.head.baseline
  BY <1>2 DEF Heads
<1>4. new.head = head /\ new.phase = "aborted"
  BY <1>2 DEF ControlRows
<1>5. control' = [control EXCEPT ![r] = new]
  BY DEF AcknowledgeAbort
<1>6. \A k \in DOMAIN old : /\ cancelled[k].rows = old[k].rows /\ cancelled[k].cursor = old[k].cursor
                            /\ Staged(old[k]) => cancelled[k].status = "cancelled"
                            /\ ~Staged(old[k]) => cancelled[k] = old[k]
  <2> SUFFICES ASSUME NEW k \in DOMAIN old
               PROVE  /\ cancelled[k].rows = old[k].rows /\ cancelled[k].cursor = old[k].cursor
                      /\ Staged(old[k]) => cancelled[k].status = "cancelled"
                      /\ ~Staged(old[k]) => cancelled[k] = old[k]
    OBVIOUS
  <2>1. old[k] \in Batches
    BY <1>2
  <2> QED
    BY <2>1 DEF Batches
<1>7. DOMAIN cancelled = DOMAIN old
  OBVIOUS
<1>8. (\A k \in DOMAIN old : ~Staged(old[k])) => head = row.head
  <2> SUFFICES ASSUME \A k \in DOMAIN old : ~Staged(old[k]) PROVE head = row.head
    OBVIOUS
  <2>1. cancelled = old
    BY <1>2
  <2> HIDE DEF cancelled
  <2> QED
    BY <1>2, <2>1 DEF Heads
<1> HIDE DEF cancelled, head, new
<1>9. SameBatches(row.head, new.head)
  BY <1>3, <1>4, <1>6, <1>7 DEF SameBatches
<1>10. \A k \in DOMAIN new.head.batches : ~Staged(new.head.batches[k])
  BY <1>3, <1>4, <1>6, <1>7 DEF Staged
<1>11. \/ new.head = row.head /\ row.phase \in AbortSide
       \/ \E k \in DOMAIN new.head.batches : new.head.batches[k].status = "cancelled"
  BY <1>1, <1>3, <1>4, <1>6, <1>7, <1>8 DEF AbortSide
<1>12. ProviderKeeps
  BY <1>1 DEF ProviderKeeps, KeepsDone
<1> QED
  BY <1>1, <1>5, <1>9, <1>10, <1>11, <1>12, ResumePublish

-----------------------------------------------------------------------------
(* Reading *)

(* The journal alone: what the invariant says of it is kept by rows that stay. *)
LEMMA JournalKept ==
    ASSUME ResumeInv, UNCHANGED stream, Delivered \subseteq Delivered', NEW q \in DOMAIN control,
           control'[q].head = control[q].head, control'[q].phase = control[q].phase
    PROVE  /\ stream.cursor => (control'[q].head.run = q => CoversHead(Delivered', control'[q].head))
           /\ stream.insertOnly =>
                /\ control'[q].head.baseline \subseteq Delivered'
                /\ control'[q].head.run # q =>
                     \A k \in DOMAIN control'[q].head.batches :
                         Accepted(control'[q].head.batches[k]) \/ Staged(control'[q].head.batches[k])
                             => control'[q].head.batches[k].rows \subseteq Delivered'
           /\ control'[q].phase = "aborted" =>
                \A k \in DOMAIN control'[q].head.batches : ~Staged(control'[q].head.batches[k])
<1>1. stream.cursor => (control[q].head.run = q => CoversHead(Delivered', control[q].head))
  BY DEF ResumeInv, CursorInv, CoversHead, Covered
<1>2. stream.insertOnly =>
                /\ control[q].head.baseline \subseteq Delivered'
                /\ control[q].head.run # q =>
                     \A k \in DOMAIN control[q].head.batches :
                         Accepted(control[q].head.batches[k]) \/ Staged(control[q].head.batches[k])
                             => control[q].head.batches[k].rows \subseteq Delivered'
  BY DEF ResumeInv, BaselineInv
<1>3. control[q].phase = "aborted" =>
                \A k \in DOMAIN control[q].head.batches : ~Staged(control[q].head.batches[k])
  BY DEF ResumeInv, AbortInv
<1> QED
  BY <1>1, <1>2, <1>3

(* A worker alone: so is what it says of a session that stays. *)
LEMMA SessionKept ==
    ASSUME Inv, ResumeInv, UNCHANGED stream, Delivered \subseteq Delivered', NEW v \in Workers, worker'[v] = worker[v],
           Working(v) => /\ control'[worker[v].run].head = control[worker[v].run].head
                         /\ control'[worker[v].run].phase = control[worker[v].run].phase
    PROVE  /\ stream.cursor /\ worker'[v].pc \in Extracting =>
                \A i \in 1 .. worker'[v].read : Covered(Delivered', i, worker'[v].row.head.batches)
           /\ Working(v)' /\ control'[worker'[v].run].phase \in AbortSide
                /\ worker'[v].row.head = control'[worker'[v].run].head
                /\ (\E k \in DOMAIN worker'[v].row.head.batches : Unresolved(worker'[v].row.head.batches[k]))
                => worker'[v].row.phase \in AbortSide
           /\ Working(v)' /\ worker'[v].row.head.run = worker'[v].run =>
                DOMAIN worker'[v].row.head.batches \subseteq DOMAIN control'[worker'[v].run].head.batches
<1>1. Working(v)' <=> Working(v)
  BY DEF Working
<1>2. stream.cursor /\ worker[v].pc \in Extracting =>
                \A i \in 1 .. worker[v].read : Covered(Delivered', i, worker[v].row.head.batches)
  BY DEF ResumeInv, CursorInv, Covered
<1>3. Working(v) /\ control[worker[v].run].phase \in AbortSide
                /\ worker[v].row.head = control[worker[v].run].head
                /\ (\E k \in DOMAIN worker[v].row.head.batches : Unresolved(worker[v].row.head.batches[k]))
                => worker[v].row.phase \in AbortSide
  BY DEF ResumeInv, AbortInv
<1>4. Working(v) /\ worker[v].row.head.run = worker[v].run =>
                DOMAIN worker[v].row.head.batches \subseteq DOMAIN control[worker[v].run].head.batches
  BY DEF ResumeInv, LengthInv
<1> QED
  BY <1>1, <1>2, <1>3, <1>4

(* Reading the resume point: everything up to it is delivered. *)
LEMMA AssertReadyResume ==
    ASSUME Inv, Inv', TruthInv, TruthInv', ResumeInv, NEW w \in Workers, UNCHANGED stream, AssertReady(w)
    PROVE  ResumeInv'
<1> DEFINE session == [worker[w] EXCEPT !.pc = "start",
                                        !.point = IF stream.cursor THEN saved.point ELSE NoPoint,
                                        !.read = IF stream.cursor THEN saved.point.cursor ELSE 0]
<1>1. worker[w].pc = "ready" /\ Working(w) /\ TypeInv /\ UNCHANGED <<control, saved, remote>>
  BY DEF AssertReady, Working, Inv
<1>2. worker[w] \in Sessions
  BY <1>1, Facts
<1>3. session.run = worker[w].run /\ session.row = worker[w].row
  BY <1>2 DEF Sessions
<1>4. stream.cursor => session.read = saved.point.cursor
  BY <1>2 DEF Sessions
<1>5. worker'[w] = session /\ \A v \in Workers \ {w} : worker'[v] = worker[v]
  BY <1>1 DEF AssertReady, TypeInv, WorkerType
<1>6. Delivered' = Delivered
  BY <1>1 DEF Delivered
<1> HIDE DEF session
<1>7. \A v \in Workers : /\ Working(v)' => Working(v)
                         /\ Working(v)' => worker'[v].run = worker[v].run /\ worker'[v].row = worker[v].row
  BY <1>1, <1>3, <1>5 DEF Working
<1>8. CursorInv'
  <2> SUFFICES ASSUME stream.cursor, NEW v \in Workers, worker'[v].pc \in Extracting, NEW i \in 1 .. worker'[v].read
               PROVE  Covered(Delivered, i, worker'[v].row.head.batches)
    BY <1>1, <1>6 DEF ResumeInv, CursorInv
  <2>1. CASE v = w
    BY <1>4, <1>5, <2>1 DEF ResumeInv, CursorInv, Covered
  <2>2. CASE v # w
    BY <1>5, <2>2 DEF ResumeInv, CursorInv
  <2> QED
    BY <2>1, <2>2
<1>9. BaselineInv'
  BY <1>1, <1>6 DEF ResumeInv, BaselineInv
<1>10. AbortInv' /\ LengthInv'
  BY <1>1, <1>7 DEF ResumeInv, AbortInv, LengthInv
<1> QED
  BY <1>8, <1>9, <1>10 DEF ResumeInv

(* Nor does the provider on its own. *)
LEMMA EnvironmentDone ==
    ASSUME Inv, NewSourceRow \/ Provider
    PROVE  ProviderKeeps
<1>1. CASE NewSourceRow
  BY <1>1 DEF NewSourceRow, ProviderKeeps, KeepsDone
<1>2. ASSUME NEW r \in Runs, SettleFinish(r) PROVE ProviderKeeps
  <2>1. remote[r] \in RemoteRows
    BY DEF Inv, TypeInv, RemoteType
  <2>2. \A k \in Rows : FinishedSession(remote[r]).batch[k]
                            = IF remote[r].batch[k] = "staged" THEN "done" ELSE remote[r].batch[k]
    BY <2>1 DEF FinishedSession, RemoteRows
  <2>3. KeepsDone(remote[r], FinishedSession(remote[r]))
    BY <2>2 DEF KeepsDone
  <2> QED
    BY <1>2, <2>3, ProviderStep DEF SettleFinish
<1>3. ASSUME NEW r \in Runs, NEW k \in Rows, SettleBatch(r, k) PROVE ProviderKeeps
  <2> DEFINE t(x) == [remote[r] EXCEPT !.batch[k] = x]
  <2>1. remote[r] \in RemoteRows /\ remote[r].batch[k] = "staged"
    BY <1>3 DEF Inv, TypeInv, RemoteType, SettleBatch
  <2>2. PICK x : remote' = [remote EXCEPT ![r] = t(x)]
    BY <1>3 DEF SettleBatch
  <2>3. \A j \in Rows \ {k} : t(x).batch[j] = remote[r].batch[j]
    BY <2>1 DEF RemoteRows
  <2> HIDE DEF t
  <2>4. KeepsDone(remote[r], t(x))
    BY <2>1, <2>3 DEF KeepsDone
  <2> QED
    BY <2>2, <2>4, ProviderStep
<1> QED
  BY <1>1, <1>2, <1>3 DEF Provider

(* Jobs and finishes that end, and new rows of the warehouse. *)
LEMMA EnvironmentResume ==
    ASSUME Inv, Inv', TruthInv, TruthInv', ResumeInv, UNCHANGED stream, NewSourceRow \/ Provider
    PROVE  ResumeInv'
<1>1. UNCHANGED <<control, saved, worker>>
  BY DEF NewSourceRow, Provider, SettleFinish, SettleBatch
<1>2. ProviderKeeps
  BY EnvironmentDone
<1>3. Delivered \subseteq Delivered'
  BY <1>1, <1>2, DeliveredStays DEF ProviderKeeps, KeepsRows
<1>4. CursorInv'
  BY <1>1, <1>3 DEF ResumeInv, CursorInv, CoversHead, Covered
<1>5. BaselineInv'
  BY <1>1, <1>3 DEF ResumeInv, BaselineInv
<1>6. AbortInv' /\ LengthInv'
  BY <1>1 DEF ResumeInv, AbortInv, LengthInv, Working
<1> QED
  BY <1>4, <1>5, <1>6 DEF ResumeInv

(* prepare(): the new batch takes every row the reader has not seen yet, but the *)
(* events it or an earlier run has delivered.                                    *)
LEMMA PrepareResume ==
    ASSUME Inv, Inv', TruthInv, TruthInv', ResumeInv, NEW w \in Workers, UNCHANGED stream, Prepare(w)
    PROVE  ResumeInv'
<1> DEFINE r == worker[w].run
           old == Stored(w).head.batches
           b(to) == NextBatch(w, to)
           n(to) == Cardinality(b(to).rows)
           batches(to) == Append(old, b(to))
           row(to) == [Stored(w) EXCEPT !.head.batches = batches(to), !.next = b(to).last]
           step(to) == [worker[w] EXCEPT !.pc = "call", !.read = to, !.k = Len(batches(to)),
                                         !.point = [seq |-> b(to).last, cursor |-> b(to).cursor],
                                         !.since = @ + n(to)]
<1>1. worker[w].pc = "read" /\ Working(w) /\ TypeInv /\ UNCHANGED <<saved, remote>>
  BY DEF Prepare, Working, Inv
<1>2. /\ worker[w] \in Sessions /\ Stored(w) \in ControlRows /\ Stored(w).head \in Heads
      /\ old \in Seq(Batches) /\ worker[w].read \in Nat /\ r \in DOMAIN control
  BY <1>1, Facts DEF Sessions
<1>3. Stored(w).head.run = r /\ Known(w).head.run = r
  BY <1>1, TruthFacts
<1>4. ProviderKeeps
  BY <1>1 DEF ProviderKeeps, KeepsDone
<1>5. CASE worker' = [worker EXCEPT ![w] = Cleanup(w, worker[w].staged)] /\ UNCHANGED control
  BY <1>1, <1>4, <1>5, LocalMoves, ResumeLocal
<1>6. ASSUME NEW to \in Unread(w), Stored(w).head = Known(w).head, Publish(w, row(to), step(to))
      PROVE  ResumeInv'
  <2> DEFINE head == [Stored(w).head EXCEPT !.batches = batches(to)]
             new == [Stored(w) EXCEPT !.head = head, !.next = b(to).last]
             next == [step(to) EXCEPT !.row = new]
  <2>1. /\ b(to).status = "prepared" /\ b(to).rows = {i \in Unread(w) : i <= to}
        /\ stream.cursor => b(to).cursor = to
    BY DEF NextBatch
  <2>2. /\ DOMAIN batches(to) = 1 .. (Len(old) + 1) /\ Len(old) + 1 \notin DOMAIN old
        /\ batches(to)[Len(old) + 1] = b(to) /\ \A j \in DOMAIN old : batches(to)[j] = old[j]
        /\ DOMAIN old = 1 .. Len(old) /\ Len(old) \in Nat
    BY SMTT(60), <1>2
  <2>3. head.run = r /\ head.batches = batches(to) /\ head.baseline = Stored(w).head.baseline
    BY <1>2, <1>3 DEF Heads
  <2>4. new.head = head /\ new.phase = Stored(w).phase
    BY <1>2 DEF ControlRows
  <2>5. row(to) = new
    BY <1>2
  <2>6. next.run = r /\ next.row = new /\ next.read = to
    BY <1>2 DEF Sessions
  <2>7. control' = [control EXCEPT ![r] = new] /\ worker' = [worker EXCEPT ![w] = next]
    BY <1>6, <2>5 DEF Publish
  <2>8. /\ DOMAIN control' = DOMAIN control /\ control'[r] = new
        /\ \A q \in DOMAIN control \ {r} : control'[q] = control[q]
    BY <1>1, <1>2, <2>7 DEF TypeInv, ControlType
  <2>9. worker'[w] = next /\ \A v \in Workers \ {w} : worker'[v] = worker[v]
    BY <1>1, <2>7 DEF TypeInv, WorkerType
  <2>10. /\ \A i \in 1 .. to : i > worker[w].read => i \in (worker[w].read + 1) .. source
         /\ to \in Nat
    BY <1>1, <1>2 DEF Unread, TypeInv
  <2> HIDE DEF new, next, head, batches, b
  <2>11. KeepsRows(Stored(w).head, new.head)
    BY <2>2, <2>3, <2>4 DEF KeepsRows
  <2>12. Delivered \subseteq Delivered'
    <3>1. \A h : KeepsRows(h, h)
      BY DEF KeepsRows
    <3>2. \A q \in DOMAIN control : control[q].head.run = q =>
              q \in DOMAIN control' /\ control'[q].head.run = q /\ KeepsRows(control[q].head, control'[q].head)
      BY <2>3, <2>4, <2>8, <2>11, <3>1 DEF Stored
    <3> QED
      BY <1>4, <3>2, DeliveredStays DEF ProviderKeeps
  <2>13. ASSUME stream.cursor, NEW i \in 1 .. to PROVE Covered(Delivered', i, batches(to))
    <3>1. CASE i <= worker[w].read
      <4>1. i \in 1 .. worker[w].read
        BY <1>2, <2>10, <3>1
      <4>2. Covered(Delivered, i, old)
        BY <1>1, <1>6, <2>13, <4>1 DEF ResumeInv, CursorInv, Known, Extracting, Reading
      <4> QED
        BY <2>2, <2>12, <4>2 DEF Covered
    <3>2. CASE i > worker[w].read /\ i \in Unread(w)
      <4>1. i \in b(to).rows
        BY <2>1, <2>10, <3>2
      <4>2. Len(old) + 1 \in DOMAIN batches(to)
        BY <2>2
      <4> QED
        BY <2>2, <4>1, <4>2 DEF Covered
    <3>3. CASE i > worker[w].read /\ i \notin Unread(w)
      <4>1. stream.insertOnly /\ i \in Members(Known(w))
        BY <2>10, <3>3 DEF Unread
      <4>2. CASE i \in Known(w).head.baseline
        <5>1. i \in Delivered
          BY <1>2, <1>6, <4>1, <4>2 DEF ResumeInv, BaselineInv, Stored
        <5> QED
          BY <2>12, <5>1 DEF Covered
      <4>3. CASE i \in RowsOf(Known(w).head.batches, Accepted)
        <5>1. PICK j \in DOMAIN old : i \in old[j].rows
          BY <1>6, <4>3 DEF RowsOf, Batch
        <5> QED
          BY <2>2, <5>1 DEF Covered
      <4> QED
        BY <4>1, <4>2, <4>3 DEF Members
    <3> QED
      BY <1>2, <2>10, <3>1, <3>2, <3>3
  <2>14. ASSUME NEW v \in Workers \ {w}, Working(v)', worker'[v].run = r, worker'[v].row.head.run = r
         PROVE  DOMAIN worker'[v].row.head.batches \subseteq DOMAIN old
    BY <2>9, <2>14 DEF ResumeInv, LengthInv, Working, Stored
  <2>15. CursorInv'
    <3>1. stream.cursor => 1 .. saved'.point.cursor \subseteq Delivered'
      BY <1>1, <2>12 DEF ResumeInv, CursorInv
    <3>2. stream.cursor => CoversHead(Delivered', new.head)
      <4> SUFFICES ASSUME stream.cursor, NEW k \in DOMAIN batches(to), NEW i \in 1 .. batches(to)[k].cursor
                   PROVE  Covered(Delivered', i, batches(to))
        BY <2>3, <2>4 DEF CoversHead
      <4>1. CASE k \in DOMAIN old
        <5>1. Covered(Delivered, i, old)
          BY <1>2, <1>3, <2>2, <4>1 DEF ResumeInv, CursorInv, CoversHead, Stored
        <5> QED
          BY <2>2, <2>12, <5>1 DEF Covered
      <4>2. CASE k = Len(old) + 1
        BY <2>1, <2>2, <2>13, <4>2
      <4> QED
        BY <2>2, <4>1, <4>2
    <3>3. \A q \in DOMAIN control : stream.cursor /\ control'[q].head.run = q => CoversHead(Delivered', control'[q].head)
      BY <2>8, <2>12, <3>2, JournalKept
    <3>4. ASSUME stream.cursor, NEW v \in Workers, worker'[v].pc \in Extracting, NEW i \in 1 .. worker'[v].read
          PROVE  Covered(Delivered', i, worker'[v].row.head.batches)
      <4>1. CASE v = w
        BY <2>3, <2>4, <2>6, <2>9, <2>13, <3>4, <4>1
      <4>2. CASE v # w
        BY <2>9, <2>12, <3>4, <4>2 DEF ResumeInv, CursorInv, Covered
      <4> QED
        BY <4>1, <4>2
    <3> QED
      BY <2>8, <3>1, <3>3, <3>4 DEF CursorInv
  <2>16. BaselineInv'
    <3>1. stream.insertOnly => new.head.baseline \subseteq Delivered'
      BY <1>2, <2>3, <2>4, <2>12 DEF ResumeInv, BaselineInv, Stored
    <3> SUFFICES ASSUME stream.insertOnly, NEW q \in DOMAIN control
                 PROVE  /\ control'[q].head.baseline \subseteq Delivered'
                        /\ control'[q].head.run # q =>
                             \A k \in DOMAIN control'[q].head.batches :
                                 Accepted(control'[q].head.batches[k]) \/ Staged(control'[q].head.batches[k])
                                     => control'[q].head.batches[k].rows \subseteq Delivered'
      BY <2>8 DEF BaselineInv
    <3>2. CASE q = r
      BY <2>3, <2>4, <2>8, <3>1, <3>2
    <3>3. CASE q # r
      BY <2>8, <2>12, <3>3, JournalKept
    <3> QED
      BY <3>2, <3>3
  <2>17. AbortInv'
    <3>1. ASSUME NEW q \in DOMAIN control, control'[q].phase = "aborted", NEW k \in DOMAIN control'[q].head.batches
          PROVE  ~Staged(control'[q].head.batches[k])
      <4>1. CASE q # r
        BY <2>8, <3>1, <4>1 DEF ResumeInv, AbortInv
      <4>2. CASE q = r /\ k \in DOMAIN old
        BY <1>2, <2>2, <2>3, <2>4, <2>8, <3>1, <4>2 DEF ResumeInv, AbortInv, Stored
      <4>3. CASE q = r /\ k = Len(old) + 1
        BY <2>1, <2>2, <2>3, <2>4, <2>8, <4>3 DEF Staged
      <4>4. q = r => k \in DOMAIN old \/ k = Len(old) + 1
        <5>1. q = r => k \in DOMAIN batches(to)
          BY <2>3, <2>4, <2>8, <3>1
        <5>2. \A j \in DOMAIN batches(to) : j \in DOMAIN old \/ j = Len(old) + 1
          BY <2>2
        <5> QED
          BY <5>1, <5>2
      <4> QED
        BY <4>1, <4>2, <4>3, <4>4
    <3>2. ASSUME NEW v \in Workers, Working(v)', control'[worker'[v].run].phase \in AbortSide,
                 worker'[v].row.head = control'[worker'[v].run].head,
                 \E k \in DOMAIN worker'[v].row.head.batches : Unresolved(worker'[v].row.head.batches[k])
          PROVE  worker'[v].row.phase \in AbortSide
      <4>1. CASE v = w
        BY <2>6, <2>8, <2>9, <3>2, <4>1
      <4>2. CASE v # w /\ worker'[v].run = r
        <5>1. worker'[v].row.head.run = r /\ worker'[v].row.head.batches = batches(to)
          BY <2>3, <2>4, <2>8, <3>2, <4>2
        <5>2. DOMAIN batches(to) \subseteq DOMAIN old
          BY <2>14, <3>2, <4>2, <5>1
        <5>3. Len(old) + 1 \in DOMAIN batches(to)
          BY <2>2
        <5> QED
          BY <2>2, <5>2, <5>3
      <4>3. CASE v # w /\ worker'[v].run # r
        <5>1. worker'[v] = worker[v] /\ Working(v)
          BY <2>9, <3>2, <4>3 DEF Working
        <5>2. control'[worker[v].run] = control[worker[v].run]
          BY <2>8, <4>3, <5>1, Facts DEF Inv
        <5> QED
          BY <3>2, <5>1, <5>2 DEF ResumeInv, AbortInv
      <4> QED
        BY <4>1, <4>2, <4>3
    <3> QED
      BY <2>8, <3>1, <3>2 DEF AbortInv
  <2>18. LengthInv'
    <3> SUFFICES ASSUME NEW v \in Workers, Working(v)', worker'[v].row.head.run = worker'[v].run
                 PROVE  DOMAIN worker'[v].row.head.batches \subseteq DOMAIN control'[worker'[v].run].head.batches
      BY DEF LengthInv
    <3>1. CASE v = w
      BY <2>6, <2>8, <2>9, <3>1
    <3>2. CASE v # w /\ worker'[v].run = r
      BY <2>2, <2>3, <2>4, <2>8, <2>14, <3>2
    <3>3. CASE v # w /\ worker'[v].run # r
      <4>1. worker'[v] = worker[v] /\ Working(v)
        BY <2>9, <3>3 DEF Working
      <4>2. control'[worker[v].run] = control[worker[v].run]
        BY <2>8, <3>3, <4>1, Facts DEF Inv
      <4> QED
        BY <4>1, <4>2 DEF ResumeInv, LengthInv
    <3> QED
      BY <3>1, <3>2, <3>3
  <2> QED
    BY <2>15, <2>16, <2>17, <2>18 DEF ResumeInv
<1>7. \/ worker' = [worker EXCEPT ![w] = Cleanup(w, worker[w].staged)] /\ UNCHANGED control
      \/ \E to \in Unread(w) : Stored(w).head = Known(w).head /\ Publish(w, row(to), step(to))
  BY Zenon DEF Prepare, Publishable, Stored, Known
<1> QED
  BY Zenon, <1>5, <1>6, <1>7

(* ObjectJournal.open(): the events of the head it compacts are delivered. *)
LEMMA OpenJournalResume ==
    ASSUME Inv, Inv', TruthInv, TruthInv', ResumeInv, NEW w \in Workers, UNCHANGED stream, OpenJournal(w)
    PROVE  ResumeInv'
<1> DEFINE r == worker[w].run
           pc == IF worker[w].recovered THEN "recover" ELSE "ready"
           head == Known(w).head
           baseline == head.baseline \cup RowsOf(head.batches, Accepted) \cup RowsOf(head.batches, Staged)
           session == [worker[w] EXCEPT !.pc = pc]
           compact == [run |-> r, baseline |-> baseline, batches |-> <<>>]
           new == [Stored(w) EXCEPT !.head = compact]
           next == [session EXCEPT !.row = new]
<1>1. worker[w].pc = "open" /\ Working(w) /\ TypeInv /\ UNCHANGED <<saved, remote>>
  BY DEF OpenJournal, Working, Inv
<1>2. worker[w] \in Sessions /\ Stored(w) \in ControlRows /\ r \in DOMAIN control
  BY <1>1, Facts
<1>3. \/ Goto(w, pc) /\ UNCHANGED control
      \/ /\ head.run # r /\ Stored(w).head = Known(w).head
         /\ control' = [control EXCEPT ![r] = new] /\ worker' = [worker EXCEPT ![w] = next]
      \/ Stop(w) /\ UNCHANGED control
  BY DEF OpenJournal, Publish, Publishable, Stored, Known
<1>4. ProviderKeeps /\ pc \notin Extracting
  BY <1>1 DEF ProviderKeeps, KeepsDone, Extracting, Reading
<1>5. CASE (Goto(w, pc) \/ Stop(w)) /\ UNCHANGED control
  BY <1>1, <1>4, <1>5, LocalMoves, ResumeLocal
<1>6. CASE /\ head.run # r /\ Stored(w).head = Known(w).head
           /\ control' = [control EXCEPT ![r] = new] /\ worker' = [worker EXCEPT ![w] = next]
  <2>1. new.head = compact /\ compact.run = r /\ compact.baseline = baseline /\ DOMAIN compact.batches = {}
    BY <1>2 DEF ControlRows
  <2>2. next.run = r /\ next.row = new /\ next.pc \notin Extracting
    BY <1>2, <1>4 DEF Sessions
  <2> HIDE DEF new, next, compact, session, pc
  <2>3. /\ DOMAIN control' = DOMAIN control /\ control'[r] = new
        /\ \A q \in DOMAIN control \ {r} : control'[q] = control[q]
    BY <1>1, <1>2, <1>6 DEF TypeInv, ControlType
  <2>4. worker'[w] = next /\ \A v \in Workers \ {w} : worker'[v] = worker[v]
    BY <1>1, <1>6 DEF TypeInv, WorkerType
  <2>5. control[r].head.run # r
    BY <1>6 DEF Stored
  <2>6. Delivered \subseteq Delivered'
    <3>1. \A h : KeepsRows(h, h)
      BY DEF KeepsRows
    <3>2. \A q \in DOMAIN control : control[q].head.run = q =>
              q \in DOMAIN control' /\ control'[q].head.run = q /\ KeepsRows(control[q].head, control'[q].head)
      BY <2>3, <2>5, <3>1
    <3> QED
      BY <1>4, <3>2, DeliveredStays DEF ProviderKeeps
  <2>7. stream.insertOnly => baseline \subseteq Delivered'
    <3> SUFFICES ASSUME stream.insertOnly, NEW i \in baseline PROVE i \in Delivered
      BY <2>6
    <3>1. /\ head.baseline \subseteq Delivered
          /\ \A k \in DOMAIN head.batches :
                Accepted(head.batches[k]) \/ Staged(head.batches[k]) => head.batches[k].rows \subseteq Delivered
      BY <1>2, <1>6, <2>5 DEF ResumeInv, BaselineInv, Stored
    <3>2. CASE i \in RowsOf(head.batches, Accepted)
      BY <3>1, <3>2 DEF RowsOf, Batch
    <3>3. CASE i \in RowsOf(head.batches, Staged)
      BY <3>1, <3>3 DEF RowsOf, Batch
    <3> QED
      BY <3>1, <3>2, <3>3
  <2> HIDE DEF baseline
  <2>8. CursorInv'
    <3>1. stream.cursor => 1 .. saved'.point.cursor \subseteq Delivered'
      BY <1>1, <2>6 DEF ResumeInv, CursorInv
    <3>2. CoversHead(Delivered', new.head)
      BY <2>1 DEF CoversHead
    <3>3. \A q \in DOMAIN control : stream.cursor /\ control'[q].head.run = q => CoversHead(Delivered', control'[q].head)
      BY <2>3, <2>6, <3>2, JournalKept
    <3>4. ASSUME stream.cursor, NEW v \in Workers, worker'[v].pc \in Extracting, NEW i \in 1 .. worker'[v].read
          PROVE  Covered(Delivered', i, worker'[v].row.head.batches)
      <4>1. v # w /\ worker'[v] = worker[v]
        BY <2>2, <2>4, <3>4
      <4> QED
        BY <2>6, <3>4, <4>1 DEF ResumeInv, CursorInv, Covered
    <3> QED
      BY <2>3, <3>1, <3>3, <3>4 DEF CursorInv
  <2>9. BaselineInv'
    <3> SUFFICES ASSUME stream.insertOnly, NEW q \in DOMAIN control
                 PROVE  /\ control'[q].head.baseline \subseteq Delivered'
                        /\ control'[q].head.run # q =>
                             \A k \in DOMAIN control'[q].head.batches :
                                 Accepted(control'[q].head.batches[k]) \/ Staged(control'[q].head.batches[k])
                                     => control'[q].head.batches[k].rows \subseteq Delivered'
      BY <2>3 DEF BaselineInv
    <3>1. CASE q = r
      BY <2>1, <2>3, <2>7, <3>1
    <3>2. CASE q # r
      BY <2>3, <2>6, <3>2, JournalKept
    <3> QED
      BY <3>1, <3>2
  <2>10. ASSUME NEW v \in Workers, Working(v)', worker'[v].run # r
         PROVE  worker'[v] = worker[v] /\ Working(v) /\ control'[worker[v].run] = control[worker[v].run]
    <3>1. worker'[v] = worker[v] /\ Working(v)
      BY <2>2, <2>4, <2>10 DEF Working
    <3> QED
      BY <2>3, <2>10, <3>1, Facts DEF Inv
  <2>11. AbortInv'
    <3>1. ASSUME NEW q \in DOMAIN control, control'[q].phase = "aborted", NEW k \in DOMAIN control'[q].head.batches
          PROVE  ~Staged(control'[q].head.batches[k])
      <4>1. q # r
        BY <2>1, <2>3, <3>1
      <4> QED
        BY <2>3, <3>1, <4>1 DEF ResumeInv, AbortInv
    <3>2. ASSUME NEW v \in Workers, Working(v)', control'[worker'[v].run].phase \in AbortSide,
                 worker'[v].row.head = control'[worker'[v].run].head,
                 \E k \in DOMAIN worker'[v].row.head.batches : Unresolved(worker'[v].row.head.batches[k])
          PROVE  worker'[v].row.phase \in AbortSide
      <4>1. worker'[v].run # r
        BY <2>1, <2>3, <3>2
      <4> QED
        BY <2>10, <3>2, <4>1 DEF ResumeInv, AbortInv
    <3> QED
      BY <2>3, <3>1, <3>2 DEF AbortInv
  <2>12. LengthInv'
    <3> SUFFICES ASSUME NEW v \in Workers, Working(v)', worker'[v].row.head.run = worker'[v].run
                 PROVE  DOMAIN worker'[v].row.head.batches \subseteq DOMAIN control'[worker'[v].run].head.batches
      BY DEF LengthInv
    <3>1. CASE v = w
      BY <2>2, <2>3, <2>4, <3>1
    <3>2. CASE worker'[v].run # r
      BY <2>10, <3>2 DEF ResumeInv, LengthInv
    <3>3. CASE v # w /\ worker'[v].run = r
      BY <2>4, <2>5, <3>3 DEF Inv, JournalInv, Working
    <3> QED
      BY <3>1, <3>2, <3>3
  <2> QED
    BY <2>8, <2>9, <2>11, <2>12 DEF ResumeInv
<1> QED
  BY <1>3, <1>5, <1>6

(* A worker that takes a run, old or new. *)
LEMMA ResumeOpen ==
    ASSUME Inv, Inv', TruthInv, TruthInv', ResumeInv, NEW w \in Workers, worker[w].pc = "idle",
           UNCHANGED <<stream, saved, remote>>,
           NEW r, NEW row, DOMAIN control' = DOMAIN control \cup {r}, control'[r] = row,
           \A q \in DOMAIN control \ {r} : control'[q] = control[q],
           r \in DOMAIN control => row.head = control[r].head /\ row.phase = control[r].phase,
           r \notin DOMAIN control => /\ row.phase = "new"
                                      /\ row.head.run = r => DOMAIN row.head.batches = {}
                                      /\ stream.insertOnly =>
                                           /\ row.head.baseline \subseteq Delivered
                                           /\ \A k \in DOMAIN row.head.batches :
                                                 Accepted(row.head.batches[k]) \/ Staged(row.head.batches[k])
                                                     => row.head.batches[k].rows \subseteq Delivered,
           NEW recovered, worker' = [worker EXCEPT ![w] = Session(r, row, recovered)]
    PROVE  ResumeInv'
<1> DEFINE session == Session(r, row, recovered)
<1>1. session.pc = "open" /\ session.run = r /\ session.row = row /\ "open" \notin Extracting
  BY DEF Session, Extracting, Reading
<1> HIDE DEF session
<1>2. worker'[w] = session /\ \A v \in Workers \ {w} : worker'[v] = worker[v]
  BY DEF Inv, TypeInv, WorkerType, session
<1>3. \A q \in DOMAIN control : control'[q].head = control[q].head /\ control'[q].phase = control[q].phase
  OBVIOUS
<1>4. Delivered \subseteq Delivered'
  <2>1. ProviderKeeps /\ \A h : KeepsRows(h, h)
    BY DEF ProviderKeeps, KeepsDone, KeepsRows
  <2>2. \A q \in DOMAIN control : control[q].head.run = q =>
            q \in DOMAIN control' /\ control'[q].head.run = q /\ KeepsRows(control[q].head, control'[q].head)
    BY <1>3, <2>1
  <2> QED
    BY <2>1, <2>2, DeliveredStays DEF ProviderKeeps
<1>5. ASSUME NEW v \in Workers \ {w}
      PROVE  /\ stream.cursor /\ worker'[v].pc \in Extracting =>
                  \A i \in 1 .. worker'[v].read : Covered(Delivered', i, worker'[v].row.head.batches)
             /\ Working(v)' /\ control'[worker'[v].run].phase \in AbortSide
                  /\ worker'[v].row.head = control'[worker'[v].run].head
                  /\ (\E k \in DOMAIN worker'[v].row.head.batches : Unresolved(worker'[v].row.head.batches[k]))
                  => worker'[v].row.phase \in AbortSide
             /\ Working(v)' /\ worker'[v].row.head.run = worker'[v].run =>
                  DOMAIN worker'[v].row.head.batches \subseteq DOMAIN control'[worker'[v].run].head.batches
  <2>1. Working(v) => worker[v].run \in DOMAIN control
    BY Facts DEF Inv
  <2> QED
    BY <1>2, <1>3, <1>4, <2>1, SessionKept
<1>6. CursorInv'
  <2>1. stream.cursor => 1 .. saved'.point.cursor \subseteq Delivered'
    BY <1>4 DEF ResumeInv, CursorInv
  <2>2. \A q \in DOMAIN control' : stream.cursor /\ control'[q].head.run = q => CoversHead(Delivered', control'[q].head)
    <3> SUFFICES ASSUME stream.cursor, NEW q \in DOMAIN control', control'[q].head.run = q
                 PROVE  CoversHead(Delivered', control'[q].head)
      OBVIOUS
    <3>1. CASE q \in DOMAIN control
      BY <1>3, <1>4, <3>1, JournalKept
    <3>2. CASE q \notin DOMAIN control
      BY <3>2 DEF CoversHead
    <3> QED
      BY <3>1, <3>2
  <2>3. stream.cursor => \A v \in Workers : worker'[v].pc \in Extracting =>
             \A i \in 1 .. worker'[v].read : Covered(Delivered', i, worker'[v].row.head.batches)
    BY <1>1, <1>2, <1>5
  <2> QED
    BY <2>1, <2>2, <2>3 DEF CursorInv
<1>7. BaselineInv'
  <2> SUFFICES ASSUME stream.insertOnly, NEW q \in DOMAIN control'
               PROVE  /\ control'[q].head.baseline \subseteq Delivered'
                      /\ control'[q].head.run # q =>
                           \A k \in DOMAIN control'[q].head.batches :
                               Accepted(control'[q].head.batches[k]) \/ Staged(control'[q].head.batches[k])
                                   => control'[q].head.batches[k].rows \subseteq Delivered'
    BY DEF BaselineInv
  <2>1. CASE q \in DOMAIN control
    BY <1>3, <1>4, <2>1, JournalKept
  <2>2. CASE q \notin DOMAIN control
    BY <1>4, <2>2
  <2> QED
    BY <2>1, <2>2
<1>8. AbortInv'
  <2>1. ASSUME NEW q \in DOMAIN control', control'[q].phase = "aborted"
        PROVE  \A k \in DOMAIN control'[q].head.batches : ~Staged(control'[q].head.batches[k])
    <3>1. q \in DOMAIN control
      BY <2>1
    <3> QED
      BY <1>3, <2>1, <3>1 DEF ResumeInv, AbortInv
  <2>2. ASSUME NEW v \in Workers, Working(v)', control'[worker'[v].run].phase \in AbortSide,
               worker'[v].row.head = control'[worker'[v].run].head,
               \E k \in DOMAIN worker'[v].row.head.batches : Unresolved(worker'[v].row.head.batches[k])
        PROVE  worker'[v].row.phase \in AbortSide
    <3>1. CASE v = w
      BY <1>1, <1>2, <2>2, <3>1
    <3>2. CASE v # w
      BY <1>5, <2>2, <3>2
    <3> QED
      BY <3>1, <3>2
  <2> QED
    BY <2>1, <2>2 DEF AbortInv
<1>9. LengthInv'
  <2> SUFFICES ASSUME NEW v \in Workers, Working(v)', worker'[v].row.head.run = worker'[v].run
               PROVE  DOMAIN worker'[v].row.head.batches \subseteq DOMAIN control'[worker'[v].run].head.batches
    BY DEF LengthInv
  <2>1. CASE v = w
    BY <1>1, <1>2, <2>1
  <2>2. CASE v # w
    BY <1>5, <2>2
  <2> QED
    BY <2>1, <2>2
<1> QED
  BY <1>6, <1>7, <1>8, <1>9 DEF ResumeInv

(* openRun() of a run that exists. *)
LEMMA ReopenResume ==
    ASSUME Inv, Inv', TruthInv, TruthInv', ResumeInv, NEW w \in Workers, worker[w].pc = "idle",
           UNCHANGED <<stream, saved, remote>>, NEW r \in DOMAIN control, ReopenRun(w, r)
    PROVE  ResumeInv'
<1> DEFINE row == IF control[r].phase = "new" THEN Rebased(control[r]) ELSE control[r]
<1>1. control \in Seq(ControlRows) /\ control[r] \in ControlRows
  BY DEF Inv, TypeInv, ControlType
<1>2. row.head = control[r].head /\ row.phase = control[r].phase
  BY <1>1 DEF Rebased, ControlRows
<1>3. control' = [control EXCEPT ![r] = row] /\ worker' = [worker EXCEPT ![w] = Session(r, row, control[r].phase # "new")]
  BY DEF ReopenRun
<1> HIDE DEF row
<1>4. /\ DOMAIN control' = DOMAIN control \cup {r} /\ control'[r] = row
      /\ \A q \in DOMAIN control \ {r} : control'[q] = control[q]
  BY <1>1, <1>3
<1> QED
  BY <1>2, <1>3, <1>4, ResumeOpen

(* What a run that ended keeps as sent is delivered. *)
LEMMA EndedIsDelivered ==
    ASSUME Inv, TruthInv, ResumeInv, NEW r \in DOMAIN control, control[r].phase \in {"complete", "aborted"},
           NEW k \in DOMAIN control[r].head.batches,
           Accepted(control[r].head.batches[k]) \/ Staged(control[r].head.batches[k])
    PROVE  control[r].head.batches[k].rows \subseteq Delivered
<1>1. control[r].head.run = r /\ TrueRow(stream.asynchronous, r, control[r], remote[r])
  BY DEF TruthInv, RowInv
<1>2. k \in Rows /\ TrueBatch(stream.asynchronous, control[r].head.batches[k], control[r].phase, remote[r].batch[k], remote[r])
  BY <1>1 DEF TrueRow
<1>3. Accepted(control[r].head.batches[k])
  <2>1. CASE control[r].phase = "complete"
    BY <1>2, <2>1 DEF TrueBatch
  <2>2. CASE control[r].phase = "aborted"
    BY <2>2 DEF ResumeInv, AbortInv
  <2> QED
    BY <2>1, <2>2
<1>4. remote[r].batch[k] = "done"
  BY <1>2, <1>3 DEF TrueBatch
<1> QED
  BY <1>1, <1>2, <1>4, DoneIsDelivered

(* openRun() of a new run: the events in the head it inherits are delivered, *)
(* as the run before it has ended.                                            *)
LEMMA OpenNewResume ==
    ASSUME Inv, Inv', TruthInv, TruthInv', ResumeInv, NEW w \in Workers, worker[w].pc = "idle",
           UNCHANGED <<stream, saved, remote>>, OpenNewRun(w)
    PROVE  ResumeInv'
<1> DEFINE r == Len(control) + 1
           head == IF r = 1 THEN NewRow.head ELSE control[r - 1].head
           row == [Rebased(NewRow) EXCEPT !.head = head]
<1>1. control \in Seq(ControlRows) /\ Len(control) \in Nat /\ DOMAIN control = 1 .. Len(control)
  BY DEF Inv, TypeInv, ControlType
<1>2. control' = Append(control, row) /\ worker' = [worker EXCEPT ![w] = Session(r, row, FALSE)]
  BY DEF OpenNewRun
<1>3. row.head = head /\ row.phase = "new"
  BY DEF Rebased, NewRow
<1>4. r = 1 => DOMAIN head.batches = {} /\ head.baseline = {}
  BY DEF NewRow
<1>5. r # 1 => head = control[r - 1].head /\ r - 1 \in DOMAIN control
  BY <1>1
<1>6. r # 1 => head.run <= r - 1
  BY <1>5 DEF TruthInv, RowInv
<1>7. r # 1 => head.run # r
  <2> SUFFICES ASSUME r # 1, head.run = r PROVE FALSE
    OBVIOUS
  <2> HIDE DEF head
  <2> QED
    BY <1>1, <1>6
<1>8. r # 1 /\ stream.insertOnly => control[r - 1].phase \in {"complete", "aborted"}
  BY <1>5 DEF OpenNewRun, Unfinished, Ended
<1>9. stream.insertOnly => head.baseline \subseteq Delivered
  BY <1>4, <1>5 DEF ResumeInv, BaselineInv
<1>10. stream.insertOnly => \A k \in DOMAIN head.batches :
           Accepted(head.batches[k]) \/ Staged(head.batches[k]) => head.batches[k].rows \subseteq Delivered
  <2>1. CASE r = 1
    BY <1>4, <2>1
  <2>2. CASE r # 1
    BY <1>5, <1>8, <2>2, EndedIsDelivered
  <2> QED
    BY <2>1, <2>2
<1> HIDE DEF row, head
<1>11. /\ DOMAIN control' = DOMAIN control \cup {r} /\ control'[r] = row
       /\ \A q \in DOMAIN control \ {r} : control'[q] = control[q]
       /\ r \notin DOMAIN control
  BY <1>1, <1>2
<1> HIDE DEF r
<1>12. head.run = r => DOMAIN head.batches = {}
  BY <1>4, <1>7
<1> QED
  BY <1>2, <1>3, <1>9, <1>10, <1>11, <1>12, ResumeOpen

(* Attempts and recoveries start. *)
LEMMA StartsResume ==
    ASSUME Inv, Inv', TruthInv, TruthInv', ResumeInv, NEW w \in Workers, UNCHANGED stream,
           StartAttempt(w) \/ StartRecovery(w)
    PROVE  ResumeInv'
<1>1. worker[w].pc = "idle" /\ UNCHANGED <<saved, remote>>
  BY DEF StartAttempt, StartRecovery
<1>2. CASE \E r \in DOMAIN control : ReopenRun(w, r)
  BY <1>1, <1>2, ReopenResume
<1>3. CASE OpenNewRun(w)
  BY <1>1, <1>3, OpenNewResume
<1> QED
  BY <1>2, <1>3 DEF StartAttempt, StartRecovery, Attached

(* No reader, batch or checkpoint passes an undelivered row in any reachable *)
(* state.                                                                     *)
LEMMA Resume == Spec => []ResumeInv
<1>1. Init => ResumeInv
  <2> SUFFICES ASSUME Init PROVE ResumeInv
    OBVIOUS
  <2>1. \A w \in Workers : ~Working(w) /\ worker[w].pc \notin Extracting
    BY DEF Init, Idle, Working, Extracting, Reading
  <2>2. DOMAIN control = {} /\ 1 .. saved.point.cursor = {}
    BY DEF Init, NoPoint
  <2> QED
    BY <2>1, <2>2 DEF ResumeInv, CursorInv, BaselineInv, AbortInv, LengthInv
<1>2. Inv /\ Inv' /\ TruthInv /\ TruthInv' /\ ResumeInv /\ [Next]_vars => ResumeInv'
  <2> SUFFICES ASSUME Inv, Inv', TruthInv, TruthInv', ResumeInv, [Next]_vars PROVE ResumeInv'
    OBVIOUS
  <2>1. CASE UNCHANGED vars
    <3>1. Delivered' = Delivered
      BY <2>1 DEF vars, progress, Delivered
    <3> QED
      BY <2>1, <3>1 DEF vars, progress, ResumeInv, CursorInv, BaselineInv, AbortInv, LengthInv, Working
  <2>2. CASE Next
    <3>1. UNCHANGED stream
      BY <2>2 DEF Next
    <3>2. CASE NewSourceRow \/ Provider
      BY <3>1, <3>2, EnvironmentResume
    <3>3. ASSUME NEW w \in Workers, Deliver(w) PROVE ResumeInv'
      BY <3>1, <3>3, OpenJournalResume, AssertReadyResume, InitPhasesResume, CallsResume, PrepareResume,
         MarkUnknownResume, AcknowledgeResume, CheckpointResume, SealingResume, FinishReceiptsResume,
         DetachResume, AcknowledgeAbortResume DEF Deliver
    <3>4. ASSUME NEW w \in Workers, Recover(w) PROVE ResumeInv'
      BY <3>1, <3>4, InitPhasesResume, RecoveryResume, AcknowledgeRecoveredResume DEF Recover
    <3>5. ASSUME NEW w \in Workers, StartAttempt(w) \/ StartRecovery(w) PROVE ResumeInv'
      BY <3>1, <3>5, StartsResume
    <3>6. ASSUME NEW w \in Workers, Crash(w) \/ Interrupt(w) \/ PublishRefused(w) PROVE ResumeInv'
      BY <3>1, <3>6, FailuresResume
    <3> QED
      BY <2>2, <3>2, <3>3, <3>4, <3>5, <3>6 DEF Next
  <2> QED
    BY <2>1, <2>2
<1> QED
  BY <1>1, <1>2, Invariance, Truth, PTL DEF Spec

(* The cursor the next run starts behind (commitCheckpoint, journal.ts) never *)
(* passes a row the provider has not taken: however many workers overlap,      *)
(* crash, recover and abort, no row is skipped.                                *)
THEOREM SafeCheckpoints == Spec => []CheckpointSafe
<1>1. ResumeInv => CheckpointSafe
  BY DEF ResumeInv, CursorInv, CheckpointSafe
<1> QED
  BY <1>1, Resume, PTL

-----------------------------------------------------------------------------
(* One worker at a time                                                      *)

(* The lease lets one worker of the sync run at a time. *)
OneWorker == \A v, w \in Workers : v = w

(* Phases until the extraction has ended, and after it until the run ends or is aborted. *)
Early == {"new", "init_prepared", "running"}
Late == {"batches_pending", "finish_prepared", "finish_pending", "finish_resolving", "finish_accepted"}

(* A session of a run that has not extracted all it will. *)
Starting == {"ready"} \cup Extracting

(* The only worker knows the journal as it is, and the run has not ended. *)
CurrentInv ==
    \A w \in Workers : Working(w) =>
        /\ worker[w].row = control[worker[w].run] /\ worker[w].row.phase \notin Ended
        /\ worker[w].pc \in Starting => worker[w].row.phase \in Early

(* A run that is detached, or has extracted all, has no batch of unknown outcome. *)
SettledRow(row) ==
    /\ row.phase \in Early => ~row.detached
    /\ row.phase \notin Early => \A k \in DOMAIN row.head.batches : ~Unresolved(row.head.batches[k])

SettledInv == \A r \in DOMAIN control : SettledRow(control[r])

(* A run starts when those before it have extracted all; events are sent only  *)
(* after they have ended.                                                      *)
QueueInv ==
    \A r \in DOMAIN control : r < Len(control) =>
        control[r].phase \notin Early /\ (stream.insertOnly => control[r].phase \in Ended)

(* Cursors are positions of the source, the saved one is set by a run, and a   *)
(* run counts on from its base.                                                *)
PositionInv ==
    /\ saved.point.cursor <= source /\ (~stream.cursor => saved.point.cursor = 0)
    /\ saved.runOrder = 0 => saved.point.cursor = 0 /\ saved.checkpointRunOrder = 0
    /\ \A r \in DOMAIN control :
         /\ control[r].base <= control[r].next
         /\ \A k \in DOMAIN control[r].head.batches :
              /\ control[r].head.batches[k].cursor <= source
              /\ ~stream.cursor => control[r].head.batches[k].cursor = 0
              /\ control[r].head.run = r => /\ control[r].base < control[r].head.batches[k].last
                                            /\ control[r].head.batches[k].last <= control[r].next

(* The batches that end where the run ends: a completed run saves their cursor. *)
Final(row) == {k \in DOMAIN row.head.batches : row.head.batches[k].last = row.next}

(* Runs that are still to be completed will not move the cursor back, however  *)
(* late they are: the later a run, the farther it has read.                    *)
OrderInv ==
    stream.cursor =>
        \A r \in DOMAIN control : control[r].phase \in Late =>
            \A k \in Final(control[r]) :
                /\ r >= saved.checkpointRunOrder => saved.point.cursor <= control[r].head.batches[k].cursor
                /\ \A q \in DOMAIN control : q < r /\ control[q].phase \in Late =>
                     \A j \in Final(control[q]) :
                         control[q].head.batches[j].cursor <= control[r].head.batches[k].cursor

(* Nor will a reader: it is where its last batch ends, behind the saved cursor. *)
PointInv ==
    stream.cursor =>
        \A w \in Workers : worker[w].pc \in Extracting =>
            /\ worker[w].read = worker[w].point.cursor
            /\ saved.point.cursor <= worker[w].read /\ worker[w].read <= source
            /\ \A k \in Final(worker[w].row) : worker[w].row.head.batches[k].cursor = worker[w].read

OneInv == CurrentInv /\ SettledInv /\ QueueInv /\ PositionInv /\ OrderInv /\ PointInv

(* A step takes rows or moves the cursor forward, never both. *)
Moves ==
    /\ Delivered \subseteq Delivered' /\ saved.point.cursor <= saved'.point.cursor
    /\ saved'.point.cursor # saved.point.cursor => Delivered' = Delivered

(* A transition of a row that keeps its batches and settles more than before. *)
Settles(old, new) ==
    /\ new.head.run = old.head.run /\ new.base = old.base /\ new.next = old.next
    /\ DOMAIN new.head.batches = DOMAIN old.head.batches
    /\ \A k \in DOMAIN old.head.batches :
         /\ new.head.batches[k].rows = old.head.batches[k].rows
         /\ new.head.batches[k].last = old.head.batches[k].last
         /\ new.head.batches[k].cursor = old.head.batches[k].cursor
    /\ new.phase \in Early => old.phase \in Early
    /\ SettledRow(new)

(* An extraction ends when the source has no more rows. *)
Exhausted(w, new) ==
    new.phase \in Late => Stored(w).phase \in Late \/ (worker[w].pc = "read" /\ Unread(w) = {})

(* The session of w ends or goes on with the row as it is now. *)
Continues(w, new) ==
    Working(w)' =>
        /\ worker'[w].run = worker[w].run /\ worker'[w].row = new /\ new.phase \notin Ended
        /\ worker'[w].pc \in Starting => new.phase \in Early
        /\ worker'[w].pc \in Extracting =>
             worker[w].pc \in Extracting /\ worker'[w].read = worker[w].read /\ worker'[w].point = worker[w].point

(* Facts about the only worker. *)
LEMMA OneFacts ==
    ASSUME Inv, TruthInv, OneInv, NEW w \in Workers, Working(w)
    PROVE  /\ worker[w].run \in DOMAIN control /\ worker[w].run \in 1 .. Len(control)
           /\ Known(w) = Stored(w) /\ Stored(w).phase \notin Ended /\ SettledRow(Stored(w))
           /\ worker[w].pc \in Starting => Stored(w).phase \in Early
           /\ Stored(w).phase \in Early \/ stream.insertOnly => worker[w].run = Len(control)
<1>1. worker[w].run \in DOMAIN control /\ DOMAIN control = 1 .. Len(control) /\ Len(control) \in Nat
  BY Facts DEF Inv, TypeInv, ControlType
<1>2. /\ Known(w) = Stored(w) /\ Stored(w).phase \notin Ended
      /\ worker[w].pc \in Starting => Stored(w).phase \in Early
  BY DEF OneInv, CurrentInv, Known, Stored
<1>3. SettledRow(Stored(w))
  BY <1>1 DEF OneInv, SettledInv, Stored
<1>4. Stored(w).phase \in Early \/ stream.insertOnly => ~(worker[w].run < Len(control))
  BY <1>1, <1>2 DEF OneInv, QueueInv, Stored
<1> QED
  BY <1>1, <1>2, <1>3, <1>4

(* What such a transition keeps, whatever becomes of the saved state. *)
LEMMA OneJournal ==
    ASSUME OneWorker, Inv, TruthInv, OneInv, NEW w \in Workers, Working(w), OnlyRun(w), ProviderKeeps,
           NEW new, new = control'[worker[w].run], Settles(Stored(w), new), Continues(w, new)
    PROVE  /\ CurrentInv' /\ SettledInv' /\ QueueInv' /\ Delivered \subseteq Delivered'
           /\ \A q \in DOMAIN control : Settles(control[q], control'[q]) /\ Final(control'[q]) = Final(control[q])
<1> DEFINE r == worker[w].run
<1>1. /\ r \in DOMAIN control /\ r \in 1 .. Len(control) /\ Known(w) = Stored(w) /\ Stored(w).phase \notin Ended
      /\ Stored(w).phase \in Early \/ stream.insertOnly => r = Len(control)
  BY OneFacts
<1>2. /\ stream' = stream /\ DOMAIN control' = DOMAIN control /\ control'[r] = new
      /\ \A q \in DOMAIN control \ {r} : control'[q] = control[q]
  BY DEF OnlyRun
<1>3. \A v \in Workers : v = w
  BY DEF OneWorker
<1>4. \A q \in DOMAIN control : Settles(control[q], control'[q])
  <2> SUFFICES ASSUME NEW q \in DOMAIN control PROVE Settles(control[q], control'[q])
    OBVIOUS
  <2>1. CASE q = r
    BY <1>2, <2>1 DEF Stored
  <2>2. CASE q # r
    <3>1. SettledRow(control[q]) /\ control'[q] = control[q]
      BY <1>2, <2>2 DEF OneInv, SettledInv
    <3> QED
      BY <3>1 DEF Settles
  <2> QED
    BY <2>1, <2>2
<1>5. CurrentInv'
  BY <1>2, <1>3 DEF CurrentInv, Continues
<1>6. SettledInv'
  BY <1>2, <1>4 DEF SettledInv, Settles
<1>7. QueueInv'
  <2>1. Len(control') = Len(control)
    BY <1>2 DEF QueueInv, Inv, TypeInv, ControlType
  <2> SUFFICES ASSUME NEW q \in DOMAIN control, q < Len(control)
               PROVE  control'[q].phase \notin Early /\ (stream.insertOnly => control'[q].phase \in Ended)
    BY <1>2, <2>1 DEF QueueInv
  <2>2. control[q].phase \notin Early /\ (stream.insertOnly => control[q].phase \in Ended)
    BY DEF OneInv, QueueInv
  <2>3. control'[q].phase \notin Early
    BY <1>4, <2>2 DEF Settles
  <2>4. stream.insertOnly => q # r
    BY <1>1
  <2> QED
    BY <1>2, <2>2, <2>3, <2>4
<1>8. \A q \in DOMAIN control : Final(control'[q]) = Final(control[q])
  BY <1>4 DEF Final, Settles
<1>9. Delivered \subseteq Delivered'
  <2>1. \A q \in DOMAIN control : control[q].head.run = q =>
            q \in DOMAIN control' /\ control'[q].head.run = q /\ KeepsRows(control[q].head, control'[q].head)
    BY <1>2, <1>4 DEF Settles, KeepsRows
  <2> QED
    BY <2>1, DeliveredStays DEF ProviderKeeps
<1> QED
  BY <1>4, <1>5, <1>6, <1>7, <1>8, <1>9

(* Such a transition keeps the order of the runs. *)
LEMMA OneStep ==
    ASSUME OneWorker, Inv, TruthInv, OneInv, NEW w \in Workers, Working(w), OnlyRun(w), ProviderKeeps,
           NEW new, new = control'[worker[w].run], Settles(Stored(w), new), Exhausted(w, new), Continues(w, new),
           UNCHANGED <<source, saved>>
    PROVE  OneInv' /\ Moves
<1> DEFINE r == worker[w].run
<1>1. /\ r \in DOMAIN control /\ r \in 1 .. Len(control) /\ Known(w) = Stored(w) /\ Stored(w).phase \notin Ended
      /\ Stored(w).phase \in Early \/ stream.insertOnly => r = Len(control)
  BY OneFacts
<1>2. /\ stream' = stream /\ DOMAIN control' = DOMAIN control /\ control'[r] = new
      /\ \A q \in DOMAIN control \ {r} : control'[q] = control[q]
  BY DEF OnlyRun
<1>3. \A v \in Workers : v = w
  BY DEF OneWorker
<1>5. CurrentInv' /\ SettledInv' /\ QueueInv' /\ Delivered \subseteq Delivered'
  BY OneJournal
<1>4. \A q \in DOMAIN control : Settles(control[q], control'[q])
  BY OneJournal
<1>9. \A q \in DOMAIN control : Final(control'[q]) = Final(control[q])
  BY OneJournal
<1>8. PositionInv'
  BY <1>2, <1>4 DEF OneInv, PositionInv, Settles
<1>10. OrderInv'
  <2> SUFFICES ASSUME stream.cursor, NEW q \in DOMAIN control, control'[q].phase \in Late, NEW k \in Final(control'[q])
               PROVE  /\ q >= saved.checkpointRunOrder => saved.point.cursor <= control'[q].head.batches[k].cursor
                      /\ \A p \in DOMAIN control : p < q /\ control'[p].phase \in Late =>
                           \A j \in Final(control'[p]) :
                               control'[p].head.batches[j].cursor <= control'[q].head.batches[k].cursor
    BY <1>2 DEF OrderInv
  <2>1. \A p \in DOMAIN control : \A j \in Final(control[p]) :
            control'[p].head.batches[j].cursor = control[p].head.batches[j].cursor
    BY <1>4 DEF Settles, Final
  <2>2. \A p \in DOMAIN control : control'[p].phase \in Late /\ control[p].phase \notin Late =>
            p = r /\ r = Len(control) /\ worker[w].pc = "read" /\ Unread(w) = {}
    <3>1. worker[w].pc = "read" => Stored(w).phase \in Early
      BY OneFacts DEF Starting, Extracting, Reading
    <3> QED
      BY <1>1, <1>2, <3>1 DEF Exhausted, Stored
  <2>3. \A p \in DOMAIN control : p <= Len(control)
    BY DEF Inv, TypeInv, ControlType
  <2>4. CASE control[q].phase \in Late
    <3>1. \A p \in DOMAIN control : p < q /\ control'[p].phase \in Late => control[p].phase \in Late
      <4> SUFFICES ASSUME NEW p \in DOMAIN control, p < q, p = Len(control) PROVE FALSE
        BY <2>2
      <4> QED
        BY <2>3 DEF Inv, TypeInv, ControlType
    <3> QED
      BY <1>9, <2>1, <2>4, <3>1 DEF OneInv, OrderInv
  <2>5. CASE control[q].phase \notin Late
    <3>1. q = r /\ r = Len(control) /\ worker[w].pc = "read" /\ Unread(w) = {}
      BY <2>2, <2>5
    <3>2. k \in Final(Stored(w)) /\ control'[q].head.batches[k].cursor = Stored(w).head.batches[k].cursor
      BY <1>9, <2>1, <3>1 DEF Stored
    <3>3. control'[q].head.batches[k].cursor = worker[w].read /\ saved.point.cursor <= worker[w].read
      BY <1>1, <3>1, <3>2 DEF OneInv, PointInv, Extracting, Reading, Known
    <3>4. ASSUME NEW p \in DOMAIN control, p < q, control'[p].phase \in Late, NEW j \in Final(control'[p])
          PROVE  control'[p].head.batches[j].cursor <= control'[q].head.batches[k].cursor
      <4>1. p < Len(control) /\ p # r /\ control'[p] = control[p]
        BY <1>1, <1>2, <3>1, <3>4
      <4>2. ~stream.insertOnly
        BY <3>4, <4>1 DEF OneInv, QueueInv, Late, Ended
      <4>3. source <= worker[w].read
        <5>1. worker[w].read \in Nat /\ source \in Nat
          BY Facts, ConstantsAssumption DEF Inv, TypeInv, Sessions
        <5>2. source \in (worker[w].read + 1) .. source => source \in Unread(w)
          BY <4>2 DEF Unread
        <5> QED
          BY <3>1, <5>1, <5>2
      <4>4. control[p].head.batches[j].cursor <= source
        BY <3>4, <4>1 DEF OneInv, PositionInv, Final
      <4>5. control[p].head.batches[j].cursor \in Nat /\ worker[w].read \in Nat /\ source \in Nat
        <5>1. control[p] \in ControlRows /\ j \in DOMAIN control[p].head.batches
          BY <3>4, <4>1 DEF Inv, TypeInv, ControlType, Final
        <5>2. control[p].head.batches \in Seq(Batches)
          BY <5>1 DEF ControlRows, Heads
        <5>3. control[p].head.batches[j] \in Batches
          BY <5>1, <5>2
        <5> QED
          BY <5>3, Facts, ConstantsAssumption DEF Batches, Inv, TypeInv, Sessions
      <4> QED
        BY SMTT(60), <3>3, <4>1, <4>3, <4>4, <4>5
    <3> QED
      BY <3>3, <3>4
  <2> QED
    BY <2>4, <2>5
<1>11. PointInv'
  <2> SUFFICES ASSUME stream.cursor, worker'[w].pc \in Extracting
               PROVE  /\ worker'[w].read = worker'[w].point.cursor
                      /\ saved.point.cursor <= worker'[w].read /\ worker'[w].read <= source
                      /\ \A k \in Final(worker'[w].row) : worker'[w].row.head.batches[k].cursor = worker'[w].read
    BY <1>2, <1>3 DEF PointInv
  <2>1. Working(w)'
    BY DEF Working, Extracting, Reading
  <2>2. /\ worker'[w].row = new /\ worker[w].pc \in Extracting
        /\ worker'[w].read = worker[w].read /\ worker'[w].point = worker[w].point
    BY <2>1 DEF Continues
  <2>3. /\ worker[w].read = worker[w].point.cursor
        /\ saved.point.cursor <= worker[w].read /\ worker[w].read <= source
        /\ \A k \in Final(Stored(w)) : Stored(w).head.batches[k].cursor = worker[w].read
    BY <1>1, <2>2 DEF OneInv, PointInv, Known
  <2>4. Final(new) = Final(Stored(w)) /\ Final(new) \subseteq DOMAIN Stored(w).head.batches
    BY DEF Settles, Final
  <2> QED
    BY <2>2, <2>3, <2>4 DEF Settles
<1>13. saved.point.cursor \in Nat
  BY DEF Inv, TypeInv, SavedType, Points
<1> QED
  BY <1>5, <1>8, <1>10, <1>11, <1>13 DEF OneInv, Moves

(* A step that leaves the journal alone. *)
LEMMA OneLocal ==
    ASSUME OneWorker, Inv, TruthInv, OneInv, NEW w \in Workers, Working(w), UNCHANGED <<stream, source, control, saved>>,
           Local(w), worker'[w].pc \in Starting => worker[w].pc \in Starting, ProviderKeeps
    PROVE  OneInv' /\ Moves
<1>1. /\ worker[w].run \in DOMAIN control /\ Known(w) = Stored(w) /\ Stored(w).phase \notin Ended
      /\ SettledRow(Stored(w)) /\ (worker[w].pc \in Starting => Stored(w).phase \in Early)
  BY OneFacts
<1>2. OnlyRun(w) /\ control'[worker[w].run] = Stored(w)
  BY DEF OnlyRun, Local, Stored
<1>3. Settles(Stored(w), Stored(w))
  BY <1>1 DEF Settles
<1>4. Continues(w, Stored(w)) /\ Exhausted(w, Stored(w))
  BY <1>1 DEF Continues, Exhausted, Local, Known
<1> QED
  BY <1>2, <1>3, <1>4, OneStep

(* Only a session that opens its journal gets ready to start a run. *)
LEMMA NotReady ==
    ASSUME Inv, NEW w \in Workers,
           \/ CallInit(w) \/ CallBatch(w) \/ CallFinish(w) \/ CallAbort(w)
           \/ RecoverFinish(w) \/ RecoverBatch(w) \/ RecoverDecide(w)
           \/ Crash(w) \/ Interrupt(w) \/ PublishRefused(w)
    PROVE  worker'[w].pc \in Starting => worker'[w].pc \in Extracting
<1>1. Working(w)
  BY Zenon DEF CallInit, CallBatch, CallFinish, CallAbort, RecoverFinish, RecoverBatch, RecoverDecide, Crash, Interrupt,
         PublishRefused, Working
<1>2. worker[w] \in Sessions /\ WorkerType
  BY <1>1, Facts DEF Inv, TypeInv
<1>3. Idle.pc = "idle"
  BY DEF Idle
<1> SUFFICES worker'[w].pc # "ready"
  BY DEF Starting
<1>4. CASE Stop(w)
  BY <1>2, <1>3, <1>4 DEF Stop, WorkerType
<1>5. \A pc, x : /\ worker' = [worker EXCEPT ![w].pc = pc] => worker'[w].pc = pc
                 /\ worker' = [worker EXCEPT ![w].pc = pc, ![w].result = x] => worker'[w].pc = pc
                 /\ worker' = [worker EXCEPT ![w].pc = pc, ![w].point = x] => worker'[w].pc = pc
  BY <1>2 DEF WorkerType, Sessions
<1>6. CASE CallInit(w) \/ CallBatch(w) \/ CallFinish(w) \/ CallAbort(w)
  BY Zenon, <1>4, <1>5, <1>6 DEF CallInit, CallBatch, CallFinish, CallAbort, Goto
<1>7. CASE RecoverFinish(w)
  <2>1. \/ worker' = [worker EXCEPT ![w] = Idle]
        \/ \E x : worker' = [worker EXCEPT ![w] = [worker[w] EXCEPT !.pc = "ackFinish", !.result = x]]
        \/ worker' = [worker EXCEPT ![w].pc = "ackFinish", ![w].result = "accepted"]
        \/ worker' = [worker EXCEPT ![w].pc = "commit", ![w].point = FinalPoint(Known(w), Known(w).next)]
    BY Zenon, <1>7 DEF RecoverFinish
  <2>2. \A x : [worker[w] EXCEPT !.pc = "ackFinish", !.result = x].pc = "ackFinish"
    BY <1>2 DEF Sessions
  <2> QED
    BY Zenon, <1>2, <1>4, <1>5, <2>1, <2>2 DEF Stop, WorkerType
<1>8. CASE RecoverBatch(w)
  <2> DEFINE K == Known(w).head.batches
             evidence(k) == BatchEvidence(remote[worker[w].run].batch[k])
             visited(k) == [worker[w] EXCEPT !.seen = @ \cup {k}, !.rejected = @ \/ Rejected(K[k])]
             asks(k) == [visited(k) EXCEPT !.pc = "ackBatch", !.k = k, !.result = evidence(k)]
  <2>1. \A k : visited(k).pc = worker[w].pc /\ asks(k).pc = "ackBatch"
    BY <1>2 DEF Sessions
  <2>2. \/ Stop(w)
        \/ \E k : worker' = [worker EXCEPT ![w] = visited(k)]
        \/ \E k : worker' = [worker EXCEPT ![w] = asks(k)]
    BY Zenon, <1>8 DEF RecoverBatch
  <2>3. worker[w].pc = "recover"
    BY Zenon, <1>8 DEF RecoverBatch
  <2> HIDE DEF visited, asks
  <2> QED
    BY <1>2, <1>4, <2>1, <2>2, <2>3 DEF WorkerType
<1>9. CASE RecoverDecide(w)
  <2> DEFINE sealed == Known(w).phase = "batches_pending"
             pc == IF Known(w).phase = "abort_prepared" THEN "abort"
                   ELSE IF worker[w].pending /\ (stream.asynchronous \/ sealed) THEN "detach"
                   ELSE IF sealed /\ ~worker[w].rejected THEN "prepareFinish"
                   ELSE "cleanup"
             point == IF pc = "prepareFinish" THEN FinalPoint(Known(w), Known(w).next) ELSE worker[w].point
  <2>1. worker' = [worker EXCEPT ![w].pc = pc, ![w].point = point]
    BY <1>2, <1>9 DEF RecoverDecide, WorkerType
  <2>2. pc # "ready"
    OBVIOUS
  <2> HIDE DEF pc, point
  <2> QED
    BY <1>5, <2>1, <2>2
<1>10. CASE Crash(w) \/ Interrupt(w) \/ PublishRefused(w)
  <2>1. [worker[w] EXCEPT !.pc = "cleanup"].pc = "cleanup"
    BY <1>2 DEF Sessions
  <2>2. Stop(w) \/ worker' = [worker EXCEPT ![w] = Cleanup(w, worker[w].staged)]
    BY <1>10 DEF Crash, Interrupt, PublishRefused
  <2> QED
    BY <1>2, <1>3, <1>4, <2>1, <2>2 DEF Cleanup, WorkerType
<1> QED
  BY <1>6, <1>7, <1>8, <1>9, <1>10

(* Calls, failures and the steps of recovery that only look. *)
LEMMA LooksOne ==
    ASSUME OneWorker, Inv, TruthInv, OneInv, UNCHANGED stream, NEW w \in Workers,
           \/ CallInit(w) \/ CallBatch(w) \/ CallFinish(w) \/ CallAbort(w)
           \/ RecoverFinish(w) \/ RecoverBatch(w) \/ RecoverDecide(w)
           \/ Crash(w) \/ Interrupt(w) \/ PublishRefused(w)
    PROVE  OneInv' /\ Moves
<1>1. worker'[w].pc \in Starting => worker'[w].pc \in Extracting
  BY NotReady
<1>2. ASSUME Working(w), Local(w), UNCHANGED <<source, control, saved>>, ProviderKeeps PROVE OneInv' /\ Moves
  <2>1. worker'[w].pc \in Starting => worker[w].pc \in Starting
    BY <1>1, <1>2 DEF Local, Working, Starting, Extracting, Reading
  <2> QED
    BY <1>2, <2>1, OneLocal
<1>3. CASE CallInit(w) \/ CallBatch(w) \/ CallFinish(w) \/ CallAbort(w)
  BY <1>2, <1>3, CallsLocal, DoneStays
<1>4. CASE RecoverFinish(w) \/ RecoverBatch(w) \/ RecoverDecide(w)
  <2>1. Working(w) /\ UNCHANGED <<source, control, saved, remote>> /\ Local(w)
    BY <1>4, RecoveryLocal
  <2> QED
    BY <1>2, <2>1 DEF ProviderKeeps, KeepsDone
<1>5. CASE Crash(w) \/ Interrupt(w) \/ PublishRefused(w)
  <2>1. Working(w) /\ UNCHANGED <<source, control, saved, remote>>
    BY <1>5 DEF Crash, Interrupt, PublishRefused, Working
  <2>2. Local(w)
    BY <1>5, <2>1, LocalMoves DEF Crash, Interrupt, PublishRefused
  <2> QED
    BY <1>2, <2>1, <2>2 DEF ProviderKeeps, KeepsDone
<1> QED
  BY <1>3, <1>4, <1>5

(* A transition of the worker. *)
LEMMA OnePublish ==
    ASSUME OneWorker, Inv, TruthInv, OneInv, NEW w \in Workers, Working(w), UNCHANGED <<stream, source, saved>>, ProviderKeeps,
           NEW new, control' = [control EXCEPT ![worker[w].run] = new], Settles(Stored(w), new), Exhausted(w, new),
           NEW session, worker' = [worker EXCEPT ![w] = session],
           \/ session = Idle
           \/ /\ session.run = worker[w].run /\ session.row = new /\ new.phase \notin Ended
              /\ session.pc \in Starting => new.phase \in Early
              /\ session.pc \in Extracting =>
                   worker[w].pc \in Extracting /\ session.read = worker[w].read /\ session.point = worker[w].point
    PROVE  OneInv' /\ Moves
<1>1. TypeInv /\ worker[w].run \in DOMAIN control
  BY Facts DEF Inv
<1>2. worker'[w] = session /\ \A v \in Workers \ {w} : worker'[v] = worker[v]
  BY <1>1 DEF TypeInv, WorkerType
<1>3. OnlyRun(w) /\ control'[worker[w].run] = new
  BY <1>1, <1>2 DEF TypeInv, ControlType, OnlyRun
<1>4. session = Idle => session.pc = "idle"
  BY DEF Idle
<1>5. Continues(w, new)
  BY <1>2, <1>4 DEF Continues, Working
<1> QED
  BY <1>3, <1>5, OneStep

(* A transition of the phase. *)
LEMMA OnePhase ==
    ASSUME OneWorker, Inv, TruthInv, OneInv, NEW w \in Workers, Working(w), UNCHANGED <<stream, source, saved>>, ProviderKeeps,
           NEW new, control' = [control EXCEPT ![worker[w].run] = new],
           new.head = Stored(w).head, new.base = Stored(w).base, new.next = Stored(w).next,
           Exhausted(w, new),
           new.phase \in Early => Stored(w).phase \in Early /\ new.detached = Stored(w).detached,
           new.phase \notin Early =>
             \/ Stored(w).phase \notin Early
             \/ \A k \in DOMAIN Stored(w).head.batches : ~Unresolved(Stored(w).head.batches[k]),
           NEW session, worker' = [worker EXCEPT ![w] = session],
           \/ session = Idle
           \/ /\ session.run = worker[w].run /\ session.row = new /\ new.phase \notin Ended
              /\ session.pc \in Starting => new.phase \in Early
              /\ session.pc \in Extracting =>
                   worker[w].pc \in Extracting /\ session.read = worker[w].read /\ session.point = worker[w].point
    PROVE  OneInv' /\ Moves
<1>1. SettledRow(Stored(w))
  BY OneFacts
<1>2. Settles(Stored(w), new)
  BY <1>1 DEF Settles, SettledRow
<1> QED
  BY <1>2, OnePublish

(* The initialization. *)
LEMMA InitPhasesOne ==
    ASSUME OneWorker, Inv, TruthInv, OneInv, UNCHANGED stream, NEW w \in Workers,
           PrepareInit(w) \/ AcknowledgeInit(w) \/ RecoverInit(w)
    PROVE  OneInv' /\ Moves
<1> DEFINE new(phase) == [Stored(w) EXCEPT !.phase = phase]
           next(pc, phase) == [[worker[w] EXCEPT !.pc = pc] EXCEPT !.row = new(phase)]
<1>1. Working(w) /\ UNCHANGED <<source, saved>>
  BY DEF PrepareInit, AcknowledgeInit, RecoverInit, Working
<1>2. worker[w] \in Sessions /\ Stored(w) \in ControlRows
  BY <1>1, Facts DEF Inv
<1>3. \A phase : /\ new(phase).head = Stored(w).head /\ new(phase).phase = phase
                 /\ new(phase).base = Stored(w).base /\ new(phase).next = Stored(w).next /\ new(phase).detached = Stored(w).detached
  BY <1>2 DEF ControlRows
<1>4. \A pc, phase : /\ next(pc, phase).run = worker[w].run /\ next(pc, phase).row = new(phase)
                     /\ next(pc, phase).read = worker[w].read /\ next(pc, phase).point = worker[w].point
  BY <1>2 DEF Sessions
<1>5. \/ /\ control' = [control EXCEPT ![worker[w].run] = new("init_prepared")]
         /\ worker' = [worker EXCEPT ![w] = next("init", "init_prepared")] /\ worker[w].pc = "start"
      \/ /\ control' = [control EXCEPT ![worker[w].run] = new("running")]
         /\ worker' = [worker EXCEPT ![w] = next("read", "running")] /\ worker[w].pc = "ackInit"
      \/ /\ control' = [control EXCEPT ![worker[w].run] = new("new")]
         /\ worker' = [worker EXCEPT ![w] = Idle]
  BY DEF PrepareInit, AcknowledgeInit, RecoverInit, Publish, Stop, Stored
<1>6. ProviderKeeps
  BY DoneStays DEF PrepareInit, AcknowledgeInit, ProviderKeeps, KeepsDone
<1>7. Stored(w).phase \in {"new", "init_prepared"}
  BY DEF PrepareInit, AcknowledgeInit, RecoverInit, Publishable, Stored
<1>8. /\ {"init_prepared", "running", "new"} \subseteq Early /\ {"start", "ackInit"} \subseteq Extracting
      /\ {"init_prepared", "running", "new"} \cap Late = {} /\ {"init_prepared", "running", "new"} \cap Ended = {}
  BY DEF Early, Late, Ended, Extracting
<1>9. \A phase \in {"init_prepared", "running", "new"} : Exhausted(w, new(phase))
  BY <1>3, <1>8 DEF Exhausted
<1> HIDE DEF new, next
<1> QED
  BY <1>1, <1>3, <1>4, <1>5, <1>6, <1>7, <1>8, <1>9, OnePhase

(* Detach, and the preparation of an abort. *)
LEMMA DetachOne ==
    ASSUME OneWorker, Inv, TruthInv, OneInv, UNCHANGED stream, NEW w \in Workers, Detach(w) \/ PrepareAbort(w)
    PROVE  OneInv' /\ Moves
<1> DEFINE detached == [Stored(w) EXCEPT !.detached = TRUE]
           abort == [Stored(w) EXCEPT !.phase = "abort_prepared"]
           next == [[worker[w] EXCEPT !.pc = "abort"] EXCEPT !.row = abort]
<1>1. Working(w) /\ UNCHANGED <<source, saved, remote>>
  BY DEF Detach, PrepareAbort, Working
<1>2. worker[w] \in Sessions /\ Stored(w) \in ControlRows
  BY <1>1, Facts DEF Inv
<1>3. /\ detached.head = Stored(w).head /\ detached.phase = Stored(w).phase /\ detached.next = Stored(w).next
      /\ detached.base = Stored(w).base /\ abort.base = Stored(w).base
      /\ abort.head = Stored(w).head /\ abort.phase = "abort_prepared" /\ abort.next = Stored(w).next
      /\ next.run = worker[w].run /\ next.row = abort /\ next.pc = "abort"
  BY <1>2 DEF ControlRows, Sessions
<1>4. Known(w) = Stored(w)
  BY <1>1, OneFacts
<1>5. ProviderKeeps
  BY <1>1 DEF ProviderKeeps, KeepsDone
<1>6. /\ "abort" \notin Starting /\ "abort" \notin Extracting /\ Idle.pc \notin Starting
      /\ "abort_prepared" \notin Early \cup Late \cup Ended /\ {"batches_pending", "finish_pending"} \cap Early = {}
  BY DEF Starting, Extracting, Reading, Idle, Early, Late, Ended
<1>10. Exhausted(w, detached) /\ Exhausted(w, abort)
  BY <1>3, <1>6 DEF Exhausted
<1>7. CASE UNCHANGED control /\ Stop(w)
  <2>1. Local(w) /\ worker'[w] = Idle
    BY <1>1, <1>7, LocalMoves DEF Stop, Inv, TypeInv, WorkerType
  <2> QED
    BY <1>1, <1>5, <1>6, <1>7, <2>1, OneLocal
<1>8. CASE /\ Stored(w).phase \in {"batches_pending", "finish_pending"} /\ Stop(w)
           /\ control' = [control EXCEPT ![worker[w].run] = detached]
  <2> HIDE DEF detached
  <2> QED
    BY <1>1, <1>3, <1>5, <1>6, <1>8, <1>10, OnePhase DEF Stop
<1>9. CASE /\ \A k \in DOMAIN Stored(w).head.batches : ~Unresolved(Stored(w).head.batches[k])
           /\ control' = [control EXCEPT ![worker[w].run] = abort]
           /\ worker' = [worker EXCEPT ![w] = next]
  <2> HIDE DEF abort, next
  <2> QED
    BY <1>1, <1>3, <1>5, <1>6, <1>9, <1>10, OnePhase
<1> QED
  BY Zenon, <1>4, <1>7, <1>8, <1>9 DEF Detach, PrepareAbort, Publish, Stored, Batch

(* A receipt. *)
LEMMA ReceiptSettles ==
    ASSUME NEW row \in ControlRows, SettledRow(row), NEW k \in DOMAIN row.head.batches,
           NEW out \in {"none", "accepted", "staged", "rejected"}
    PROVE  Settles(row, WithReceipt(row, k, out)) /\ WithReceipt(row, k, out).phase = row.phase
<1> DEFINE old == row.head.batches
           batch == [old[k] EXCEPT !.status = "acknowledged", !.out = out]
           batches == [old EXCEPT ![k] = batch]
           head == [row.head EXCEPT !.batches = batches]
           new == [row EXCEPT !.head = head]
<1>1. row.head \in Heads /\ old \in Seq(Batches)
  BY DEF ControlRows, Heads
<1>2. batch.rows = old[k].rows /\ batch.cursor = old[k].cursor /\ batch.last = old[k].last /\ ~Unresolved(batch)
  <2>1. old[k] \in Batches
    BY <1>1
  <2> QED
    BY <2>1 DEF Batches, Unresolved
<1>3. DOMAIN batches = DOMAIN old /\ batches[k] = batch /\ \A j \in DOMAIN old \ {k} : batches[j] = old[j]
  BY <1>1
<1>4. head.batches = batches /\ head.run = row.head.run
  BY <1>1 DEF Heads
<1>5. WithReceipt(row, k, out) = new
  BY DEF WithReceipt
<1>6. new.head = head /\ new.phase = row.phase /\ new.base = row.base /\ new.next = row.next /\ new.detached = row.detached
  BY DEF ControlRows
<1> HIDE DEF batch, batches, head, new
<1>7. SettledRow(new)
  BY <1>2, <1>3, <1>4, <1>6 DEF SettledRow
<1>8. Settles(row, new)
  BY <1>2, <1>3, <1>4, <1>6, <1>7 DEF Settles
<1> QED
  BY <1>5, <1>6, <1>8

(* markUnknown() *)
LEMMA MarkUnknownOne ==
    ASSUME OneWorker, Inv, TruthInv, OneInv, UNCHANGED stream, NEW w \in Workers, MarkUnknown(w)
    PROVE  OneInv' /\ Moves
<1> DEFINE r == worker[w].run
           k == worker[w].k
           row == Stored(w)
           old == row.head.batches
           batch == [old[k] EXCEPT !.status = "unknown"]
           batches == [old EXCEPT ![k] = batch]
           head == [row.head EXCEPT !.batches = batches]
           new == [row EXCEPT !.head = head]
<1>1. /\ worker[w].pc = "mark" /\ Working(w) /\ TypeInv /\ UNCHANGED <<source, saved, remote>>
      /\ worker' = [worker EXCEPT ![w] = Idle] /\ Stop(w)
  BY DEF MarkUnknown, Working, Inv, Stop
<1>2. row \in ControlRows /\ row.head \in Heads /\ old \in Seq(Batches) /\ r \in DOMAIN control
  BY <1>1, Facts
<1>3. TrueReader(worker[w])
  BY <1>1, TruthFacts DEF TrueSession, Reading
<1>4. ProviderKeeps
  BY <1>1 DEF ProviderKeeps, KeepsDone
<1>10. Known(w) = row /\ SettledRow(row)
  BY <1>1, OneFacts
<1>5. CASE /\ row.phase = "running"
           /\ control' = [control EXCEPT ![r].head.batches[k].status = "unknown"]
  <2>1. k \in DOMAIN old
    BY <1>1, <1>3, <1>10 DEF TrueReader, Sending, Known
  <2>2. batch.rows = old[k].rows /\ batch.cursor = old[k].cursor /\ batch.last = old[k].last
    <3>1. old[k] \in Batches
      BY <1>2, <2>1
    <3> QED
      BY <3>1 DEF Batches
  <2>3. DOMAIN batches = DOMAIN old /\ batches[k] = batch /\ \A j \in DOMAIN old \ {k} : batches[j] = old[j]
    BY <1>2, <2>1
  <2>4. head.batches = batches /\ head.run = row.head.run
    BY <1>2 DEF Heads
  <2>5. new.head = head /\ new.phase = row.phase /\ new.base = row.base /\ new.next = row.next /\ new.detached = row.detached
    BY <1>2 DEF ControlRows
  <2>6. control' = [control EXCEPT ![r] = new]
    BY <1>1, <1>2, <1>5 DEF TypeInv, ControlType, Stored
  <2> HIDE DEF batch, batches, head, new
  <2>7. SettledRow(new)
    BY <1>5, <1>10, <2>5 DEF SettledRow, Early
  <2>8. Settles(row, new)
    BY <2>2, <2>3, <2>4, <2>5, <2>7 DEF Settles
  <2>9. Exhausted(w, new)
    BY <2>5 DEF Exhausted
  <2> QED
    BY <1>1, <1>4, <2>6, <2>8, <2>9, OnePublish
<1>6. CASE UNCHANGED control
  <2>1. Local(w) /\ worker'[w] = Idle
    BY <1>1, LocalMoves DEF TypeInv, WorkerType
  <2>2. Idle.pc \notin Starting
    BY DEF Idle, Starting, Extracting, Reading
  <2> QED
    BY <1>1, <1>4, <1>6, <2>1, <2>2, OneLocal
<1> QED
  BY <1>5, <1>6, <1>10 DEF MarkUnknown

(* acknowledge() *)
LEMMA AcknowledgeOne ==
    ASSUME OneWorker, Inv, TruthInv, OneInv, UNCHANGED stream, NEW w \in Workers, Acknowledge(w)
    PROVE  OneInv' /\ Moves
<1> DEFINE r == worker[w].run
           k == worker[w].k
           out == worker[w].result
           staged == worker[w].staged \/ out = "staged"
           receipt == WithReceipt(Stored(w), k, out)
           due == worker[w].since >= CheckpointEvery
           pc == IF due /\ stream.cursor /\ ~staged THEN "checkpoint" ELSE "read"
           failed == [worker[w] EXCEPT !.pc = "cleanup", !.row = receipt]
           goes == [worker[w] EXCEPT !.pc = pc, !.row = receipt, !.staged = staged,
                                     !.since = IF due /\ pc = "read" THEN 0 ELSE @]
<1>1. worker[w].pc = "ack" /\ Working(w) /\ UNCHANGED <<source, saved, remote>>
  BY DEF Acknowledge, Working
<1>2. worker[w] \in Sessions /\ Stored(w) \in ControlRows
  BY <1>1, Facts DEF Inv
<1>3. TrueReader(worker[w]) /\ TrueResult(stream.asynchronous, worker[w], remote[r])
  BY <1>1, TruthFacts DEF TrueSession, Reading
<1>4. Known(w) = Stored(w) /\ SettledRow(Stored(w))
  BY <1>1, OneFacts
<1>5. k \in DOMAIN Stored(w).head.batches /\ out \in {"accepted", "staged", "rejected"}
  BY <1>1, <1>3, <1>4 DEF TrueReader, TrueResult, Sending, Known
<1>6. failed.run = r /\ failed.row = receipt /\ failed.pc = "cleanup"
  BY <1>2 DEF Sessions
<1>7. goes.run = r /\ goes.row = receipt /\ goes.read = worker[w].read /\ goes.point = worker[w].point
  BY <1>2 DEF Sessions
<1>8. Settles(Stored(w), receipt) /\ receipt.phase = Stored(w).phase
  BY <1>2, <1>4, <1>5, ReceiptSettles
<1>9. /\ worker[w].pc \in Extracting /\ "cleanup" \notin Starting /\ "cleanup" \notin Extracting
      /\ "running" \in Early /\ "running" \notin Ended /\ Idle.pc \notin Starting
  BY <1>1 DEF Extracting, Reading, Starting, Early, Ended, Idle
<1>10. ProviderKeeps
  BY <1>1 DEF ProviderKeeps, KeepsDone
<1>11. CASE Stop(w) /\ UNCHANGED control
  <2>1. Local(w) /\ worker'[w] = Idle
    BY <1>1, <1>11, LocalMoves DEF Stop, Inv, TypeInv, WorkerType
  <2> QED
    BY <1>1, <1>9, <1>10, <1>11, <2>1, OneLocal
<1>12. ASSUME Stored(w).phase = "running", control' = [control EXCEPT ![r] = receipt],
              NEW session \in {Idle, failed, goes}, worker' = [worker EXCEPT ![w] = session]
       PROVE  OneInv' /\ Moves
  <2> HIDE DEF failed, goes, receipt
  <2>1. \/ session = Idle
        \/ /\ session.run = r /\ session.row = receipt
           /\ session.pc \in Extracting => session.read = worker[w].read /\ session.point = worker[w].point
    BY <1>6, <1>7, <1>9, <1>12
  <2>2. Exhausted(w, receipt)
    BY <1>8 DEF Exhausted
  <2> QED
    BY <1>1, <1>8, <1>9, <1>10, <1>12, <2>1, <2>2, OnePublish
<1>13. \/ Stop(w) /\ UNCHANGED control
       \/ /\ Stored(w).phase = "running" /\ control' = [control EXCEPT ![r] = receipt]
          /\ \E session \in {Idle, failed, goes} : worker' = [worker EXCEPT ![w] = session]
  <2>1. CASE Stop(w) /\ UNCHANGED control
    BY <2>1
  <2>2. CASE /\ Known(w).phase = "running" /\ Publishable(w, "any") /\ control' = [control EXCEPT ![r] = receipt]
             /\ worker' = [worker EXCEPT ![w] =
                  IF out = "rejected"
                  THEN IF stream.asynchronous /\ worker[w].staged THEN Idle ELSE failed
                  ELSE goes]
    <3> HIDE DEF failed, goes, receipt
    <3>1. \/ worker' = [worker EXCEPT ![w] = Idle]
          \/ worker' = [worker EXCEPT ![w] = failed]
          \/ worker' = [worker EXCEPT ![w] = goes]
      BY <2>2
    <3> QED
      BY <1>4, <2>2, <3>1
  <2> QED
    BY <2>1, <2>2 DEF Acknowledge
<1> HIDE DEF failed, goes, receipt
<1> QED
  BY <1>11, <1>12, <1>13

(* acknowledgeRecovered() *)
LEMMA AcknowledgeRecoveredOne ==
    ASSUME OneWorker, Inv, TruthInv, OneInv, UNCHANGED stream, NEW w \in Workers, AcknowledgeRecovered(w)
    PROVE  OneInv' /\ Moves
<1> DEFINE r == worker[w].run
           k == worker[w].k
           out == worker[w].result
           new == WithReceipt(Stored(w), k, out)
           session == [worker[w] EXCEPT !.pc = "recover", !.pending = @ \/ out = "staged"]
           next == [session EXCEPT !.row = new]
<1>1. worker[w].pc = "ackBatch" /\ Working(w) /\ UNCHANGED <<source, saved, remote>>
  BY DEF AcknowledgeRecovered, Working
<1>2. worker[w] \in Sessions /\ Stored(w) \in ControlRows
  BY <1>1, Facts DEF Inv
<1>3. TrueSession(stream.asynchronous, worker[w], remote[r])
  BY <1>1, TruthFacts
<1>4. Known(w) = Stored(w) /\ SettledRow(Stored(w)) /\ Stored(w).phase \notin Ended
  BY <1>1, OneFacts
<1>5. k \in DOMAIN Stored(w).head.batches /\ out \in {"accepted", "staged", "rejected"}
  BY <1>1, <1>3, <1>4 DEF TrueSession, TrueResult, Known
<1>6. session.pc = "recover" /\ session.run = r /\ session.row = Known(w)
  BY <1>2 DEF Sessions, Known
<1>7. next.pc = "recover" /\ next.run = r /\ next.row = new
  BY <1>2 DEF Sessions
<1>8. Settles(Stored(w), new) /\ new.phase = Stored(w).phase
  BY <1>2, <1>4, <1>5, ReceiptSettles
<1>9. ProviderKeeps /\ "recover" \notin Extracting /\ "recover" \notin Starting
  BY <1>1 DEF ProviderKeeps, KeepsDone, Extracting, Reading, Starting
<1>10. CASE worker' = [worker EXCEPT ![w] = session] /\ UNCHANGED control
  <2> HIDE DEF session
  <2>1. Local(w) /\ worker'[w] = session
    BY <1>6, <1>9, <1>10, LocalSession DEF Inv, TypeInv, WorkerType
  <2> QED
    BY <1>1, <1>6, <1>9, <1>10, <2>1, OneLocal
<1>11. CASE /\ control' = [control EXCEPT ![r] = new]
            /\ worker' = [worker EXCEPT ![w] = Idle] \/ worker' = [worker EXCEPT ![w] = next]
  <2> HIDE DEF next, new
  <2>1. next.pc \notin Starting /\ next.pc \notin Extracting /\ new.phase \notin Ended /\ Exhausted(w, new)
    BY <1>4, <1>7, <1>8, <1>9 DEF Exhausted
  <2>2. Working(w) /\ UNCHANGED <<stream, source, saved>> /\ control' = [control EXCEPT ![r] = new]
    BY <1>1, <1>11
  <2>3. CASE worker' = [worker EXCEPT ![w] = Idle]
    BY <1>8, <1>9, <2>1, <2>2, <2>3, OnePublish
  <2>4. CASE worker' = [worker EXCEPT ![w] = next]
    BY <1>7, <1>8, <1>9, <2>1, <2>2, <2>4, OnePublish
  <2> QED
    BY <1>11, <2>3, <2>4
<1>12. \/ worker' = [worker EXCEPT ![w] = session] /\ UNCHANGED control
       \/ /\ control' = [control EXCEPT ![r] = new]
          /\ worker' = [worker EXCEPT ![w] = Idle] \/ worker' = [worker EXCEPT ![w] = next]
  BY DEF AcknowledgeRecovered
<1> QED
  BY <1>10, <1>11, <1>12

(* The end of the extraction: sealExtraction() and prepareFinish(). *)
LEMMA SealingOne ==
    ASSUME OneWorker, Inv, TruthInv, OneInv, UNCHANGED stream, NEW w \in Workers, SealExtraction(w) \/ PrepareFinish(w)
    PROVE  OneInv' /\ Moves
<1> DEFINE sealed == [Stored(w) EXCEPT !.phase = "batches_pending"]
           finish == [Stored(w) EXCEPT !.phase = "finish_prepared", !.finish = worker[w].point.seq]
           next(pc, new) == [[worker[w] EXCEPT !.pc = pc] EXCEPT !.row = new]
<1>1. Working(w) /\ UNCHANGED <<source, saved, remote>>
  BY DEF SealExtraction, PrepareFinish, Working
<1>2. worker[w] \in Sessions /\ Stored(w) \in ControlRows
  BY <1>1, Facts DEF Inv
<1>3. /\ sealed.head = Stored(w).head /\ sealed.phase = "batches_pending" /\ sealed.next = Stored(w).next
      /\ finish.head = Stored(w).head /\ finish.phase = "finish_prepared" /\ finish.next = Stored(w).next
      /\ sealed.base = Stored(w).base /\ finish.base = Stored(w).base
  BY <1>2 DEF ControlRows
<1>4. \A pc, new : next(pc, new).run = worker[w].run /\ next(pc, new).row = new /\ next(pc, new).pc = pc
  BY <1>2 DEF Sessions
<1>5. ProviderKeeps
  BY <1>1 DEF ProviderKeeps, KeepsDone
<1>6. /\ {"batches_pending", "finish_prepared"} \subseteq Late /\ {"batches_pending", "finish_prepared"} \cap Early = {}
      /\ {"detach", "prepareFinish", "finish", "cleanup"} \cap Starting = {} /\ Extracting \subseteq Starting
      /\ {"batches_pending", "finish_prepared"} \cap Ended = {} /\ Idle.pc \notin Starting
  BY DEF Early, Late, Ended, Starting, Extracting, Reading, Idle
<1>7. Known(w) = Stored(w)
  BY <1>1, OneFacts
<1>8. worker[w].pc = "prepareFinish" => Stored(w).phase \in Late
  BY <1>1, <1>6, <1>7, TruthFacts DEF TrueSession, Known
<1>9. CASE /\ UNCHANGED control
           /\ worker' = [worker EXCEPT ![w] = Idle] \/ worker' = [worker EXCEPT ![w] = Cleanup(w, worker[w].staged)]
  <2>1. Local(w)
    BY <1>1, <1>9, LocalMoves DEF Stop
  <2>2. [worker[w] EXCEPT !.pc = "cleanup"].pc = "cleanup"
    BY <1>2 DEF Sessions
  <2>3. worker'[w].pc \notin Starting
    BY <1>6, <1>9, <2>2 DEF Cleanup, Inv, TypeInv, WorkerType
  <2> QED
    BY <1>1, <1>5, <1>9, <2>1, <2>3, OneLocal
<1>10. ASSUME NEW new \in {sealed, finish}, NEW pc \in {"detach", "prepareFinish", "finish"},
              \A k \in DOMAIN Stored(w).head.batches : ~Unresolved(Stored(w).head.batches[k]),
              worker[w].pc = "prepareFinish" \/ (worker[w].pc = "read" /\ Unread(w) = {}),
              control' = [control EXCEPT ![worker[w].run] = new],
              worker' = [worker EXCEPT ![w] = next(pc, new)]
       PROVE  OneInv' /\ Moves
  <2>1. /\ next(pc, new).run = worker[w].run /\ next(pc, new).row = new
        /\ next(pc, new).pc \notin Starting /\ next(pc, new).pc \notin Extracting
    BY <1>4, <1>6
  <2>2. /\ new.head = Stored(w).head /\ new.base = Stored(w).base /\ new.next = Stored(w).next
        /\ new.phase \notin Early /\ new.phase \notin Ended
    BY <1>3, <1>6
  <2>3. Exhausted(w, new)
    BY <1>8, <1>10 DEF Exhausted
  <2> HIDE DEF sealed, finish, next
  <2> QED
    BY <1>1, <1>5, <1>10, <2>1, <2>2, <2>3, OnePhase
<1>11. CASE SealExtraction(w)
  <2>1. \/ /\ UNCHANGED control
           /\ worker' = [worker EXCEPT ![w] = Cleanup(w, worker[w].staged)]
        \/ /\ \A k \in DOMAIN Stored(w).head.batches : ~Unresolved(Stored(w).head.batches[k])
           /\ control' = [control EXCEPT ![worker[w].run] = sealed]
           /\ \E pc \in {"detach", "prepareFinish"} : worker' = [worker EXCEPT ![w] = next(pc, sealed)]
    BY <1>7, <1>11 DEF SealExtraction, Publish, Batch
  <2>2. worker[w].pc = "read" /\ Unread(w) = {}
    BY <1>11 DEF SealExtraction
  <2> HIDE DEF sealed, next
  <2> QED
    BY <1>9, <1>10, <2>1, <2>2
<1>12. CASE PrepareFinish(w)
  <2>1. \/ /\ UNCHANGED control
           /\ worker' = [worker EXCEPT ![w] = Idle] \/ worker' = [worker EXCEPT ![w] = Cleanup(w, worker[w].staged)]
        \/ /\ \A k \in DOMAIN Stored(w).head.batches : ~Unresolved(Stored(w).head.batches[k])
           /\ control' = [control EXCEPT ![worker[w].run] = finish]
           /\ worker' = [worker EXCEPT ![w] = next("finish", finish)]
    BY <1>7, <1>12 DEF PrepareFinish, Publish, Batch, Finishable
  <2>2. worker[w].pc = "prepareFinish" \/ (worker[w].pc = "read" /\ Unread(w) = {})
    BY <1>12 DEF PrepareFinish
  <2> HIDE DEF finish, next
  <2> QED
    BY <1>9, <1>10, <2>1, <2>2
<1> QED
  BY <1>11, <1>12

(* finish() *)
LEMMA FinishReceiptsOne ==
    ASSUME OneWorker, Inv, TruthInv, OneInv, UNCHANGED stream, NEW w \in Workers, AcknowledgeFinish(w) \/ ResolveFinish(w)
    PROVE  OneInv' /\ Moves
<1> DEFINE r == worker[w].run
           K == Known(w).head.batches
           row(phase) == [Stored(w) EXCEPT !.phase = phase]
           next(pc, phase) == [[worker[w] EXCEPT !.pc = pc] EXCEPT !.row = row(phase)]
<1>1. worker[w].pc \in {"ackFinish", "resolve"} /\ Working(w) /\ UNCHANGED <<source, saved, remote>>
  BY DEF AcknowledgeFinish, ResolveFinish, Working
<1>2. worker[w] \in Sessions /\ Stored(w) \in ControlRows
  BY <1>1, Facts DEF Inv
<1>3. Known(w) = Stored(w) /\ SettledRow(Stored(w)) /\ Stored(w).phase \notin Ended
  BY <1>1, OneFacts
<1>4. Stored(w).phase \in Late
  BY <1>1, <1>3 DEF Inv, SideInv, Known, FinishSide, Late, Ended
<1>5. /\ ProviderKeeps /\ {"detach", "resolve", "commit"} \cap Starting = {} /\ Extracting \subseteq Starting
      /\ {"finish_pending", "finish_resolving", "finish_accepted"} \cap (Early \cup Ended) = {} /\ Late \cap Early = {}
  BY <1>1 DEF ProviderKeeps, KeepsDone, Starting, Extracting, Reading, Early, Late, Ended
<1>6. \A new : Exhausted(w, new)
  BY <1>4 DEF Exhausted
<1>7. \A phase : /\ row(phase).head = Stored(w).head /\ row(phase).phase = phase
                 /\ row(phase).base = Stored(w).base /\ row(phase).next = Stored(w).next
  BY <1>2 DEF ControlRows
<1>8. ASSUME NEW phase \in {"finish_pending", "finish_resolving", "finish_accepted"}, NEW session,
             control' = [control EXCEPT ![r] = row(phase)], worker' = [worker EXCEPT ![w] = session],
             session.run = r, session.row = row(phase), session.pc \in {"detach", "resolve", "commit"}
      PROVE  OneInv' /\ Moves
  <2> HIDE DEF row
  <2>1. /\ row(phase).head = Stored(w).head /\ row(phase).base = Stored(w).base
        /\ row(phase).next = Stored(w).next /\ Stored(w).phase \notin Early
        /\ row(phase).phase \notin Early /\ row(phase).phase \notin Ended
        /\ session.pc \notin Starting /\ session.pc \notin Extracting
    BY <1>4, <1>5, <1>7, <1>8
  <2> QED
    BY <1>1, <1>5, <1>6, <1>8, <2>1, OnePhase
<1>9. CASE AcknowledgeFinish(w)
  <2>1. \A pc, phase : next(pc, phase).run = r /\ next(pc, phase).row = row(phase) /\ next(pc, phase).pc = pc
    BY <1>2 DEF Sessions
  <2>2. \/ UNCHANGED control /\ \E pc \in {"detach", "resolve"} : Goto(w, pc)
        \/ \E phase \in {"finish_pending", "finish_resolving"}, pc \in {"detach", "resolve"} :
              /\ control' = [control EXCEPT ![r] = row(phase)]
              /\ worker' = [worker EXCEPT ![w] = next(pc, phase)]
    BY <1>9 DEF AcknowledgeFinish, Publish
  <2> HIDE DEF row, next
  <2>3. ASSUME UNCHANGED control, NEW pc \in {"detach", "resolve"}, Goto(w, pc) PROVE OneInv' /\ Moves
    <3>1. Local(w)
      BY <1>1, <1>5, <2>3, LocalMoves
    <3>2. worker'[w].pc = pc
      BY <1>2, <2>3 DEF Goto, Inv, TypeInv, WorkerType, Sessions
    <3> QED
      BY <1>1, <1>5, <2>3, <3>1, <3>2, OneLocal
  <2> QED
    BY <1>8, <2>1, <2>2, <2>3
<1>10. CASE ResolveFinish(w)
  <2> DEFINE staged == {k \in DOMAIN K : Staged(K[k])}
             session == [worker[w] EXCEPT !.pc = "commit",
                                          !.point = IF worker[w].recovered
                                                    THEN FinalPoint(Known(w), Known(w).next) ELSE @]
  <2>1. /\ worker[w].pc = "resolve"
        /\ \/ \E k \in staged : Publish(w, WithReceipt(Stored(w), k, "accepted"), worker[w])
           \/ Publish(w, row("finish_accepted"), session)
    BY <1>10 DEF ResolveFinish
  <2>2. ASSUME NEW k \in staged, NEW new, new = WithReceipt(Stored(w), k, "accepted"), Publish(w, new, worker[w])
        PROVE  OneInv' /\ Moves
    <3> DEFINE resolves == [worker[w] EXCEPT !.row = new]
    <3>1. resolves.run = r /\ resolves.row = new /\ resolves.pc = "resolve"
      BY <1>2, <2>1 DEF Sessions
    <3>2. control' = [control EXCEPT ![r] = new] /\ worker' = [worker EXCEPT ![w] = resolves]
      BY <2>2 DEF Publish
    <3> HIDE DEF resolves
    <3>3. Settles(Stored(w), new) /\ new.phase \notin Ended
      BY <1>2, <1>3, <2>2, ReceiptSettles
    <3>4. resolves.pc \notin Starting /\ resolves.pc \notin Extracting
      BY <1>5, <3>1
    <3> QED
      BY <1>1, <1>5, <1>6, <3>1, <3>2, <3>3, <3>4, OnePublish
  <2>3. CASE Publish(w, row("finish_accepted"), session)
    <3> DEFINE commits == [session EXCEPT !.row = row("finish_accepted")]
    <3>1. commits.run = r /\ commits.row = row("finish_accepted") /\ commits.pc = "commit"
      BY <1>2 DEF Sessions
    <3>2. /\ control' = [control EXCEPT ![r] = row("finish_accepted")]
          /\ worker' = [worker EXCEPT ![w] = commits]
      BY <2>3 DEF Publish
    <3> HIDE DEF commits, session, row
    <3> QED
      BY <1>8, <3>1, <3>2
  <2> HIDE DEF row, session
  <2> QED
    BY <2>1, <2>2, <2>3
<1> QED
  BY <1>9, <1>10

(* acknowledgeAbort() *)
LEMMA AcknowledgeAbortOne ==
    ASSUME OneWorker, Inv, TruthInv, OneInv, UNCHANGED stream, NEW w \in Workers, AcknowledgeAbort(w)
    PROVE  OneInv' /\ Moves
<1> DEFINE r == worker[w].run
           row == Stored(w)
           old == row.head.batches
           cancelled == [k \in DOMAIN old |->
                            IF Staged(old[k]) THEN [old[k] EXCEPT !.status = "cancelled"] ELSE old[k]]
           head == [row.head EXCEPT !.batches = cancelled]
           new == [row EXCEPT !.phase = "aborted", !.head = head]
<1>1. /\ Working(w) /\ UNCHANGED <<source, saved, remote>>
      /\ worker' = [worker EXCEPT ![w] = Idle] /\ row.phase = "abort_prepared"
  BY DEF AcknowledgeAbort, Working, Stop, Publishable, Stored
<1>2. row \in ControlRows /\ row.head \in Heads /\ old \in Seq(Batches)
  BY <1>1, Facts DEF Inv
<1>3. head.batches = cancelled /\ head.run = row.head.run
  BY <1>2 DEF Heads
<1>4. new.head = head /\ new.phase = "aborted" /\ new.base = row.base /\ new.next = row.next
  BY <1>2 DEF ControlRows
<1>5. control' = [control EXCEPT ![r] = new]
  BY DEF AcknowledgeAbort
<1>6. \A k \in DOMAIN old : /\ cancelled[k].rows = old[k].rows /\ cancelled[k].cursor = old[k].cursor
                            /\ cancelled[k].last = old[k].last
                            /\ cancelled[k].status = "cancelled" \/ cancelled[k] = old[k]
  <2> SUFFICES ASSUME NEW k \in DOMAIN old
               PROVE  /\ cancelled[k].rows = old[k].rows /\ cancelled[k].cursor = old[k].cursor
                      /\ cancelled[k].last = old[k].last
                      /\ cancelled[k].status = "cancelled" \/ cancelled[k] = old[k]
    OBVIOUS
  <2>1. old[k] \in Batches
    BY <1>2
  <2> QED
    BY <2>1 DEF Batches
<1>7. DOMAIN cancelled = DOMAIN old
  OBVIOUS
<1>8. \A k \in DOMAIN old : ~Unresolved(old[k])
  BY <1>1, OneFacts DEF SettledRow, Early
<1> HIDE DEF cancelled, head, new
<1>9. SettledRow(new)
  BY <1>3, <1>4, <1>6, <1>7, <1>8 DEF SettledRow, Early, Unresolved
<1>10. Settles(row, new) /\ Exhausted(w, new)
  BY <1>3, <1>4, <1>6, <1>7, <1>9 DEF Settles, Exhausted, Early, Late
<1>11. ProviderKeeps
  BY <1>1 DEF ProviderKeeps, KeepsDone
<1> QED
  BY <1>1, <1>5, <1>10, <1>11, OnePublish

(* The resume point is the one of a batch that ends there, if there is one. *)
LEMMA FinalCursor ==
    ASSUME NEW row, NEW n
    PROVE  \/ \E k \in DOMAIN row.head.batches :
                 row.head.batches[k].last = n /\ FinalPoint(row, n).cursor = row.head.batches[k].cursor
           \/ /\ \A k \in DOMAIN row.head.batches : row.head.batches[k].last # n
              /\ FinalPoint(row, n).cursor = IF stream.cursor THEN saved.point.cursor ELSE 0
<1> DEFINE K == row.head.batches
<1>1. CASE \E b \in Batch(K) : b.last = n
  <2> DEFINE b == CHOOSE x \in Batch(K) : x.last = n
  <2>1. b \in Batch(K) /\ b.last = n
    BY <1>1
  <2>2. PICK k \in DOMAIN K : b = K[k]
    BY <2>1 DEF Batch
  <2>3. FinalPoint(row, n).cursor = b.cursor
    BY <1>1 DEF FinalPoint
  <2> HIDE DEF b
  <2> QED
    BY <2>1, <2>2, <2>3
<1>2. CASE ~ \E b \in Batch(K) : b.last = n
  <2>1. FinalPoint(row, n).cursor = IF stream.cursor THEN saved.point.cursor ELSE 0
    BY <1>2 DEF FinalPoint
  <2> QED
    BY <1>2, <2>1 DEF Batch
<1> QED
  BY <1>1, <1>2

(* What commitCheckpoint() does to the saved state.  The cursor moves to the   *)
(* end of a batch of a run that is not older than the one that set it, or stays. *)
LEMMA MergedCursor ==
    ASSUME Inv, TruthInv, OneInv, NEW w \in Workers, worker[w].pc \notin {"idle", "open"}, NEW point, point = worker[w].point,
           NEW complete, Checkpointable(w, point, complete), saved' = Merged(point, worker[w].run)
    PROVE  /\ saved'.runOrder # 0
           /\ \/ /\ saved'.point.cursor = saved.point.cursor
                 /\ saved'.checkpointRunOrder \in {saved.checkpointRunOrder} \cup (IF stream.cursor THEN {} ELSE {worker[w].run})
              \/ /\ stream.cursor /\ worker[w].run >= saved.checkpointRunOrder
                 /\ saved'.checkpointRunOrder = worker[w].run /\ saved'.point.cursor = point.cursor
                 /\ \E k \in DOMAIN Stored(w).head.batches :
                      Stored(w).head.batches[k].last = point.seq /\ Stored(w).head.batches[k].cursor = point.cursor
<1> DEFINE r == worker[w].run
           row == Stored(w)
<1>1. Working(w)
  BY DEF Working
<1>2. /\ r \in DOMAIN control /\ r \in Nat /\ r > 0 /\ row \in ControlRows /\ point \in Points
      /\ saved.runOrder \in Nat /\ saved.checkpointRunOrder \in Nat /\ row.base \in Nat /\ point.seq \in Nat
  <2>1. r \in DOMAIN control /\ row \in ControlRows /\ worker[w] \in Sessions
    BY <1>1, Facts DEF Inv
  <2>2. r \in Runs /\ point \in Points
    BY <2>1 DEF Sessions
  <2>3. row.base \in Nat /\ point.seq \in Nat
    BY <2>1, <2>2 DEF ControlRows, Points
  <2>4. saved.runOrder \in Nat /\ saved.checkpointRunOrder \in Nat
    BY ConstantsAssumption DEF Inv, TypeInv, SavedType
  <2>5. r \in Nat /\ r > 0
    BY <2>2, ConstantsAssumption DEF Runs
  <2> QED
    BY <2>1, <2>2, <2>3, <2>4, <2>5
<1>3. Known(w) = row /\ row = control[r] /\ row.head.run = r
  BY <1>1, OneFacts, TruthFacts DEF Stored
<1>4. point.cursor = FinalPoint(row, point.seq).cursor
  BY <1>3 DEF Checkpointable
<1>5. /\ saved.runOrder = 0 => saved.checkpointRunOrder = 0
      /\ ~stream.cursor => saved.point.cursor = 0 /\ \A k \in DOMAIN row.head.batches : row.head.batches[k].cursor = 0
      /\ \A k \in DOMAIN row.head.batches : row.base < row.head.batches[k].last
  BY <1>2, <1>3 DEF OneInv, PositionInv
<1>6. saved'.runOrder # 0
  BY <1>2 DEF Merged
<1>7. CASE ~stream.cursor
  <2>1. point.cursor = 0
    BY <1>4, <1>5, <1>7, FinalCursor
  <2>2. /\ saved'.point \in {point, saved.point}
        /\ saved'.checkpointRunOrder \in {saved.checkpointRunOrder, r}
    BY DEF Merged
  <2> QED
    BY <1>5, <1>6, <1>7, <2>1, <2>2
<1>8. CASE stream.cursor /\ point.seq > row.base /\ r >= saved.checkpointRunOrder
  <2>1. saved'.point = point /\ saved'.checkpointRunOrder = r
    BY <1>3, <1>8 DEF Merged
  <2>2. \E b \in Batch(row.head.batches) : b.last = point.seq
    BY <1>3, <1>8 DEF Checkpointable
  <2>3. \E k \in DOMAIN row.head.batches : row.head.batches[k].last = point.seq
    BY <2>2 DEF Batch
  <2>4. \E k \in DOMAIN row.head.batches :
            row.head.batches[k].last = point.seq /\ point.cursor = row.head.batches[k].cursor
    BY <1>4, <2>3, FinalCursor
  <2> QED
    BY <1>6, <1>8, <2>1, <2>4
<1>9. CASE stream.cursor /\ ~(point.seq > row.base /\ r >= saved.checkpointRunOrder)
  <2>1. /\ saved'.checkpointRunOrder = saved.checkpointRunOrder
        /\ saved'.point = saved.point \/ (saved'.point = point /\ saved.runOrder = 0)
    BY <1>3, <1>9 DEF Merged
  <2>2. saved.runOrder = 0 => point.cursor = saved.point.cursor
    <3> SUFFICES ASSUME saved.runOrder = 0 PROVE point.cursor = saved.point.cursor
      OBVIOUS
    <3>1. ~(point.seq > row.base)
      BY <1>2, <1>5, <1>9
    <3>2. \A k \in DOMAIN row.head.batches : row.head.batches[k].last # point.seq
      BY <1>2, <1>5, <3>1
    <3> QED
      BY <1>4, <1>9, <3>2, FinalCursor
  <2> QED
    BY <1>6, <2>1, <2>2
<1> QED
  BY <1>7, <1>8, <1>9

(* The provider has taken the same rows when heads and provider are unchanged. *)
LEMMA SameDelivered ==
    ASSUME DOMAIN control' = DOMAIN control, UNCHANGED remote,
           \A q \in DOMAIN control : control'[q].head = control[q].head
    PROVE  Delivered' = Delivered
  BY DEF Delivered

(* A transition that saves a point. *)
LEMMA OneSave ==
    ASSUME OneWorker, Inv, Inv', TruthInv, OneInv, NEW w \in Workers, worker[w].pc \notin {"idle", "open"}, OnlyRun(w),
           UNCHANGED <<source, remote>>, NEW point, point = worker[w].point,
           NEW complete, Checkpointable(w, point, complete), saved' = Merged(point, worker[w].run),
           NEW new, new = control'[worker[w].run], Settles(Stored(w), new), new.head = Stored(w).head, Continues(w, new),
           \/ worker[w].pc = "checkpoint" /\ new.phase \in Early
           \/ /\ new.phase \notin Late /\ Stored(w).phase \in Late /\ point.seq = Stored(w).next
              /\ worker'[w].pc \notin Extracting
    PROVE  OneInv' /\ Moves
<1> DEFINE r == worker[w].run
           row == Stored(w)
<1>1. Working(w) /\ ProviderKeeps
  BY DEF Working, ProviderKeeps, KeepsDone
<1>2. /\ stream' = stream /\ DOMAIN control' = DOMAIN control /\ control'[r] = new
      /\ \A q \in DOMAIN control \ {r} : control'[q] = control[q]
  BY DEF OnlyRun
<1>3. \A v \in Workers : v = w
  BY DEF OneWorker
<1>4. /\ r \in DOMAIN control /\ r \in 1 .. Len(control) /\ Known(w) = row
      /\ row.phase \in Early => r = Len(control)
      /\ worker[w].pc = "checkpoint" => row.phase \in Early
  BY <1>1, OneFacts DEF Starting, Extracting, Reading
<1>5. CurrentInv' /\ SettledInv' /\ QueueInv'
  BY <1>1, OneJournal
<1>6. \A q \in DOMAIN control : Settles(control[q], control'[q]) /\ Final(control'[q]) = Final(control[q])
  BY <1>1, OneJournal
<1>7. Delivered' = Delivered
  <2>1. \A q \in DOMAIN control : control'[q].head = control[q].head
    BY <1>2 DEF Stored
  <2> QED
    BY <1>2, <2>1, SameDelivered
<1>8. /\ saved'.runOrder # 0
      /\ \/ /\ saved'.point.cursor = saved.point.cursor
            /\ saved'.checkpointRunOrder \in {saved.checkpointRunOrder} \cup (IF stream.cursor THEN {} ELSE {r})
         \/ /\ stream.cursor /\ r >= saved.checkpointRunOrder
            /\ saved'.checkpointRunOrder = r /\ saved'.point.cursor = point.cursor
            /\ \E k \in DOMAIN row.head.batches : row.head.batches[k].last = point.seq /\ row.head.batches[k].cursor = point.cursor
  BY MergedCursor
<1>9. /\ saved.point.cursor \in Nat /\ saved'.point.cursor \in Nat /\ source \in Nat /\ point.cursor \in Nat
      /\ saved.checkpointRunOrder \in Nat /\ saved'.checkpointRunOrder \in Nat /\ DOMAIN control = 1 .. Len(control)
      /\ Len(control) \in Nat /\ r \in Nat
  <2>1. worker[w] \in Sessions
    BY <1>1, Facts DEF Inv
  <2>2. r \in Runs /\ point \in Points
    BY <2>1 DEF Sessions
  <2>3. r \in Nat /\ point.cursor \in Nat
    BY <2>2, ConstantsAssumption DEF Points, Runs
  <2>4. saved.point.cursor \in Nat /\ saved.checkpointRunOrder \in Nat
    BY ConstantsAssumption DEF Inv, TypeInv, SavedType, Points
  <2>5. saved'.point.cursor \in Nat /\ saved'.checkpointRunOrder \in Nat
    BY ConstantsAssumption DEF Inv, TypeInv, SavedType, Points
  <2>6. source \in Nat /\ DOMAIN control = 1 .. Len(control) /\ Len(control) \in Nat
    BY ConstantsAssumption DEF Inv, TypeInv, ControlType
  <2> QED
    BY <2>3, <2>4, <2>5, <2>6
<1>10. stream.cursor /\ worker[w].pc = "checkpoint" =>
         /\ worker[w].read = point.cursor /\ saved.point.cursor <= point.cursor /\ point.cursor <= source
         /\ \A k \in Final(row) : row.head.batches[k].cursor = point.cursor
  BY <1>4 DEF OneInv, PointInv, Extracting, Reading, Known
<1>11. saved.point.cursor <= saved'.point.cursor /\ saved'.point.cursor <= source
  <2>1. saved.point.cursor <= source
    BY DEF OneInv, PositionInv
  <2>2. CASE saved'.point.cursor = saved.point.cursor
    BY <1>9, <2>1, <2>2
  <2>3. CASE saved'.point.cursor # saved.point.cursor
    <3>1. PICK k \in DOMAIN row.head.batches : row.head.batches[k].last = point.seq /\ row.head.batches[k].cursor = point.cursor
      BY <1>8, <2>3
    <3>2. point.cursor <= source
      BY <1>4, <3>1 DEF OneInv, PositionInv, Stored
    <3>3. CASE worker[w].pc = "checkpoint"
      BY <1>8, <1>10, <2>3, <3>2, <3>3
    <3>4. CASE row.phase \in Late /\ point.seq = row.next
      <4>1. k \in Final(row)
        BY <3>1, <3>4 DEF Final
      <4>2. saved.point.cursor <= row.head.batches[k].cursor
        BY <1>4, <1>8, <2>3, <3>4, <4>1 DEF OneInv, OrderInv, Stored
      <4> QED
        BY <1>8, <2>3, <3>1, <3>2, <4>2
    <3> QED
      BY <3>3, <3>4
  <2> QED
    BY <2>2, <2>3
<1>12. PositionInv'
  <2>1. ~stream.cursor => saved'.point.cursor = 0
    BY <1>8 DEF OneInv, PositionInv
  <2>2. \A q \in DOMAIN control :
         /\ control'[q].base <= control'[q].next
         /\ \A k \in DOMAIN control'[q].head.batches :
              /\ control'[q].head.batches[k].cursor <= source
              /\ ~stream.cursor => control'[q].head.batches[k].cursor = 0
              /\ control'[q].head.run = q => /\ control'[q].base < control'[q].head.batches[k].last
                                             /\ control'[q].head.batches[k].last <= control'[q].next
    BY <1>6 DEF OneInv, PositionInv, Settles
  <2> QED
    BY <1>2, <1>8, <1>11, <2>1, <2>2 DEF PositionInv
<1>13. OrderInv'
  <2> SUFFICES ASSUME stream.cursor, NEW q \in DOMAIN control, control'[q].phase \in Late, NEW k \in Final(control'[q])
               PROVE  /\ q >= saved'.checkpointRunOrder => saved'.point.cursor <= control'[q].head.batches[k].cursor
                      /\ \A p \in DOMAIN control : p < q /\ control'[p].phase \in Late =>
                           \A j \in Final(control'[p]) :
                               control'[p].head.batches[j].cursor <= control'[q].head.batches[k].cursor
    BY <1>2 DEF OrderInv
  <2>1. new.phase \notin Late
    BY DEF Early, Late
  <2>2. \A p \in DOMAIN control : control'[p].phase \in Late => p # r /\ control'[p] = control[p]
    BY <1>2, <2>1
  <2>3. /\ q >= saved.checkpointRunOrder => saved.point.cursor <= control[q].head.batches[k].cursor
        /\ \A p \in DOMAIN control : p < q /\ control[p].phase \in Late =>
             \A j \in Final(control[p]) : control[p].head.batches[j].cursor <= control[q].head.batches[k].cursor
    BY <2>2 DEF OneInv, OrderInv
  <2>4. q >= saved'.checkpointRunOrder => saved'.point.cursor <= control[q].head.batches[k].cursor
    <3>1. CASE saved'.point.cursor = saved.point.cursor /\ saved'.checkpointRunOrder = saved.checkpointRunOrder
      BY <2>3, <3>1
    <3>2. CASE saved'.checkpointRunOrder = r /\ worker[w].pc = "checkpoint"
      BY <1>4, <1>9, <2>2, <3>2
    <3>3. CASE /\ saved'.checkpointRunOrder = r /\ saved'.point.cursor = point.cursor
               /\ row.phase \in Late /\ point.seq = row.next
               /\ \E j \in DOMAIN row.head.batches : row.head.batches[j].last = point.seq /\ row.head.batches[j].cursor = point.cursor
      <4>1. PICK j \in DOMAIN row.head.batches : row.head.batches[j].last = point.seq /\ row.head.batches[j].cursor = point.cursor
        BY <3>3
      <4>2. j \in Final(control[r]) /\ control[r].phase \in Late /\ control[r].head.batches[j].cursor = saved'.point.cursor
        BY <3>3, <4>1 DEF Final, Stored
      <4>3. q >= r => r < q
        BY <1>9, <2>2
      <4> QED
        BY <1>4, <2>3, <3>3, <4>2, <4>3
    <3> QED
      BY <1>8, <3>1, <3>2, <3>3
  <2> QED
    BY <2>2, <2>3, <2>4
<1>14. PointInv'
  <2> SUFFICES ASSUME stream.cursor, worker'[w].pc \in Extracting
               PROVE  /\ worker'[w].read = worker'[w].point.cursor
                      /\ saved'.point.cursor <= worker'[w].read /\ worker'[w].read <= source
                      /\ \A k \in Final(worker'[w].row) : worker'[w].row.head.batches[k].cursor = worker'[w].read
    BY <1>2, <1>3 DEF PointInv
  <2>1. Working(w)' /\ worker[w].pc = "checkpoint"
    BY DEF Working, Extracting, Reading
  <2>2. /\ worker'[w].row = new /\ worker'[w].read = worker[w].read /\ worker'[w].point = worker[w].point
    BY <2>1 DEF Continues
  <2>3. saved'.point.cursor <= point.cursor
    BY <1>8, <1>9, <1>10, <2>1
  <2>4. Final(new) = Final(row)
    BY <1>2, <1>4, <1>6 DEF Stored
  <2> QED
    BY <1>10, <2>1, <2>2, <2>3, <2>4
<1> QED
  BY <1>5, <1>7, <1>11, <1>12, <1>13, <1>14 DEF OneInv, Moves

(* commitCheckpoint() *)
LEMMA CheckpointOne ==
    ASSUME OneWorker, Inv, Inv', TruthInv, OneInv, UNCHANGED stream, NEW w \in Workers, Checkpoint(w) \/ CommitComplete(w)
    PROVE  OneInv' /\ Moves
<1> DEFINE point == worker[w].point
           r == worker[w].run
           new == [Stored(w) EXCEPT !.checkpoint = point.seq]
           next == [[worker[w] EXCEPT !.pc = "read", !.since = 0] EXCEPT !.row = new]
           done == [Stored(w) EXCEPT !.checkpoint = point.seq, !.phase = "complete"]
<1>1. Working(w) /\ UNCHANGED <<source, remote>> /\ worker[w].pc \notin {"idle", "open"}
  BY DEF Checkpoint, CommitComplete, Working
<1>2. worker[w] \in Sessions /\ Stored(w) \in ControlRows /\ r \in DOMAIN control /\ TypeInv
  BY <1>1, Facts DEF Inv
<1>3. /\ new.head = Stored(w).head /\ new.phase = Stored(w).phase /\ new.base = Stored(w).base /\ new.next = Stored(w).next
      /\ new.detached = Stored(w).detached
      /\ done.head = Stored(w).head /\ done.phase = "complete" /\ done.base = Stored(w).base /\ done.next = Stored(w).next
  BY <1>2 DEF ControlRows
<1>4. next.run = r /\ next.row = new /\ next.pc = "read" /\ next.read = worker[w].read /\ next.point = point
  BY <1>2 DEF Sessions
<1>5. Known(w) = Stored(w) /\ SettledRow(Stored(w))
  BY <1>1, OneFacts
<1>6. \/ worker' = [worker EXCEPT ![w] = Idle] /\ UNCHANGED <<control, saved>>
      \/ worker' = [worker EXCEPT ![w] = Cleanup(w, worker[w].staged)] /\ UNCHANGED <<control, saved>>
      \/ /\ worker[w].pc = "checkpoint" /\ Checkpointable(w, point, FALSE)
         /\ control' = [control EXCEPT ![r] = new] /\ worker' = [worker EXCEPT ![w] = next]
         /\ saved' = Merged(point, r)
      \/ /\ Checkpointable(w, point, TRUE)
         /\ control' = [control EXCEPT ![r].checkpoint = point.seq, ![r].phase = "complete"]
         /\ worker' = [worker EXCEPT ![w] = Idle]
         /\ saved' = Merged(point, r)
  BY DEF Checkpoint, CommitComplete, Publish, Stop
<1>7. CASE \/ worker' = [worker EXCEPT ![w] = Idle] /\ UNCHANGED <<control, saved>>
           \/ worker' = [worker EXCEPT ![w] = Cleanup(w, worker[w].staged)] /\ UNCHANGED <<control, saved>>
  <2>1. Local(w) /\ ProviderKeeps
    BY <1>1, <1>7, LocalMoves DEF Stop, ProviderKeeps, KeepsDone
  <2>2. [worker[w] EXCEPT !.pc = "cleanup"].pc = "cleanup"
    BY <1>2 DEF Sessions
  <2>5. worker'[w] = Idle \/ worker'[w] = Cleanup(w, worker[w].staged)
    BY <1>2, <1>7 DEF TypeInv, WorkerType
  <2>6. Idle.pc = "idle" /\ Cleanup(w, worker[w].staged).pc \in {"idle", "cleanup"}
    BY <2>2 DEF Cleanup, Idle
  <2>3. worker'[w].pc \in {"idle", "cleanup"}
    BY <2>5, <2>6
  <2>4. worker'[w].pc \notin Starting
    BY <2>3 DEF Starting, Extracting, Reading
  <2> QED
    BY <1>1, <1>7, <2>1, <2>4, OneLocal
<1>8. CASE /\ worker[w].pc = "checkpoint" /\ Checkpointable(w, point, FALSE)
           /\ control' = [control EXCEPT ![r] = new] /\ worker' = [worker EXCEPT ![w] = next]
           /\ saved' = Merged(point, r)
  <2>1. Stored(w).phase = "running"
    BY <1>5, <1>8 DEF Checkpointable
  <2>2. "running" \in Early /\ "running" \notin Ended /\ worker[w].pc \in Extracting
    BY <1>8 DEF Early, Ended, Extracting, Reading
  <2> HIDE DEF new, next
  <2>3. control'[r] = new /\ worker'[w] = next /\ OnlyRun(w)
    BY <1>2, <1>8 DEF TypeInv, ControlType, WorkerType, OnlyRun
  <2>4. SettledRow(new)
    BY <1>3, <1>5 DEF SettledRow
  <2>5. Settles(Stored(w), new)
    BY <1>3, <2>4 DEF Settles
  <2>6. Continues(w, new)
    BY <1>3, <1>4, <2>1, <2>2, <2>3 DEF Continues
  <2>7. new = control'[r] /\ new.phase \in Early /\ new.head = Stored(w).head
    BY <1>3, <2>1, <2>2, <2>3
  <2> QED
    BY <1>1, <1>8, <2>3, <2>5, <2>6, <2>7, OneSave
<1>9. CASE /\ Checkpointable(w, point, TRUE)
           /\ control' = [control EXCEPT ![r].checkpoint = point.seq, ![r].phase = "complete"]
           /\ worker' = [worker EXCEPT ![w] = Idle]
           /\ saved' = Merged(point, r)
  <2>1. Stored(w).phase = "finish_accepted" /\ point.seq = Stored(w).next
    BY <1>5, <1>9 DEF Checkpointable
  <2>2. control' = [control EXCEPT ![r] = done]
    BY <1>2, <1>9 DEF Stored, TypeInv, ControlType
  <2> HIDE DEF done
  <2>3. control'[r] = done /\ worker'[w] = Idle /\ OnlyRun(w)
    BY <1>2, <1>9, <2>2 DEF TypeInv, ControlType, WorkerType, OnlyRun
  <2>4. Settles(Stored(w), done)
    BY <1>3, <1>5, <2>1 DEF Settles, SettledRow, Early
  <2>5. Continues(w, done) /\ worker'[w].pc \notin Extracting
    BY <2>3 DEF Continues, Working, Idle, Extracting, Reading
  <2>6. done = control'[r] /\ done.phase \notin Late /\ Stored(w).phase \in Late /\ done.head = Stored(w).head
    BY <1>3, <2>1, <2>3 DEF Late
  <2> QED
    BY <1>1, <1>9, <2>1, <2>3, <2>4, <2>5, <2>6, OneSave
<1> QED
  BY <1>6, <1>7, <1>8, <1>9

(* The positions of the batches are numbers. *)
LEMMA PositionTypes ==
    ASSUME Inv
    PROVE  /\ source \in Nat /\ saved.point.cursor \in Nat /\ saved.point.seq \in Nat
           /\ control \in Seq(ControlRows) /\ Len(control) \in Nat /\ DOMAIN control = 1 .. Len(control)
           /\ \A r \in DOMAIN control : /\ control[r].base \in Nat /\ control[r].next \in Nat
                                        /\ \A k \in DOMAIN control[r].head.batches :
                                             /\ control[r].head.batches[k].cursor \in Nat
                                             /\ control[r].head.batches[k].last \in Nat
<1>1. source \in Nat /\ control \in Seq(ControlRows)
  BY ConstantsAssumption DEF Inv, TypeInv, ControlType
<1>2. saved.point \in Points
  BY DEF Inv, TypeInv, SavedType
<1>3. saved.point.cursor \in Nat /\ saved.point.seq \in Nat
  BY <1>2, ConstantsAssumption DEF Points
<1>4. Len(control) \in Nat /\ DOMAIN control = 1 .. Len(control)
  BY <1>1
<1>5. ASSUME NEW r \in DOMAIN control
      PROVE  /\ control[r].base \in Nat /\ control[r].next \in Nat
             /\ \A k \in DOMAIN control[r].head.batches :
                  control[r].head.batches[k].cursor \in Nat /\ control[r].head.batches[k].last \in Nat
  <2>1. control[r] \in ControlRows
    BY <1>1
  <2>2. control[r].base \in Nat /\ control[r].next \in Nat /\ control[r].head \in Heads
    BY <2>1 DEF ControlRows
  <2>3. control[r].head.batches \in Seq(Batches)
    BY <2>2 DEF Heads
  <2>4. \A k \in DOMAIN control[r].head.batches : control[r].head.batches[k] \in Batches
    BY <2>3
  <2>5. \A b \in Batches : b.cursor \in Nat /\ b.last \in Nat
    BY ConstantsAssumption DEF Batches
  <2> QED
    BY <2>2, <2>4, <2>5
<1> QED
  BY <1>1, <1>3, <1>4, <1>5

(* The provider ends what it has, or the source gets a row. *)
LEMMA EnvironmentOne ==
    ASSUME Inv, OneInv, UNCHANGED stream, NewSourceRow \/ Provider
    PROVE  OneInv' /\ Moves
<1>1. UNCHANGED <<control, saved, worker>>
  BY DEF NewSourceRow, Provider, SettleFinish, SettleBatch
<1>2. source' = source \/ source' = source + 1
  BY DEF NewSourceRow, Provider, SettleFinish, SettleBatch
<1>3. ProviderKeeps
  BY EnvironmentDone
<1>4. Delivered \subseteq Delivered'
  BY <1>1, <1>3, DeliveredStays DEF ProviderKeeps, KeepsRows
<1>5. /\ source \in Nat /\ saved.point.cursor \in Nat
      /\ \A r \in DOMAIN control : \A k \in DOMAIN control[r].head.batches : control[r].head.batches[k].cursor \in Nat
  BY PositionTypes
<1>6. \A n \in Nat : n <= source => n <= source'
  BY <1>2, <1>5
<1>7. PositionInv'
  <2>1. saved.point.cursor <= source'
    BY <1>5, <1>6 DEF OneInv, PositionInv
  <2>2. \A r \in DOMAIN control : \A k \in DOMAIN control[r].head.batches : control[r].head.batches[k].cursor <= source'
    BY <1>5, <1>6 DEF OneInv, PositionInv
  <2> QED
    BY <1>1, <2>1, <2>2 DEF OneInv, PositionInv
<1>8. PointInv'
  <2>1. \A w \in Workers : worker[w].pc \in Extracting => worker[w].read \in Nat
    <3> SUFFICES ASSUME NEW w \in Workers, worker[w].pc \in Extracting PROVE worker[w].read \in Nat
      OBVIOUS
    <3>1. Working(w)
      BY DEF Working, Extracting, Reading
    <3>2. worker[w] \in Sessions
      BY <3>1, Facts DEF Inv
    <3> QED
      BY <3>2, ConstantsAssumption DEF Sessions
  <2> QED
    BY <1>1, <1>6, <2>1 DEF OneInv, PointInv
<1>9. CurrentInv' /\ SettledInv' /\ QueueInv' /\ OrderInv'
  BY <1>1 DEF OneInv, CurrentInv, SettledInv, QueueInv, OrderInv, Working
<1> QED
  BY <1>1, <1>4, <1>5, <1>7, <1>8, <1>9 DEF OneInv, Moves

(* The positions of a sequence. *)
LEMMA SequenceDomain ==
    ASSUME NEW S, NEW s \in Seq(S)
    PROVE  DOMAIN s = 1 .. Len(s) /\ Len(s) \in Nat
  OBVIOUS

(* A transition of the latest run, which has not extracted all it will.        *)
LEMMA OneRow ==
    ASSUME OneWorker, Inv, Inv', TruthInv, OneInv, NEW w \in Workers, UNCHANGED <<stream, source, saved>>, ProviderKeeps,
           NEW r, r = Len(control'), DOMAIN control' = DOMAIN control \cup {r},
           \A q \in DOMAIN control \ {r} : control'[q] = control[q],
           r \notin DOMAIN control =>
               \A q \in DOMAIN control :
                   control[q].phase \notin Early /\ (stream.insertOnly => control[q].phase \in Ended),
           NEW new, new = control'[r], new.phase \in Early, ~new.detached,
           r \in DOMAIN control /\ control[r].head.run = r => new.head.run = r /\ KeepsRows(control[r].head, new.head),
           new.base <= new.next,
           \A k \in DOMAIN new.head.batches :
               /\ new.head.batches[k].cursor <= source
               /\ ~stream.cursor => new.head.batches[k].cursor = 0
               /\ new.head.run = r => new.base < new.head.batches[k].last /\ new.head.batches[k].last <= new.next,
           Working(w)' => worker'[w].run = r /\ worker'[w].row = new,
           stream.cursor /\ worker'[w].pc \in Extracting =>
               /\ worker'[w].read = worker'[w].point.cursor
               /\ saved.point.cursor <= worker'[w].read /\ worker'[w].read <= source
               /\ \A k \in Final(new) : new.head.batches[k].cursor = worker'[w].read
    PROVE  OneInv' /\ Moves
<1>1. \A v \in Workers : v = w
  BY DEF OneWorker
<1>2. Early \cap Late = {} /\ Early \cap Ended = {}
  BY DEF Early, Late, Ended
<1>3. saved.point.cursor \in Nat /\ DOMAIN control = 1 .. Len(control) /\ Len(control) \in Nat
  BY PositionTypes
<1>4. DOMAIN control' = 1 .. Len(control') /\ Len(control') \in Nat
  <2>1. control' \in Seq(ControlRows)
    BY DEF Inv, TypeInv, ControlType
  <2> QED
    BY <2>1, SequenceDomain
<1>5. CurrentInv'
  BY <1>1, <1>2 DEF CurrentInv
<1>6. SettledInv'
  <2>1. SettledRow(new)
    BY DEF SettledRow
  <2> QED
    BY <2>1 DEF OneInv, SettledInv
<1>7. QueueInv'
  <2> SUFFICES ASSUME NEW q \in DOMAIN control', q < r
               PROVE  control'[q].phase \notin Early /\ (stream.insertOnly => control'[q].phase \in Ended)
    BY DEF QueueInv
  <2>1. q # r /\ q \in DOMAIN control /\ control'[q] = control[q]
    BY <1>4
  <2>2. CASE r \in DOMAIN control
    <3>1. q < Len(control)
      BY <1>3, <1>4, <2>1, <2>2
    <3> QED
      BY <2>1, <3>1 DEF OneInv, QueueInv
  <2>3. CASE r \notin DOMAIN control
    <3>1. control[q].phase \notin Early /\ (stream.insertOnly => control[q].phase \in Ended)
      BY <2>1, <2>3
    <3> QED
      BY <2>1, <3>1
  <2> QED
    BY <2>2, <2>3
<1>8. PositionInv'
  <2>1. \A q \in DOMAIN control' :
         /\ control'[q].base <= control'[q].next
         /\ \A k \in DOMAIN control'[q].head.batches :
              /\ control'[q].head.batches[k].cursor <= source
              /\ ~stream.cursor => control'[q].head.batches[k].cursor = 0
              /\ control'[q].head.run = q => /\ control'[q].base < control'[q].head.batches[k].last
                                             /\ control'[q].head.batches[k].last <= control'[q].next
    <3> SUFFICES ASSUME NEW q \in DOMAIN control'
                 PROVE  /\ control'[q].base <= control'[q].next
                        /\ \A k \in DOMAIN control'[q].head.batches :
                             /\ control'[q].head.batches[k].cursor <= source
                             /\ ~stream.cursor => control'[q].head.batches[k].cursor = 0
                             /\ control'[q].head.run = q => /\ control'[q].base < control'[q].head.batches[k].last
                                                            /\ control'[q].head.batches[k].last <= control'[q].next
      OBVIOUS
    <3>1. CASE q = r
      BY <3>1
    <3>2. CASE q # r
      <4>1. q \in DOMAIN control /\ control'[q] = control[q]
        BY <3>2
      <4> QED
        BY <4>1 DEF OneInv, PositionInv
    <3> QED
      BY <3>1, <3>2
  <2> QED
    BY <2>1 DEF OneInv, PositionInv
<1>9. OrderInv'
  <2>1. \A q \in DOMAIN control' : control'[q].phase \in Late => q \in DOMAIN control /\ control'[q] = control[q]
    BY <1>2
  <2> QED
    BY <2>1 DEF OneInv, OrderInv
<1>10. PointInv'
  <2>1. worker'[w].pc \in Extracting => Working(w)'
    BY DEF Working, Extracting, Reading
  <2> QED
    BY <1>1, <2>1 DEF PointInv
<1>11. Delivered \subseteq Delivered'
  <2>1. \A h : KeepsRows(h, h)
    BY DEF KeepsRows
  <2>2. \A q \in DOMAIN control : control[q].head.run = q =>
            q \in DOMAIN control' /\ control'[q].head.run = q /\ KeepsRows(control[q].head, control'[q].head)
    BY <2>1
  <2> QED
    BY <2>2, DeliveredStays DEF ProviderKeeps
<1> QED
  BY <1>3, <1>5, <1>6, <1>7, <1>8, <1>9, <1>10, <1>11 DEF OneInv, Moves

(* The run of a session that extracts is the latest one. *)
LEMMA LatestRun ==
    ASSUME OneWorker, Inv, Inv', TruthInv, OneInv, NEW w \in Workers, Working(w), OnlyRun(w), Stored(w).phase \in Early
    PROVE  /\ worker[w].run = Len(control') /\ DOMAIN control' = DOMAIN control \cup {worker[w].run}
           /\ \A q \in DOMAIN control \ {worker[w].run} : control'[q] = control[q]
           /\ worker[w].run \in DOMAIN control
<1>1. worker[w].run = Len(control) /\ worker[w].run \in DOMAIN control
  BY OneFacts
<1>2. DOMAIN control' = DOMAIN control /\ \A q \in DOMAIN control \ {worker[w].run} : control'[q] = control[q]
  BY DEF OnlyRun
<1>3. Len(control') = Len(control)
  BY <1>2 DEF Inv, TypeInv, ControlType
<1> QED
  BY <1>1, <1>2, <1>3

(* What the position of a run says of its batches. *)
LEMMA RunPosition ==
    ASSUME Inv, OneInv, NEW r \in DOMAIN control
    PROVE  /\ control[r].base <= control[r].next
           /\ \A k \in DOMAIN control[r].head.batches :
                /\ control[r].head.batches[k].cursor <= source
                /\ ~stream.cursor => control[r].head.batches[k].cursor = 0
                /\ control[r].head.run = r => /\ control[r].base < control[r].head.batches[k].last
                                              /\ control[r].head.batches[k].last <= control[r].next
  BY DEF OneInv, PositionInv

(* assertReady(): the reader starts behind the saved cursor. *)
LEMMA AssertReadyOne ==
    ASSUME OneWorker, Inv, Inv', TruthInv, OneInv, UNCHANGED stream, NEW w \in Workers, AssertReady(w)
    PROVE  OneInv' /\ Moves
<1> DEFINE session == [worker[w] EXCEPT !.pc = "start",
                                        !.point = IF stream.cursor THEN saved.point ELSE NoPoint,
                                        !.read = IF stream.cursor THEN saved.point.cursor ELSE 0]
           r == worker[w].run
<1>1. worker[w].pc = "ready" /\ Working(w) /\ TypeInv /\ UNCHANGED <<source, control, saved, remote>>
  BY DEF AssertReady, Working, Inv
<1>2. worker[w] \in Sessions
  BY <1>1, Facts
<1>3. session.run = r /\ session.row = worker[w].row
  BY <1>2 DEF Sessions
<1>4. stream.cursor => session.read = saved.point.cursor /\ session.point = saved.point
  BY <1>2 DEF Sessions
<1>5. worker'[w] = session /\ \A v \in Workers \ {w} : worker'[v] = worker[v]
  BY <1>1 DEF AssertReady, TypeInv, WorkerType
<1>6. OnlyRun(w) /\ ProviderKeeps
  BY <1>1, <1>5 DEF OnlyRun, ProviderKeeps, KeepsDone
<1> HIDE DEF session
<1>7. /\ r \in DOMAIN control /\ worker[w].row = control[r] /\ control[r].phase \in Early /\ SettledRow(control[r])
  BY <1>1, OneFacts DEF Starting, Known, Stored
<1>8. ~control[r].detached
  BY <1>7 DEF SettledRow
<1>9. control[r].head.batches = <<>>
  BY <1>1, <1>7, TruthFacts DEF TrueSession
<1>10. Final(control[r]) = {}
  BY <1>9 DEF Final
<1>11. /\ r = Len(control') /\ DOMAIN control' = DOMAIN control \cup {r}
       /\ \A q \in DOMAIN control \ {r} : control'[q] = control[q]
  BY <1>1, <1>6, <1>7, LatestRun DEF Stored
<1>12. saved.point.cursor <= source /\ saved.point.cursor \in Nat
  BY PositionTypes DEF OneInv, PositionInv
<1>13. KeepsRows(control[r].head, control[r].head)
  BY DEF KeepsRows
<1>14. control[r] = control'[r]
  BY <1>1
<1>15. stream.cursor => /\ worker'[w].read = worker'[w].point.cursor
                        /\ saved.point.cursor <= worker'[w].read /\ worker'[w].read <= source
  BY <1>4, <1>5, <1>12
<1>16. worker'[w].run = r /\ worker'[w].row = control[r]
  BY <1>3, <1>5, <1>7
<1> HIDE DEF r
<1> QED
  BY <1>1, <1>6, <1>7, <1>8, <1>10, <1>11, <1>13, <1>14, <1>15, <1>16, OneRow, RunPosition

(* ObjectJournal.open() *)
LEMMA OpenJournalOne ==
    ASSUME OneWorker, Inv, Inv', TruthInv, OneInv, UNCHANGED stream, NEW w \in Workers, OpenJournal(w)
    PROVE  OneInv' /\ Moves
<1> DEFINE r == worker[w].run
           pc == IF worker[w].recovered THEN "recover" ELSE "ready"
           head == Known(w).head
           baseline == head.baseline \cup RowsOf(head.batches, Accepted) \cup RowsOf(head.batches, Staged)
           session == [worker[w] EXCEPT !.pc = pc]
           compact == [run |-> r, baseline |-> baseline, batches |-> <<>>]
           new == [Stored(w) EXCEPT !.head = compact]
           next == [session EXCEPT !.row = new]
<1>1. worker[w].pc = "open" /\ Working(w) /\ TypeInv /\ UNCHANGED <<source, saved, remote>>
  BY DEF OpenJournal, Working, Inv
<1>2. worker[w] \in Sessions /\ Stored(w) \in ControlRows /\ r \in DOMAIN control
  BY <1>1, Facts
<1>3. \/ Goto(w, pc) /\ UNCHANGED control
      \/ /\ head.run # r /\ Stored(w).head = Known(w).head
         /\ control' = [control EXCEPT ![r] = new] /\ worker' = [worker EXCEPT ![w] = next]
      \/ Stop(w) /\ UNCHANGED control
  BY DEF OpenJournal, Publish, Publishable, Stored, Known
<1>4. ProviderKeeps /\ pc \notin Extracting
  BY <1>1 DEF ProviderKeeps, KeepsDone, Extracting, Reading
<1>5. CASE Stop(w) /\ UNCHANGED control
  <2>1. worker'[w] = Idle
    BY <1>1, <1>5 DEF Stop, TypeInv, WorkerType
  <2>2. worker'[w].pc \notin Starting
    BY <2>1 DEF Idle, Starting, Extracting, Reading
  <2> QED
    BY <1>1, <1>4, <1>5, <2>2, LocalMoves, OneLocal
<1>6. /\ Known(w) = Stored(w) /\ SettledRow(Stored(w)) /\ Stored(w).phase \notin Ended
      /\ ~worker[w].recovered => Stored(w).phase = "new"
  <2>1. Known(w) = Stored(w) /\ SettledRow(Stored(w)) /\ Stored(w).phase \notin Ended
    BY <1>1, OneFacts
  <2>2. TrueSession(stream.asynchronous, worker[w], remote[r])
    BY <1>1, TruthFacts
  <2>3. ~worker[w].recovered => worker[w].row.phase = "new"
    BY <1>1, <2>2 DEF TrueSession
  <2> QED
    BY <2>1, <2>3 DEF Known
<1>7. "new" \in Early /\ "new" \notin Ended /\ "recover" \notin Starting
  BY DEF Early, Ended, Starting, Extracting, Reading
<1>8. CASE Goto(w, pc) /\ UNCHANGED control
  <2>1. worker'[w] = session /\ \A v \in Workers \ {w} : worker'[v] = worker[v]
    BY <1>1, <1>8 DEF Goto, TypeInv, WorkerType
  <2>2. session.run = r /\ session.row = Known(w) /\ session.pc = pc
    BY <1>2 DEF Sessions, Known
  <2>3. pc \in Starting => Stored(w).phase \in Early
    BY <1>6, <1>7
  <2> HIDE DEF session, pc
  <2>4. OnlyRun(w) /\ Stored(w) = control'[r]
    BY <1>8, <2>1 DEF OnlyRun, Stored
  <2>5. Settles(Stored(w), Stored(w)) /\ Exhausted(w, Stored(w))
    BY <1>6 DEF Settles, Exhausted
  <2>6. Continues(w, Stored(w))
    BY <1>4, <1>6, <2>1, <2>2, <2>3 DEF Continues
  <2> QED
    BY <1>1, <1>4, <2>4, <2>5, <2>6, OneStep
<1>9. CASE /\ head.run # r /\ Stored(w).head = Known(w).head
           /\ control' = [control EXCEPT ![r] = new] /\ worker' = [worker EXCEPT ![w] = next]
  <2>1. /\ new.head = compact /\ new.phase = Stored(w).phase /\ new.detached = Stored(w).detached
        /\ new.base = Stored(w).base /\ new.next = Stored(w).next
    BY <1>2 DEF ControlRows
  <2>2. compact.batches = <<>> /\ DOMAIN <<>> = {}
    OBVIOUS
  <2>3. next.run = r /\ next.row = new /\ next.pc \notin Extracting
    BY <1>2, <1>4 DEF Sessions
  <2> HIDE DEF new, next, compact, session, pc
  <2>4. control'[r] = new /\ worker'[w] = next /\ OnlyRun(w)
    BY <1>1, <1>2, <1>9 DEF TypeInv, ControlType, WorkerType, OnlyRun
  <2>5. Stored(w).phase = "new"
    BY <1>1, <1>9, TruthFacts
  <2>6. ~Stored(w).detached
    BY <1>6, <1>7, <2>5 DEF SettledRow
  <2>7. /\ r = Len(control') /\ DOMAIN control' = DOMAIN control \cup {r}
        /\ \A q \in DOMAIN control \ {r} : control'[q] = control[q]
    BY <1>1, <1>7, <2>4, <2>5, LatestRun
  <2>8. control[r].head.run # r
    BY <1>9 DEF Stored
  <2>9. new.base <= new.next
    BY <1>2, <2>1, RunPosition DEF Stored
  <2>10. DOMAIN new.head.batches = {}
    BY <2>1, <2>2
  <2>11. new.phase \in Early /\ ~new.detached /\ worker'[w].run = r /\ worker'[w].row = new /\ worker'[w].pc \notin Extracting
    BY <1>7, <2>1, <2>3, <2>4, <2>5, <2>6
  <2> HIDE DEF r
  <2> QED
    BY <1>1, <1>2, <1>4, <2>4, <2>7, <2>8, <2>9, <2>10, <2>11, OneRow
<1> QED
  BY <1>3, <1>5, <1>8, <1>9

(* prepare(): the new batch ends behind all others. *)
LEMMA PrepareOne ==
    ASSUME OneWorker, Inv, Inv', TruthInv, OneInv, UNCHANGED stream, NEW w \in Workers, Prepare(w)
    PROVE  OneInv' /\ Moves
<1> DEFINE r == worker[w].run
           old == Stored(w).head.batches
           b(to) == NextBatch(w, to)
           n(to) == Cardinality(b(to).rows)
           batches(to) == Append(old, b(to))
           row(to) == [Stored(w) EXCEPT !.head.batches = batches(to), !.next = b(to).last]
           step(to) == [worker[w] EXCEPT !.pc = "call", !.read = to, !.k = Len(batches(to)),
                                         !.point = [seq |-> b(to).last, cursor |-> b(to).cursor],
                                         !.since = @ + n(to)]
<1>1. worker[w].pc = "read" /\ Working(w) /\ TypeInv /\ UNCHANGED <<source, saved, remote>>
  BY DEF Prepare, Working, Inv
<1>2. /\ worker[w] \in Sessions /\ Stored(w) \in ControlRows /\ Stored(w).head \in Heads
      /\ old \in Seq(Batches) /\ worker[w].read \in Nat /\ r \in DOMAIN control
  BY <1>1, Facts DEF Sessions
<1>3. Stored(w).head.run = r
  BY <1>1, TruthFacts
<1>4. ProviderKeeps
  BY <1>1 DEF ProviderKeeps, KeepsDone
<1>5. CASE worker' = [worker EXCEPT ![w] = Cleanup(w, worker[w].staged)] /\ UNCHANGED control
  <2>1. "read" \in Starting
    BY DEF Starting, Extracting, Reading
  <2> QED
    BY <1>1, <1>4, <1>5, <2>1, LocalMoves, OneLocal
<1>6. ASSUME NEW to \in Unread(w), Preparable(w), Publish(w, row(to), step(to))
      PROVE  OneInv' /\ Moves
  <2> DEFINE head == [Stored(w).head EXCEPT !.batches = batches(to)]
             new == [Stored(w) EXCEPT !.head = head, !.next = b(to).last]
             next == [step(to) EXCEPT !.row = new]
  <2>1. /\ b(to).rows = {i \in Unread(w) : i <= to} /\ b(to).last = worker[w].point.seq + n(to)
        /\ b(to).cursor = IF stream.cursor THEN to ELSE 0
    BY DEF NextBatch
  <2>2. to \in Nat /\ worker[w].read < to /\ to <= source /\ source \in Nat /\ saved.point.cursor \in Nat
    BY SMTT(60), <1>2, PositionTypes DEF Unread
  <2>3. n(to) \in Nat /\ n(to) > 0
    <3>1. b(to).rows \subseteq 1 .. source /\ to \in b(to).rows
      BY <1>2, <2>1, <2>2 DEF Unread
    <3>2. IsFiniteSet(1 .. source)
      BY <2>2, FS_Interval
    <3> HIDE DEF b
    <3>3. IsFiniteSet(b(to).rows)
      BY <3>1, <3>2, FS_Subset
    <3>4. n(to) \in Nat /\ n(to) # 0
      BY <3>1, <3>3, FS_CardinalityType, FS_EmptySet
    <3> QED
      BY <3>4
  <2>4. /\ Stored(w).phase = "running" /\ worker[w].point.seq = Stored(w).next /\ SettledRow(Stored(w))
        /\ "running" \in Early
    BY <1>1, <1>6, OneFacts DEF Preparable, Early
  <2>5. ~Stored(w).detached
    BY <2>4 DEF SettledRow
  <2>6. Stored(w).next \in Nat /\ Stored(w).base \in Nat
    BY <1>2 DEF ControlRows
  <2>7. b(to).last \in Nat /\ Stored(w).next < b(to).last
    BY <2>1, <2>3, <2>4, <2>6
  <2>8. /\ DOMAIN batches(to) = 1 .. (Len(old) + 1) /\ batches(to)[Len(old) + 1] = b(to)
        /\ \A j \in DOMAIN old : batches(to)[j] = old[j] /\ j \in DOMAIN batches(to)
        /\ DOMAIN old = 1 .. Len(old) /\ Len(old) \in Nat
    BY SMTT(60), <1>2
  <2>9. head.run = r /\ head.batches = batches(to)
    BY <1>2, <1>3 DEF Heads
  <2>10. /\ new.head = head /\ new.phase = Stored(w).phase /\ new.detached = Stored(w).detached
         /\ new.base = Stored(w).base /\ new.next = b(to).last
    BY <1>2 DEF ControlRows
  <2>11. row(to) = new
    BY <1>2
  <2>12. /\ next.run = r /\ next.row = new /\ next.read = to /\ next.pc = "call"
         /\ next.point = [seq |-> b(to).last, cursor |-> b(to).cursor]
    BY <1>2 DEF Sessions
  <2>13. next.point.cursor = b(to).cursor
    BY <2>12
  <2>14. control' = [control EXCEPT ![r] = new] /\ worker' = [worker EXCEPT ![w] = next]
    BY <1>6, <2>11 DEF Publish
  <2> HIDE DEF new, next, head, batches, b, n
  <2>15. control'[r] = new /\ worker'[w] = next /\ OnlyRun(w)
    BY <1>1, <1>2, <2>14 DEF TypeInv, ControlType, WorkerType, OnlyRun
  <2>16. /\ r = Len(control') /\ DOMAIN control' = DOMAIN control \cup {r}
         /\ \A q \in DOMAIN control \ {r} : control'[q] = control[q]
    BY <1>1, <2>4, <2>15, LatestRun
  <2>17. KeepsRows(control[r].head, new.head)
    BY <2>8, <2>9, <2>10 DEF KeepsRows, Stored
  <2>18. /\ Stored(w).base <= Stored(w).next
         /\ \A k \in DOMAIN old : /\ old[k].cursor <= source /\ (~stream.cursor => old[k].cursor = 0)
                                  /\ Stored(w).base < old[k].last /\ old[k].last <= Stored(w).next
                                  /\ old[k].last \in Nat
    BY <1>2, <1>3, RunPosition, PositionTypes DEF Stored
  <2>19. new.base < new.next /\ new.base <= new.next
    BY <2>6, <2>7, <2>10, <2>18
  <2>20. \A k \in DOMAIN batches(to) : k \in DOMAIN old \/ batches(to)[k] = b(to)
    BY <2>8
  <2>21. ASSUME NEW k \in DOMAIN new.head.batches
         PROVE  /\ new.head.batches[k].cursor <= source
                /\ ~stream.cursor => new.head.batches[k].cursor = 0
                /\ new.base < new.head.batches[k].last /\ new.head.batches[k].last <= new.next
                /\ k \in Final(new) => new.head.batches[k] = b(to)
    <3>1. new.head.batches = batches(to) /\ k \in DOMAIN batches(to)
      BY <2>9, <2>10, <2>21
    <3>2. CASE k \in DOMAIN old
      <4>1. batches(to)[k] = old[k]
        BY <2>8, <3>2
      <4>2. old[k].last < new.next /\ old[k].last \in Nat /\ new.next \in Nat
        BY <2>6, <2>7, <2>10, <2>18, <3>2
      <4> QED
        BY <2>10, <2>18, <3>1, <3>2, <4>1, <4>2 DEF Final
    <3>3. CASE batches(to)[k] = b(to)
      BY <2>1, <2>2, <2>7, <2>10, <2>19, <3>1, <3>3
    <3> QED
      BY <2>20, <3>1, <3>2, <3>3
  <2>22. stream.cursor =>
             /\ worker'[w].read = worker'[w].point.cursor
             /\ saved.point.cursor <= worker'[w].read /\ worker'[w].read <= source
             /\ \A k \in Final(new) : new.head.batches[k].cursor = worker'[w].read
    <3> SUFFICES ASSUME stream.cursor
                 PROVE  /\ worker'[w].read = worker'[w].point.cursor
                        /\ saved.point.cursor <= worker'[w].read /\ worker'[w].read <= source
                        /\ \A k \in Final(new) : new.head.batches[k].cursor = worker'[w].read
      OBVIOUS
    <3>1. b(to).cursor = to /\ worker'[w].read = to /\ worker'[w].point.cursor = to
      BY <2>1, <2>12, <2>13, <2>15
    <3>2. saved.point.cursor <= worker[w].read
      BY <1>1 DEF OneInv, PointInv, Extracting, Reading
    <3>3. saved.point.cursor <= to
      BY <1>2, <2>2, <3>2
    <3>4. \A k \in Final(new) : new.head.batches[k] = b(to)
      BY <2>21 DEF Final
    <3> QED
      BY <2>2, <3>1, <3>3, <3>4
  <2>23. new.phase \in Early /\ ~new.detached /\ new.head.run = r /\ worker'[w].run = r /\ worker'[w].row = new
    BY <2>4, <2>5, <2>9, <2>10, <2>12, <2>15
  <2> HIDE DEF r
  <2> QED
    BY <1>1, <1>2, <1>4, <2>15, <2>16, <2>17, <2>19, <2>21, <2>22, <2>23, OneRow
<1>7. \/ worker' = [worker EXCEPT ![w] = Cleanup(w, worker[w].staged)] /\ UNCHANGED control
      \/ \E to \in Unread(w) : Preparable(w) /\ Publish(w, row(to), step(to))
  BY Zenon DEF Prepare, Stored
<1> QED
  BY Zenon, <1>5, <1>6, <1>7

(* A worker takes a run that is as far as the journal says. *)
LEMMA OneOpen ==
    ASSUME OneWorker, Inv, OneInv, NEW w \in Workers, UNCHANGED <<stream, source, control, saved, remote>>,
           NEW r \in DOMAIN control, control[r].phase \notin Ended,
           NEW session, session.pc = "open", session.run = r, session.row = control[r], worker'[w] = session
    PROVE  OneInv' /\ Moves
<1>1. \A v \in Workers : worker'[v].pc = "open" /\ worker'[v].run = r /\ worker'[v].row = control[r]
  BY DEF OneWorker
<1>2. "open" \notin Starting /\ "open" \notin Extracting
  BY DEF Starting, Extracting, Reading
<1>3. CurrentInv' /\ PointInv'
  BY <1>1, <1>2 DEF CurrentInv, PointInv
<1>4. SettledInv' /\ QueueInv' /\ PositionInv' /\ OrderInv'
  BY DEF OneInv, SettledInv, QueueInv, PositionInv, OrderInv
<1>5. Delivered' = Delivered
  BY SameDelivered
<1>6. saved.point.cursor \in Nat
  BY PositionTypes
<1> QED
  BY <1>3, <1>4, <1>5, <1>6 DEF OneInv, Moves

(* openRun() of a run that exists. *)
LEMMA ReopenOne ==
    ASSUME OneWorker, Inv, Inv', TruthInv, OneInv, NEW w \in Workers, UNCHANGED <<stream, source, saved, remote>>,
           NEW r \in DOMAIN control, ReopenRun(w, r)
    PROVE  OneInv' /\ Moves
<1> DEFINE row == IF control[r].phase = "new" THEN Rebased(control[r]) ELSE control[r]
           session == Session(r, row, control[r].phase # "new")
<1>1. /\ control \in Seq(ControlRows) /\ control[r] \in ControlRows /\ r \in 1 .. Len(control) /\ Len(control) \in Nat
      /\ DOMAIN control = 1 .. Len(control)
  BY DEF Inv, TypeInv, ControlType
<1>2. control' = [control EXCEPT ![r] = row] /\ worker' = [worker EXCEPT ![w] = session] /\ control[r].phase \notin Ended
  BY DEF ReopenRun, Unfinished
<1>3. session.pc = "open" /\ session.run = r /\ session.row = row
  BY DEF Session
<1>4. Rebased(control[r]).base = Base /\ Rebased(control[r]).next = Base /\ Rebased(control[r]).head = control[r].head
      /\ Rebased(control[r]).phase = control[r].phase /\ Rebased(control[r]).detached = control[r].detached
  BY <1>1 DEF Rebased, ControlRows
<1>5. Base \in Nat
  BY PositionTypes DEF Base
<1> HIDE DEF session
<1>6. worker'[w] = session
  BY <1>2 DEF Inv, TypeInv, WorkerType
<1>7. CASE control[r].phase # "new"
  <2>1. control' = control /\ session.row = control[r]
    BY <1>1, <1>2, <1>3, <1>7
  <2> QED
    BY <1>2, <1>3, <1>6, <2>1, OneOpen
<1>8. CASE control[r].phase = "new"
  <2>1. row = Rebased(control[r])
    BY <1>8
  <2>2. /\ row.base = Base /\ row.next = Base /\ row.head = control[r].head /\ row.phase \in Early
        /\ row.detached = control[r].detached /\ "new" \in Early
    BY <1>4, <1>8, <2>1 DEF Early
  <2> HIDE DEF row
  <2>3. /\ DOMAIN control' = DOMAIN control \cup {r} /\ control'[r] = row
        /\ \A q \in DOMAIN control \ {r} : control'[q] = control[q]
    BY <1>1, <1>2
  <2>4. Len(control') = Len(control)
    BY <1>1, <1>2
  <2>5. r = Len(control')
    <3>1. ~(r < Len(control))
      BY <1>8, <2>2 DEF OneInv, QueueInv
    <3> QED
      BY <1>1, <2>4, <3>1
  <2>6. ~row.detached
    BY <1>8, <2>2 DEF OneInv, SettledInv, SettledRow
  <2>7. control[r].head.run = r => DOMAIN control[r].head.batches = {}
    <3>1. control[r].head.run = r => control[r].head.batches = <<>>
      BY <1>8 DEF TruthInv, RowInv, TrueRow
    <3> QED
      BY <3>1
  <2>8. KeepsRows(control[r].head, row.head) /\ ProviderKeeps
    BY <2>2 DEF KeepsRows, ProviderKeeps, KeepsDone
  <2>9. row.base <= row.next
    BY <1>5, <2>2
  <2>10. \A k \in DOMAIN row.head.batches :
             /\ row.head.batches[k].cursor <= source
             /\ ~stream.cursor => row.head.batches[k].cursor = 0
             /\ row.head.run = r => row.base < row.head.batches[k].last /\ row.head.batches[k].last <= row.next
    BY <2>2, <2>7, RunPosition
  <2>11. worker'[w].run = r /\ worker'[w].row = row /\ worker'[w].pc \notin Extracting
    BY <1>3, <1>6 DEF Extracting, Reading
  <2> QED
    BY Zenon, <2>2, <2>3, <2>5, <2>6, <2>8, <2>9, <2>10, <2>11, OneRow
<1> QED
  BY <1>7, <1>8

(* openRun() of a new run: those before it have ended, or are detached and have *)
(* extracted all.                                                               *)
LEMMA OpenNewOne ==
    ASSUME OneWorker, Inv, Inv', TruthInv, OneInv, NEW w \in Workers, UNCHANGED <<stream, source, saved, remote>>,
           OpenNewRun(w)
    PROVE  OneInv' /\ Moves
<1> DEFINE r == Len(control) + 1
           head == IF r = 1 THEN NewRow.head ELSE control[r - 1].head
           row == [Rebased(NewRow) EXCEPT !.head = head]
           session == Session(r, row, FALSE)
<1>1. control \in Seq(ControlRows) /\ Len(control) \in Nat /\ DOMAIN control = 1 .. Len(control)
  BY PositionTypes
<1>2. control' = Append(control, row) /\ worker' = [worker EXCEPT ![w] = session]
  BY DEF OpenNewRun
<1>3. row.head = head /\ row.phase = "new" /\ row.base = Base /\ row.next = Base /\ row.detached = FALSE
  BY DEF Rebased, NewRow
<1>4. r = 1 => DOMAIN head.batches = {}
  BY DEF NewRow
<1>5. r # 1 => head = control[r - 1].head /\ r - 1 \in DOMAIN control
  BY <1>1
<1>6. r # 1 => head.run <= r - 1
  BY <1>5 DEF TruthInv, RowInv
<1>7. r # 1 => head.run # r
  <2> SUFFICES ASSUME r # 1, head.run = r PROVE FALSE
    OBVIOUS
  <2> HIDE DEF head
  <2> QED
    BY <1>1, <1>6
<1>8. session.pc = "open" /\ session.run = r /\ session.row = row
  BY DEF Session
<1>9. Base \in Nat
  BY PositionTypes DEF Base
<1>10. \A q \in DOMAIN control : control[q].phase \notin Early /\ (stream.insertOnly => control[q].phase \in Ended)
  <2> SUFFICES ASSUME NEW q \in DOMAIN control
               PROVE  control[q].phase \notin Early /\ (stream.insertOnly => control[q].phase \in Ended)
    OBVIOUS
  <2>1. control[q].phase \notin Ended => control[q].detached /\ ~stream.insertOnly
    BY DEF OpenNewRun, Unfinished
  <2>2. control[q].detached => control[q].phase \notin Early
    BY DEF OneInv, SettledInv, SettledRow
  <2>3. control[q].phase \in Ended => control[q].phase \notin Early
    BY DEF Ended, Early
  <2> QED
    BY <2>1, <2>2, <2>3
<1>11. \A k \in DOMAIN head.batches :
           head.batches[k].cursor <= source /\ (~stream.cursor => head.batches[k].cursor = 0)
  BY <1>4, <1>5, RunPosition
<1> HIDE DEF row, head, session
<1>12. /\ DOMAIN control' = DOMAIN control \cup {r} /\ control'[r] = row /\ r = Len(control')
       /\ \A q \in DOMAIN control \ {r} : control'[q] = control[q]
       /\ r \notin DOMAIN control
  BY <1>1, <1>2
<1> HIDE DEF r
<1>13. head.run = r => DOMAIN head.batches = {}
  BY <1>4, <1>7
<1>14. worker'[w] = session
  BY <1>2 DEF Inv, TypeInv, WorkerType
<1>15. worker'[w].run = r /\ worker'[w].row = row /\ worker'[w].pc \notin Extracting
  BY <1>8, <1>14 DEF Extracting, Reading
<1>16. row.phase \in Early /\ ~row.detached /\ row.base <= row.next /\ ProviderKeeps
  BY <1>3, <1>9 DEF Early, ProviderKeeps, KeepsDone
<1>17. \A k \in DOMAIN row.head.batches :
           /\ row.head.batches[k].cursor <= source
           /\ ~stream.cursor => row.head.batches[k].cursor = 0
           /\ row.head.run = r => row.base < row.head.batches[k].last /\ row.head.batches[k].last <= row.next
  BY <1>3, <1>11, <1>13
<1> QED
  BY Zenon, <1>10, <1>12, <1>15, <1>16, <1>17, OneRow

(* Attempts and recoveries start. *)
LEMMA StartsOne ==
    ASSUME OneWorker, Inv, Inv', TruthInv, OneInv, UNCHANGED stream, NEW w \in Workers, StartAttempt(w) \/ StartRecovery(w)
    PROVE  OneInv' /\ Moves
<1>1. UNCHANGED <<source, saved, remote>>
  BY DEF StartAttempt, StartRecovery
<1>2. CASE \E r \in DOMAIN control : ReopenRun(w, r)
  BY <1>1, <1>2, ReopenOne
<1>3. CASE OpenNewRun(w)
  BY <1>1, <1>3, OpenNewOne
<1> QED
  BY <1>2, <1>3 DEF StartAttempt, StartRecovery, Attached

(* No step of the one worker, of the provider or of the source disturbs this. *)
LEMMA OneSteps ==
    ASSUME OneWorker, Inv, Inv', TruthInv, OneInv, [Next]_vars
    PROVE  OneInv' /\ Moves
<1>1. CASE UNCHANGED vars
  <2>1. Delivered' = Delivered
    BY <1>1, SameDelivered DEF vars, progress
  <2>2. saved.point.cursor \in Nat
    BY PositionTypes
  <2> QED
    BY <1>1, <2>1, <2>2 DEF vars, progress, OneInv, CurrentInv, SettledInv, QueueInv, PositionInv, OrderInv, PointInv,
                            Moves, Working
<1>2. CASE Next
  <2>1. UNCHANGED stream
    BY <1>2 DEF Next
  <2>2. CASE NewSourceRow \/ Provider
    BY <2>1, <2>2, EnvironmentOne
  <2>3. ASSUME NEW w \in Workers, Deliver(w) PROVE OneInv' /\ Moves
    BY <2>1, <2>3, OpenJournalOne, AssertReadyOne, InitPhasesOne, LooksOne, PrepareOne, MarkUnknownOne, AcknowledgeOne,
       CheckpointOne, SealingOne, FinishReceiptsOne, DetachOne, AcknowledgeAbortOne DEF Deliver
  <2>4. ASSUME NEW w \in Workers, Recover(w) PROVE OneInv' /\ Moves
    BY <2>1, <2>4, InitPhasesOne, LooksOne, AcknowledgeRecoveredOne DEF Recover
  <2>5. ASSUME NEW w \in Workers, StartAttempt(w) \/ StartRecovery(w) PROVE OneInv' /\ Moves
    BY <2>1, <2>5, StartsOne
  <2>6. ASSUME NEW w \in Workers, Crash(w) \/ Interrupt(w) \/ PublishRefused(w) PROVE OneInv' /\ Moves
    BY <2>1, <2>6, LooksOne
  <2> QED
    BY <1>2, <2>2, <2>3, <2>4, <2>5, <2>6 DEF Next
<1> QED
  BY <1>1, <1>2

(* It holds at first. *)
LEMMA OneInit ==
    ASSUME Init
    PROVE  OneInv /\ Delivered = {} /\ saved.point.cursor = 0
<1>1. \A w \in Workers : ~Working(w) /\ worker[w].pc \notin Extracting
  BY DEF Init, Idle, Working, Extracting, Reading
<1>2. /\ DOMAIN control = {} /\ saved.point.cursor = 0 /\ saved.runOrder = 0 /\ saved.checkpointRunOrder = 0
      /\ source = 0
  BY DEF Init, NoPoint
<1>3. Delivered = {}
  BY <1>2 DEF Delivered
<1> QED
  BY <1>1, <1>2, <1>3 DEF OneInv, CurrentInv, SettledInv, QueueInv, PositionInv, OrderInv, PointInv

(* With one worker, a step maps to a step of the abstract specification. *)
LEMMA OneRefines ==
    ASSUME Inv, Inv', OneInv', ResumeInv', UNCHANGED stream, Moves
    PROVE  [Checkpointed!Next]_<<Delivered, saved.point.cursor>>
<1>1. Delivered' \subseteq 1 .. MaxRows
  BY DEF Delivered, Rows
<1>2. CASE saved'.point.cursor = saved.point.cursor
  <2>1. Delivered \subseteq Delivered'
    BY DEF Moves
  <2>2. CASE Delivered' = Delivered
    BY <1>2, <2>2
  <2>3. CASE Delivered' # Delivered
    BY <1>1, <1>2, <2>1, <2>3 DEF Checkpointed!Next, Checkpointed!Take
  <2> QED
    BY <2>2, <2>3
<1>3. CASE saved'.point.cursor # saved.point.cursor
  <2>1. Delivered' = Delivered /\ saved.point.cursor <= saved'.point.cursor
    BY <1>3 DEF Moves
  <2>2. saved'.point.cursor \in 0 .. MaxRows /\ saved.point.cursor \in Nat
    <3>1. saved'.point \in Points /\ saved.point \in Points
      BY DEF Inv, TypeInv, SavedType
    <3> QED
      BY <3>1, ConstantsAssumption DEF Points
  <2>3. saved'.point.cursor \in (saved.point.cursor + 1) .. MaxRows
    BY <1>3, <2>1, <2>2, ConstantsAssumption
  <2>4. stream.cursor
    <3>1. ~stream.cursor => saved'.point.cursor = 0
      BY DEF OneInv, PositionInv
    <3> QED
      BY <2>2, <2>3, <3>1
  <2>5. 1 .. saved'.point.cursor \subseteq Delivered
    BY <2>1, <2>4 DEF ResumeInv, CursorInv
  <2> QED
    BY <2>1, <2>3, <2>5 DEF Checkpointed!Next, Checkpointed!Advance
<1> QED
  BY <1>2, <1>3

(* With one worker this holds in every reachable state. *)
LEMMA One == ASSUME OneWorker PROVE Spec => []OneInv
<1>1. Init => OneInv
  BY OneInit
<1>2. Inv /\ Inv' /\ TruthInv /\ OneInv /\ [Next]_vars => OneInv'
  BY OneSteps
<1> QED
  BY <1>1, <1>2, Invariance, Truth, PTL DEF Spec

(* While the lease admits one worker at a time, a run that has ended or is     *)
(* detached (detach(), seal() and acknowledgeAbort() of journal.ts) has no     *)
(* batch of unknown outcome: the next run never has to be refused.             *)
THEOREM HeadsSettled == ASSUME OneWorker PROVE Spec => []HeadsAreSettled
<1>1. OneInv => HeadsAreSettled
  <2> SUFFICES ASSUME OneInv, NEW r \in DOMAIN control, control[r].phase \in Ended \/ control[r].detached,
                      NEW b \in Batch(control[r].head.batches)
               PROVE  b.status \notin {"prepared", "unknown"}
    BY DEF HeadsAreSettled
  <2>1. SettledRow(control[r])
    BY DEF OneInv, SettledInv
  <2>2. control[r].phase \notin Early
    BY <2>1 DEF SettledRow, Ended, Early
  <2>3. PICK k \in DOMAIN control[r].head.batches : b = control[r].head.batches[k]
    BY DEF Batch
  <2> QED
    BY <2>1, <2>2, <2>3 DEF SettledRow, Unresolved
<1> QED
  BY <1>1, One, PTL

(* While the lease admits one worker at a time, the journal implements         *)
(* checkpointed delivery: the saved cursor (commitCheckpoint, journal.ts)      *)
(* never moves back, also when a detached run completes after a later one, it  *)
(* moves forward only over rows the provider has taken, and these stay taken.  *)
THEOREM ImplementsCheckpoints == ASSUME OneWorker PROVE Spec => ImplementsCheckpointedDelivery
<1>1. Init => Checkpointed!Init
  BY OneInit DEF Checkpointed!Init
<1>2. Inv /\ Inv' /\ TruthInv /\ OneInv /\ ResumeInv' /\ [Next]_vars => [Checkpointed!Next]_<<Delivered, saved.point.cursor>>
  <2> SUFFICES ASSUME Inv, Inv', TruthInv, OneInv, ResumeInv', [Next]_vars
               PROVE  [Checkpointed!Next]_<<Delivered, saved.point.cursor>>
    OBVIOUS
  <2>1. OneInv' /\ Moves
    BY OneSteps
  <2>2. UNCHANGED stream
    BY DEF Next, vars
  <2> QED
    BY <2>1, <2>2, OneRefines
<1> QED
  BY <1>1, <1>2, Invariance, Truth, Resume, One, PTL DEF Spec, ImplementsCheckpointedDelivery, Checkpointed!Spec
-----------------------------------------------------------------------------
(* Events are sent once                                                      *)

(* What the provider has of a batch that it did not accept; a: asynchronous.  *)
(* Only a job that the provider refused or dropped counts as not sent.        *)
TakenBatch(a, b, phase, state) ==
    /\ b.status = "acknowledged" /\ Rejected(b) => state = "refused"
    /\ b.status = "cancelled" => ~a /\ state # "done"
    /\ Staged(b) /\ phase \in AbortSide => ~a
    /\ Staged(b) /\ ~a /\ phase \notin FinishSide => state # "done"

TakenRow(a, r, row, s) ==
    row.head.run = r =>
        \A k \in DOMAIN row.head.batches : TakenBatch(a, row.head.batches[k], row.phase, s.batch[k])

(* The answer a session is about to record, when it is not an acceptance. *)
TrueAnswer(a, x, s) ==
    x.pc \in {"ack", "ackBatch"} =>
        /\ x.result = "rejected" => s.batch[x.k] = "refused"
        /\ x.result = "staged" /\ ~a => s.batch[x.k] # "done"

(* A session that recovers has counted the jobs it saw, and one that cleans up *)
(* has none that could still be accepted.                                      *)
StagedKnown(a, x) ==
    LET batches == x.row.head.batches IN
    /\ x.pc = "open" => x.seen = {}
    /\ x.pc \in {"recover", "ackBatch"} =>
         \A k \in x.seen \cap DOMAIN batches :
             Staged(batches[k]) => x.pending \/ (x.pc = "ackBatch" /\ k = x.k)
    /\ x.pc = "cleanup" /\ a /\ x.row.phase = "running" =>
         \A k \in DOMAIN batches : ~Staged(batches[k])

(* A reader has passed the events of its batches. *)
Passed(x) ==
    x.pc \in Reading => \A k \in DOMAIN x.row.head.batches : x.row.head.batches[k].rows \subseteq 1 .. x.read

EventSession(a, x, s) == TrueAnswer(a, x, s) /\ StagedKnown(a, x) /\ Passed(x)

(* The batches of a run have different events, none of which is in the baseline. *)
Apart(head) ==
    \A k \in DOMAIN head.batches :
        /\ head.batches[k].rows \cap head.baseline = {}
        /\ \A j \in DOMAIN head.batches : j # k => head.batches[j].rows \cap head.batches[k].rows = {}

(* The events an earlier run, of which the provider has s, sent with success. *)
Holds(baseline, head, s) ==
    \A k \in DOMAIN head.batches : s.batch[k] = "done" => head.batches[k].rows \subseteq baseline

(* A run has its own head, which knows the events of the runs before it, or    *)
(* still the head of the run before it.                                        *)
EventHead(r) ==
    IF control[r].head.run = r
    THEN /\ Apart(control[r].head)
         /\ \A q \in DOMAIN control : q < r => Holds(control[r].head.baseline, control[q].head, remote[q])
    ELSE r > 1 /\ control[r].head = control[r - 1].head

EventInv ==
    stream.insertOnly =>
        /\ \A r \in DOMAIN control : TakenRow(stream.asynchronous, r, control[r], remote[r]) /\ EventHead(r)
        /\ \A w \in Workers : Working(w) => EventSession(stream.asynchronous, worker[w], remote[worker[w].run])

(* A run of events that has ended: the provider has what it accepted, and will *)
(* accept no more.                                                             *)
LEMMA EndedTaken ==
    ASSUME Inv, TruthInv, OneInv, AbortInv, EventInv, stream.insertOnly, NEW r \in DOMAIN control, control[r].phase \in Ended,
           NEW k \in DOMAIN control[r].head.batches
    PROVE  /\ control[r].head.run = r /\ k \in Rows
           /\ \/ Accepted(control[r].head.batches[k]) /\ remote[r].batch[k] = "done"
              \/ /\ control[r].phase = "aborted" /\ remote[r].batch[k] # "done"
                 /\ remote[r].batch[k] = "staged" => ~stream.asynchronous
<1> DEFINE b == control[r].head.batches[k]
           state == remote[r].batch[k]
<1>1. TrueRow(stream.asynchronous, r, control[r], remote[r]) /\ control[r].head.run = r
  BY DEF TruthInv, RowInv, Ended
<1>2. TrueBatch(stream.asynchronous, b, control[r].phase, state, remote[r]) /\ k \in Rows
  BY <1>1 DEF TrueRow
<1>3. TakenBatch(stream.asynchronous, b, control[r].phase, state)
  BY <1>1 DEF EventInv, TakenRow
<1>4. ~Unresolved(b)
  BY DEF OneInv, SettledInv, SettledRow, Ended, Early
<1>5. b \in Batches
  <2>1. control[r] \in ControlRows
    BY DEF Inv, TypeInv, ControlType
  <2>2. control[r].head.batches \in Seq(Batches)
    BY <2>1 DEF ControlRows, Heads
  <2> QED
    BY <2>2
<1>6. CASE control[r].phase = "complete"
  BY <1>1, <1>2, <1>6 DEF TrueBatch
<1>7. CASE control[r].phase = "aborted"
  <2>1. ~Staged(b)
    BY <1>7 DEF AbortInv
  <2>2. b.status \in {"acknowledged", "cancelled"} /\ b.out \in {"none", "accepted", "staged", "rejected"}
    BY <1>4, <1>5 DEF Batches, Unresolved
  <2>3. b.status = "acknowledged" => b.out \in {"accepted", "rejected"}
    BY <1>2, <2>1, <2>2 DEF TrueBatch, Staged
  <2> HIDE DEF b, state
  <2>4. CASE b.status = "acknowledged"
    BY <1>1, <1>2, <1>3, <1>7, <2>3, <2>4 DEF TrueBatch, TakenBatch, Accepted, Rejected, b, state
  <2>5. CASE b.status = "cancelled"
    BY <1>1, <1>2, <1>3, <1>7, <2>5 DEF TakenBatch, b, state
  <2> QED
    BY <2>2, <2>4, <2>5
<1> QED
  BY <1>6, <1>7 DEF Ended

(* A step of the worker that leaves the other runs alone. *)
LEMMA EventStep ==
    ASSUME OneWorker, Inv, Inv', TruthInv, OneInv, EventInv, stream.insertOnly, NEW w \in Workers, Working(w), OnlyRun(w),
           \A q \in Runs \ {worker[w].run} : remote'[q] = remote[q],
           NEW new, new = control'[worker[w].run],
           \/ new.head = Stored(w).head
           \/ /\ new.head.run = worker[w].run /\ Apart(new.head)
              /\ \A q \in DOMAIN control : q < worker[w].run => Holds(new.head.baseline, control[q].head, remote[q]),
           TakenRow(stream.asynchronous, worker[w].run, new, remote'[worker[w].run]),
           Working(w)' => /\ worker'[w].run = worker[w].run
                          /\ EventSession(stream.asynchronous, worker'[w], remote'[worker[w].run])
    PROVE  EventInv'
<1> DEFINE n == worker[w].run
<1>1. n = Len(control) /\ DOMAIN control = 1 .. Len(control) /\ Len(control) \in Nat /\ DOMAIN control \subseteq Runs
  <2>1. control \in Seq(ControlRows) /\ Len(control) <= MaxRuns
    BY DEF Inv, TypeInv, ControlType
  <2>2. DOMAIN control = 1 .. Len(control) /\ Len(control) \in Nat
    BY <2>1, SequenceDomain
  <2>3. MaxRuns \in Nat
    BY ConstantsAssumption
  <2> QED
    BY <2>1, <2>2, <2>3, OneFacts DEF Runs
<1>2. stream' = stream /\ DOMAIN control' = DOMAIN control /\ \A q \in DOMAIN control \ {n} : control'[q] = control[q]
  BY DEF OnlyRun
<1>3. ASSUME NEW r \in DOMAIN control PROVE TakenRow(stream.asynchronous, r, control'[r], remote'[r])
  <2>1. CASE r = n
    BY <2>1
  <2>2. CASE r # n
    BY <1>1, <1>2, <2>2 DEF EventInv
  <2> QED
    BY <2>1, <2>2
<1>4. ASSUME NEW r \in DOMAIN control PROVE EventHead(r)'
  <2>1. EventHead(r)
    BY DEF EventInv
  <2>2. \A q \in DOMAIN control : q < r => control'[q] = control[q] /\ remote'[q] = remote[q] /\ q # n
    BY <1>1, <1>2
  <2>3. CASE control'[r].head = control[r].head
    <3>1. r > 1 => r - 1 \in DOMAIN control /\ r - 1 < r
      BY <1>1
    <3>2. r > 1 => control'[r - 1] = control[r - 1]
      BY <2>2, <3>1
    <3> QED
      BY <1>2, <2>1, <2>2, <2>3, <3>2 DEF EventHead
  <2>4. CASE control'[r].head # control[r].head
    <3>1. r = n
      BY <1>2, <2>4
    <3>2. /\ control'[r].head.run = r /\ Apart(control'[r].head)
          /\ \A q \in DOMAIN control : q < r => Holds(control'[r].head.baseline, control[q].head, remote[q])
      BY <2>4, <3>1 DEF Stored
    <3> QED
      BY <1>2, <2>2, <3>2 DEF EventHead
  <2> QED
    BY <2>3, <2>4
<1>5. ASSUME NEW v \in Workers, Working(v)' PROVE EventSession(stream.asynchronous, worker'[v], remote'[worker'[v].run])
  <2>1. v = w
    BY DEF OneWorker
  <2> QED
    BY <1>5, <2>1
<1> QED
  BY <1>2, <1>3, <1>4, <1>5 DEF EventInv

(* What the invariant says of the worker's run. *)
LEMMA EventFacts ==
    ASSUME Inv, TruthInv, OneInv, EventInv, stream.insertOnly, NEW w \in Workers, Working(w)
    PROVE  /\ TakenRow(stream.asynchronous, worker[w].run, Stored(w), remote[worker[w].run]) /\ EventHead(worker[w].run)
           /\ EventSession(stream.asynchronous, worker[w], remote[worker[w].run])
  BY OneFacts DEF EventInv, Stored

(* A step of the worker that leaves the journal and the provider alone. *)
LEMMA EventLocal ==
    ASSUME OneWorker, Inv, Inv', TruthInv, OneInv, EventInv, stream.insertOnly, NEW w \in Workers, Working(w),
           UNCHANGED <<stream, control, remote>>,
           NEW session, worker' = [worker EXCEPT ![w] = session],
           \/ session = Idle
           \/ /\ session.run = worker[w].run
              /\ EventSession(stream.asynchronous, session, remote[worker[w].run])
    PROVE  EventInv'
<1>1. worker'[w] = session /\ \A v \in Workers \ {w} : worker'[v] = worker[v]
  BY DEF Inv, TypeInv, WorkerType
<1>2. OnlyRun(w) /\ control'[worker[w].run] = Stored(w)
  BY <1>1 DEF OnlyRun, Stored
<1>3. Idle.pc = "idle"
  BY DEF Idle
<1>4. TakenRow(stream.asynchronous, worker[w].run, Stored(w), remote'[worker[w].run])
  BY EventFacts
<1>5. Working(w)' => /\ worker'[w].run = worker[w].run
                     /\ EventSession(stream.asynchronous, worker'[w], remote'[worker[w].run])
  BY <1>1, <1>3 DEF Working
<1> QED
  BY <1>2, <1>4, <1>5, EventStep

(* The attempt ends. *)
LEMMA EventStop ==
    ASSUME OneWorker, Inv, Inv', TruthInv, OneInv, EventInv, stream.insertOnly, NEW w \in Workers, Working(w),
           UNCHANGED <<stream, control, remote>>, Stop(w)
    PROVE  EventInv'
  BY EventLocal DEF Stop

(* A transition that keeps the batches of the run. *)
LEMMA EventPublish ==
    ASSUME OneWorker, Inv, Inv', TruthInv, OneInv, EventInv, stream.insertOnly, NEW w \in Workers, Working(w),
           UNCHANGED <<stream, remote>>,
           NEW new, control' = [control EXCEPT ![worker[w].run] = new],
           new.head = Stored(w).head \/ (worker[w].pc # "open" /\ SameBatches(Stored(w).head, new.head)),
           TakenRow(stream.asynchronous, worker[w].run, new, remote[worker[w].run]),
           NEW session, worker' = [worker EXCEPT ![w] = session],
           \/ session = Idle
           \/ /\ session.run = worker[w].run
              /\ EventSession(stream.asynchronous, session, remote[worker[w].run])
    PROVE  EventInv'
<1>1. worker'[w] = session /\ \A v \in Workers \ {w} : worker'[v] = worker[v]
  BY DEF Inv, TypeInv, WorkerType
<1>2. TypeInv /\ worker[w].run \in DOMAIN control
  BY Facts DEF Inv
<1>3. OnlyRun(w) /\ control'[worker[w].run] = new
  BY <1>1, <1>2 DEF TypeInv, ControlType, OnlyRun
<1>4. Idle.pc = "idle"
  BY DEF Idle
<1>5. Working(w)' => /\ worker'[w].run = worker[w].run
                     /\ EventSession(stream.asynchronous, worker'[w], remote'[worker[w].run])
  BY <1>1, <1>4 DEF Working
<1>6. CASE new.head = Stored(w).head
  BY <1>3, <1>5, <1>6, EventStep
<1>7. CASE worker[w].pc # "open" /\ SameBatches(Stored(w).head, new.head)
  <2>1. Stored(w).head.run = worker[w].run
    BY <1>7, TruthFacts
  <2>2. /\ Apart(Stored(w).head)
        /\ \A q \in DOMAIN control : q < worker[w].run => Holds(Stored(w).head.baseline, control[q].head, remote[q])
    BY <2>1, EventFacts DEF EventHead, Stored
  <2>3. new.head.run = worker[w].run /\ new.head.baseline = Stored(w).head.baseline /\ Apart(new.head)
    BY <1>7, <2>1, <2>2 DEF SameBatches, Apart
  <2> QED
    BY <1>3, <1>5, <2>2, <2>3, EventStep
<1> QED
  BY <1>6, <1>7

(* A session that neither reads nor records the outcome of batches. *)
LEMMA EventElsewhere ==
    ASSUME NEW a, NEW s, NEW x, x.pc \notin Reading \cup {"open", "ackBatch", "recover", "cleanup"}
    PROVE  EventSession(a, x, s)
  BY DEF EventSession, TrueAnswer, StagedKnown, Passed, Reading

(* A session that goes on reading with the batches it had. *)
LEMMA EventReads ==
    ASSUME NEW a, NEW s, NEW x, x.pc \in {"read", "checkpoint", "call", "mark"},
           NEW y, Passed(y), y.pc \in Reading, x.read = y.read,
           DOMAIN x.row.head.batches = DOMAIN y.row.head.batches,
           \A k \in DOMAIN y.row.head.batches : x.row.head.batches[k].rows = y.row.head.batches[k].rows
    PROVE  EventSession(a, x, s)
  BY DEF EventSession, TrueAnswer, StagedKnown, Passed, Reading

(* A transition of the phase. *)
LEMMA EventPhase ==
    ASSUME OneWorker, Inv, Inv', TruthInv, OneInv, EventInv, stream.insertOnly, NEW w \in Workers, Working(w),
           UNCHANGED <<stream, remote>>,
           NEW new, control' = [control EXCEPT ![worker[w].run] = new], new.head = Stored(w).head,
           Stored(w).phase \in FinishSide => new.phase \in FinishSide,
           \/ new.phase \notin AbortSide
           \/ Stored(w).phase \in AbortSide
           \/ stream.asynchronous => \A k \in DOMAIN Stored(w).head.batches : ~Staged(Stored(w).head.batches[k]),
           NEW session, worker' = [worker EXCEPT ![w] = session],
           \/ session = Idle
           \/ /\ session.run = worker[w].run
              /\ EventSession(stream.asynchronous, session, remote[worker[w].run])
    PROVE  EventInv'
<1>1. TakenRow(stream.asynchronous, worker[w].run, Stored(w), remote[worker[w].run])
  BY EventFacts
<1>2. TakenRow(stream.asynchronous, worker[w].run, new, remote[worker[w].run])
  BY <1>1 DEF TakenRow, TakenBatch
<1> QED
  BY <1>2, EventPublish

(* A receipt that is true keeps the row true. *)
LEMMA ReceiptTaken ==
    ASSUME NEW a, NEW r, NEW s, NEW row \in ControlRows, TakenRow(a, r, row, s), row.head.run = r, row.phase \notin AbortSide,
           NEW k \in DOMAIN row.head.batches, NEW out \in {"none", "accepted", "staged", "rejected"},
           out = "rejected" => s.batch[k] = "refused",
           out = "staged" /\ ~a => s.batch[k] # "done"
    PROVE  TakenRow(a, r, WithReceipt(row, k, out), s)
<1> DEFINE new == WithReceipt(row, k, out)
<1>1. /\ DOMAIN new.head.batches = DOMAIN row.head.batches
      /\ new.head.batches[k].status = "acknowledged" /\ new.head.batches[k].out = out
      /\ \A j \in DOMAIN row.head.batches \ {k} : new.head.batches[j] = row.head.batches[j]
  BY ReceiptBatch
<1>2. new.phase = row.phase
  BY ReceiptRow
<1> HIDE DEF new
<1>3. TakenBatch(a, new.head.batches[k], new.phase, s.batch[k])
  BY <1>1, <1>2 DEF TakenBatch, Staged, Rejected
<1>4. \A j \in DOMAIN row.head.batches \ {k} : TakenBatch(a, new.head.batches[j], new.phase, s.batch[j])
  BY <1>1, <1>2 DEF TakenRow
<1> QED
  BY <1>1, <1>3, <1>4 DEF TakenRow, new

(* A reader that gives up has no job under way that could still be accepted. *)
LEMMA EventCleanup ==
    ASSUME OneWorker, Inv, Inv', TruthInv, OneInv, EventInv, stream.insertOnly, NEW w \in Workers,
           worker[w].pc \in {"read", "checkpoint", "prepareFinish"}, UNCHANGED <<stream, control, remote>>,
           worker' = [worker EXCEPT ![w] = Cleanup(w, worker[w].staged)]
    PROVE  EventInv'
<1> DEFINE session == [worker[w] EXCEPT !.pc = "cleanup"]
<1>1. Working(w) /\ worker[w] \in Sessions
  BY Facts DEF Working, Inv
<1>2. session.pc = "cleanup" /\ session.run = worker[w].run /\ session.row = worker[w].row
  BY <1>1 DEF Sessions
<1>3. TrueSession(stream.asynchronous, worker[w], remote[worker[w].run])
  BY <1>1, TruthFacts
<1> HIDE DEF session
<1>4. CASE stream.asynchronous /\ worker[w].staged
  BY <1>1, <1>4, EventStop DEF Cleanup, Stop
<1>5. CASE ~(stream.asynchronous /\ worker[w].staged)
  <2>1. worker' = [worker EXCEPT ![w] = session]
    BY <1>5 DEF Cleanup, session
  <2>2. stream.asynchronous /\ worker[w].row.phase = "running" =>
          \A k \in DOMAIN worker[w].row.head.batches : ~Staged(worker[w].row.head.batches[k])
    <3> HAVE stream.asynchronous /\ worker[w].row.phase = "running"
    <3>1. worker[w].pc # "prepareFinish"
      BY <1>3 DEF TrueSession
    <3>2. TrueReader(worker[w])
      BY <1>3, <3>1 DEF TrueSession, Reading
    <3> QED
      BY <1>5, <3>1, <3>2 DEF TrueReader, Sending, Staged, Accepted
  <2>3. EventSession(stream.asynchronous, session, remote[worker[w].run])
    BY <1>2, <2>2 DEF EventSession, TrueAnswer, StagedKnown, Passed, Reading
  <2> QED
    BY <1>1, <1>2, <2>1, <2>3, EventLocal
<1> QED
  BY <1>4, <1>5

(* A call to the provider. *)
LEMMA EventCall ==
    ASSUME OneWorker, Inv, Inv', TruthInv, OneInv, EventInv, stream.insertOnly, NEW w \in Workers, Working(w),
           UNCHANGED <<stream, control>>, NEW s, remote' = [remote EXCEPT ![worker[w].run] = s],
           TakenRow(stream.asynchronous, worker[w].run, Stored(w), s),
           NEW session, worker' = [worker EXCEPT ![w] = session],
           \/ session = Idle
           \/ session.run = worker[w].run /\ EventSession(stream.asynchronous, session, s)
    PROVE  EventInv'
<1>1. worker'[w] = session /\ \A v \in Workers \ {w} : worker'[v] = worker[v]
  BY DEF Inv, TypeInv, WorkerType
<1>2. OnlyRun(w) /\ control'[worker[w].run] = Stored(w)
  BY <1>1 DEF OnlyRun, Stored
<1>3. Idle.pc = "idle"
  BY DEF Idle
<1>4. worker[w].run \in Runs
  BY Facts DEF Inv
<1>5. remote'[worker[w].run] = s /\ \A q \in Runs \ {worker[w].run} : remote'[q] = remote[q]
  BY <1>4 DEF Inv, TypeInv, RemoteType
<1>6. Working(w)' => /\ worker'[w].run = worker[w].run
                     /\ EventSession(stream.asynchronous, worker'[w], remote'[worker[w].run])
  BY <1>1, <1>3, <1>5 DEF Working
<1> QED
  BY <1>2, <1>5, <1>6, EventStep

(* A row stays true when the provider takes no more batches. *)
LEMMA TakenKept ==
    ASSUME NEW a, NEW r, NEW row, NEW s, NEW t, TakenRow(a, r, row, s), TrueRow(a, r, row, s),
           \A k \in Rows : /\ s.batch[k] = "refused" => t.batch[k] = "refused"
                           /\ t.batch[k] = "done" => s.batch[k] = "done"
    PROVE  TakenRow(a, r, row, t)
<1> SUFFICES ASSUME row.head.run = r, NEW k \in DOMAIN row.head.batches
             PROVE  TakenBatch(a, row.head.batches[k], row.phase, t.batch[k])
  BY DEF TakenRow
<1>1. k \in Rows /\ TakenBatch(a, row.head.batches[k], row.phase, s.batch[k])
  BY DEF TakenRow, TrueRow
<1> QED
  BY <1>1 DEF TakenBatch

(* Failures. *)
LEMMA FailuresEvent ==
    ASSUME OneWorker, Inv, Inv', TruthInv, OneInv, EventInv, stream.insertOnly, UNCHANGED stream, NEW w \in Workers,
           Crash(w) \/ Interrupt(w) \/ PublishRefused(w)
    PROVE  EventInv'
<1>1. Working(w) /\ UNCHANGED <<control, remote>>
  BY DEF Crash, Interrupt, PublishRefused, Working
<1>2. CASE Stop(w)
  BY <1>1, <1>2, EventStop
<1>3. CASE Interrupt(w)
  BY <1>1, <1>3, EventCleanup DEF Interrupt
<1> QED
  BY <1>2, <1>3 DEF Crash, PublishRefused

(* The initialization. *)
LEMMA InitPhasesEvent ==
    ASSUME OneWorker, Inv, Inv', TruthInv, OneInv, EventInv, stream.insertOnly, UNCHANGED stream, NEW w \in Workers,
           AssertReady(w) \/ PrepareInit(w) \/ AcknowledgeInit(w)
    PROVE  EventInv'
<1> DEFINE new(phase) == [Stored(w) EXCEPT !.phase = phase]
           next(pc, phase) == [[worker[w] EXCEPT !.pc = pc] EXCEPT !.row = new(phase)]
           starts == [worker[w] EXCEPT !.pc = "start", !.point = IF stream.cursor THEN saved.point ELSE NoPoint,
                                       !.read = IF stream.cursor THEN saved.point.cursor ELSE 0]
           a == stream.asynchronous
           s == remote[worker[w].run]
<1>1. Working(w) /\ UNCHANGED remote
  BY DEF AssertReady, PrepareInit, AcknowledgeInit, Working
<1>2. worker[w] \in Sessions /\ Stored(w) \in ControlRows /\ WorkerType
  BY <1>1, Facts DEF Inv, TypeInv
<1>3. \A phase : new(phase).head = Stored(w).head /\ new(phase).phase = phase
  BY <1>2 DEF ControlRows
<1>4. \A pc, phase : next(pc, phase).run = worker[w].run /\ next(pc, phase).row = new(phase) /\ next(pc, phase).pc = pc
  BY <1>2 DEF Sessions
<1>5. starts.run = worker[w].run /\ starts.pc = "start"
  BY <1>2 DEF Sessions
<1>6. {"init", "start"} \cap (Reading \cup {"open", "ackBatch", "recover", "cleanup"}) = {}
  BY DEF Reading
<1>7. EventSession(a, next("init", "init_prepared"), s) /\ EventSession(a, starts, s)
  <2> HIDE DEF starts, next
  <2> QED
    BY <1>4, <1>5, <1>6, EventElsewhere
<1>8. CASE AssertReady(w)
  <2>1. worker' = [worker EXCEPT ![w] = starts] /\ UNCHANGED control
    BY <1>2, <1>8 DEF AssertReady, WorkerType
  <2> HIDE DEF starts
  <2> QED
    BY <1>1, <1>5, <1>7, <2>1, EventLocal
<1>9. {"init_prepared", "running"} \cap AbortSide = {}
  BY DEF AbortSide
<1>10. CASE PrepareInit(w)
  <2>1. /\ control' = [control EXCEPT ![worker[w].run] = new("init_prepared")] /\ Stored(w).phase = "new"
        /\ worker' = [worker EXCEPT ![w] = next("init", "init_prepared")]
    BY <1>10 DEF PrepareInit, Publish, Publishable, Stored
  <2>2. Stored(w).phase \notin FinishSide
    BY <2>1 DEF FinishSide
  <2> HIDE DEF new, next
  <2> QED
    BY <1>1, <1>3, <1>4, <1>7, <1>9, <2>1, <2>2, EventPhase
<1>11. CASE AcknowledgeInit(w)
  <2>1. /\ control' = [control EXCEPT ![worker[w].run] = new("running")] /\ Stored(w).phase = "init_prepared"
        /\ worker' = [worker EXCEPT ![w] = next("read", "running")] /\ worker[w].pc = "ackInit"
    BY <1>11 DEF AcknowledgeInit, Publish, Publishable, Stored
  <2>2. Stored(w).phase \notin FinishSide
    BY <2>1 DEF FinishSide
  <2>3. Stored(w).head.batches = <<>>
    BY <1>1, <2>1, TruthFacts, OneFacts DEF TrueSession, Known
  <2> HIDE DEF new, next
  <2>4. next("read", "running").row.head.batches = <<>> /\ next("read", "running").pc = "read"
    BY <1>3, <1>4, <2>3
  <2>5. EventSession(a, next("read", "running"), s)
    BY <2>4 DEF EventSession, TrueAnswer, StagedKnown, Passed
  <2> QED
    BY <1>1, <1>3, <1>4, <1>9, <2>1, <2>2, <2>5, EventPhase
<1> QED
  BY <1>8, <1>10, <1>11

(* createWriter() and writer.init(), and their recovery *)
LEMMA CallInitEvent ==
    ASSUME OneWorker, Inv, Inv', TruthInv, OneInv, EventInv, stream.insertOnly, UNCHANGED stream, NEW w \in Workers,
           CallInit(w) \/ RecoverInit(w)
    PROVE  EventInv'
<1> DEFINE r == worker[w].run
           S == remote[r]
           s(x) == [S EXCEPT !.session = x]
           new == [Stored(w) EXCEPT !.phase = "new"]
           next == [worker[w] EXCEPT !.pc = "ackInit"]
<1>1. Working(w)
  BY DEF CallInit, RecoverInit, Working
<1>2. r \in Runs /\ r \in DOMAIN control /\ S \in RemoteRows /\ worker[w] \in Sessions /\ Stored(w) \in ControlRows /\ TypeInv
  BY <1>1, Facts DEF Inv
<1>3. PICK x : remote' = [remote EXCEPT ![r] = s(x)]
  BY DEF CallInit, RecoverInit
<1>4. s(x).batch = S.batch
  BY <1>2 DEF RemoteRows
<1>5. next.run = r /\ next.pc = "ackInit"
  BY <1>2 DEF Sessions
<1>6. TakenRow(stream.asynchronous, r, Stored(w), s(x))
  BY <1>1, <1>4, EventFacts DEF TakenRow
<1>7. new.head = Stored(w).head /\ new.phase = "new"
  BY <1>2 DEF ControlRows
<1>8. CASE CallInit(w)
  <2>1. UNCHANGED control /\ (worker' = [worker EXCEPT ![w] = next] \/ worker' = [worker EXCEPT ![w] = Idle])
    BY <1>2, <1>8 DEF CallInit, Goto, Stop, TypeInv, WorkerType
  <2> HIDE DEF s, next
  <2>2. EventSession(stream.asynchronous, next, s(x))
    BY <1>5, EventElsewhere DEF Reading
  <2> QED
    BY <1>1, <1>3, <1>5, <1>6, <2>1, <2>2, EventCall
<1>9. CASE RecoverInit(w)
  <2>1. /\ control' = [control EXCEPT ![r] = new] /\ worker' = [worker EXCEPT ![w] = Idle]
        /\ Stored(w).phase = "init_prepared"
    BY <1>9 DEF RecoverInit, Publishable, Stored, Stop
  <2> HIDE DEF s, new
  <2>2. control'[r] = new /\ OnlyRun(w) /\ worker'[w] = Idle
    BY <1>2, <2>1 DEF TypeInv, ControlType, WorkerType, OnlyRun
  <2>3. remote'[r] = s(x) /\ \A q \in Runs \ {r} : remote'[q] = remote[q]
    BY <1>2, <1>3 DEF TypeInv, RemoteType
  <2>4. TakenRow(stream.asynchronous, r, new, s(x))
    BY <1>6, <1>7, <2>1 DEF TakenRow, TakenBatch, AbortSide, FinishSide
  <2>5. ~Working(w)'
    BY <2>2 DEF Working, Idle
  <2> QED
    BY <1>1, <1>7, <2>2, <2>3, <2>4, <2>5, EventStep
<1> QED
  BY <1>8, <1>9

(* writer.upsert() and writer.remove() *)
LEMMA CallBatchEvent ==
    ASSUME OneWorker, Inv, Inv', TruthInv, OneInv, EventInv, stream.insertOnly, UNCHANGED stream, NEW w \in Workers,
           CallBatch(w)
    PROVE  EventInv'
<1> DEFINE r == worker[w].run
           k == worker[w].k
           S == remote[r]
           old == Stored(w).head.batches
           t(x) == [S EXCEPT !.batch[k] = x, !.calls[k] = @ + 1]
           next(y) == [worker[w] EXCEPT !.pc = "ack", !.result = y]
           marks == [worker[w] EXCEPT !.pc = "mark"]
<1>1. Working(w) /\ worker[w].pc = "call" /\ UNCHANGED control
  BY Zenon DEF CallBatch, Working
<1>2. r \in Runs /\ S \in RemoteRows /\ worker[w] \in Sessions /\ TypeInv
  BY <1>1, Facts DEF Inv
<1>3. Known(w) = Stored(w)
  BY <1>1, OneFacts
<1>4. /\ TrueReader(worker[w]) /\ TrueRow(stream.asynchronous, r, Known(w), S) /\ Known(w).head.run = r
  BY <1>1, TruthFacts DEF TrueSession, Reading
<1>5. k \in DOMAIN old /\ old[k].status = "prepared" /\ DOMAIN old \subseteq Rows
  BY <1>1, <1>3, <1>4 DEF TrueReader, TrueRow, Sending, Known
<1>6. \A x : [remote EXCEPT ![r].batch[k] = x, ![r].calls[k] = @ + 1] = [remote EXCEPT ![r] = t(x)]
  BY <1>2 DEF TypeInv, RemoteType
<1>7. \A x : t(x).batch[k] = x /\ \A j \in Rows \ {k} : t(x).batch[j] = S.batch[j]
  BY <1>2, <1>5 DEF RemoteRows
<1>8. TakenRow(stream.asynchronous, r, Stored(w), S) /\ Passed(worker[w])
  BY <1>1, EventFacts DEF EventSession
<1> HIDE DEF t
<1>9. \A x : TakenRow(stream.asynchronous, r, Stored(w), t(x))
  <2> SUFFICES ASSUME NEW x, NEW j \in DOMAIN old
               PROVE  TakenBatch(stream.asynchronous, old[j], Stored(w).phase, t(x).batch[j])
    BY DEF TakenRow
  <2>1. CASE j = k
    BY <1>5, <2>1 DEF TakenBatch, Staged
  <2>2. CASE j # k
    BY <1>3, <1>4, <1>5, <1>7, <1>8, <2>2 DEF TakenRow
  <2> QED
    BY <2>1, <2>2
<1>10. /\ \A y : /\ next(y).run = r /\ next(y).pc = "ack" /\ next(y).result = y /\ next(y).row = worker[w].row
                 /\ next(y).k = k /\ next(y).read = worker[w].read
       /\ marks.run = r /\ marks.pc = "mark" /\ marks.row = worker[w].row /\ marks.read = worker[w].read
  BY <1>2 DEF Sessions
<1>11. \/ /\ \E x : remote' = [remote EXCEPT ![r] = t(x)]
          /\ worker' = [worker EXCEPT ![w] = marks]
       \/ \E x, y : /\ remote' = [remote EXCEPT ![r] = t(x)]
                    /\ worker' = [worker EXCEPT ![w] = next(y)]
                    /\ y = "rejected" => x = "refused"
                    /\ y = "staged" => x # "done"
  <2>1. [worker EXCEPT ![w].pc = "mark"] = [worker EXCEPT ![w] = marks]
    BY <1>2 DEF TypeInv, WorkerType
  <2>2. \A y : [worker EXCEPT ![w].pc = "ack", ![w].result = y] = [worker EXCEPT ![w] = next(y)]
    BY <1>2 DEF TypeInv, WorkerType
  <2>3. \A answer \in Answers : /\ answer[2] = "rejected" => answer[1] = "refused"
                                /\ answer[2] = "staged" => answer[1] # "done"
    BY DEF Answers
  <2> HIDE DEF next, marks
  <2>4. CASE \E x : remote' = [remote EXCEPT ![r].batch[k] = x, ![r].calls[k] = @ + 1] /\ Goto(w, "mark")
    <3>1. PICK x : remote' = [remote EXCEPT ![r].batch[k] = x, ![r].calls[k] = @ + 1] /\ Goto(w, "mark")
      BY <2>4
    <3>2. remote' = [remote EXCEPT ![r] = t(x)] /\ worker' = [worker EXCEPT ![w] = marks]
      BY <1>6, <2>1, <3>1 DEF Goto
    <3> QED
      BY <3>2
  <2>5. CASE \E answer \in Answers : /\ remote' = [remote EXCEPT ![r].batch[k] = answer[1], ![r].calls[k] = @ + 1]
                                     /\ worker' = [worker EXCEPT ![w].pc = "ack", ![w].result = answer[2]]
    <3>1. PICK answer \in Answers : /\ remote' = [remote EXCEPT ![r].batch[k] = answer[1], ![r].calls[k] = @ + 1]
                                    /\ worker' = [worker EXCEPT ![w].pc = "ack", ![w].result = answer[2]]
      BY Zenon, <2>5
    <3>2. remote' = [remote EXCEPT ![r] = t(answer[1])] /\ worker' = [worker EXCEPT ![w] = next(answer[2])]
      BY Zenon, <1>6, <2>2, <3>1
    <3> QED
      BY <2>3, <3>2
  <2>6. \/ \E x : remote' = [remote EXCEPT ![r].batch[k] = x, ![r].calls[k] = @ + 1] /\ Goto(w, "mark")
        \/ \E answer \in Answers : /\ remote' = [remote EXCEPT ![r].batch[k] = answer[1], ![r].calls[k] = @ + 1]
                                   /\ worker' = [worker EXCEPT ![w].pc = "ack", ![w].result = answer[2]]
    BY Zenon DEF CallBatch
  <2> QED
    BY Zenon, <2>4, <2>5, <2>6
<1> HIDE DEF next, marks
<1>12. \A s : EventSession(stream.asynchronous, marks, s)
  BY <1>1, <1>8, <1>10, EventReads DEF Reading
<1>13. ASSUME NEW x, NEW y, y = "rejected" => x = "refused", y = "staged" => x # "done"
       PROVE  EventSession(stream.asynchronous, next(y), t(x))
  BY <1>1, <1>7, <1>8, <1>10, <1>13 DEF EventSession, TrueAnswer, StagedKnown, Passed, Reading
<1> QED
  BY <1>1, <1>9, <1>10, <1>11, <1>12, <1>13, EventCall

(* writer.finish() and writer.abort() *)
LEMMA CallEndEvent ==
    ASSUME OneWorker, Inv, Inv', TruthInv, OneInv, EventInv, stream.insertOnly, UNCHANGED stream, NEW w \in Workers,
           CallFinish(w) \/ CallAbort(w)
    PROVE  EventInv'
<1> DEFINE r == worker[w].run
           S == remote[r]
           now == [S EXCEPT !.finishes = @ + 1]
           later == [now EXCEPT !.session = "finishing"]
           gone == [S EXCEPT !.session = "aborted", !.aborts = 1,
                             !.batch = [k \in Rows |-> IF @[k] = "staged" THEN "absent" ELSE @[k]]]
           next(y) == [worker[w] EXCEPT !.pc = "ackFinish", !.result = y]
           aborts == [worker[w] EXCEPT !.pc = "ackAbort"]
<1>1. Working(w) /\ UNCHANGED control
  BY DEF CallFinish, CallAbort, Working
<1>2. r \in Runs /\ S \in RemoteRows /\ worker[w] \in Sessions /\ TypeInv
  BY <1>1, Facts DEF Inv
<1>3. Known(w) = Stored(w) /\ TrueRow(stream.asynchronous, r, Stored(w), S)
  BY <1>1, OneFacts, TruthFacts
<1>4. TakenRow(stream.asynchronous, r, Stored(w), S)
  BY <1>1, EventFacts
<1>5. /\ \A y : next(y).run = r /\ next(y).pc = "ackFinish"
      /\ aborts.run = r /\ aborts.pc = "ackAbort"
  BY <1>2 DEF Sessions
<1>6. /\ \A s, y : EventSession(stream.asynchronous, next(y), s)
      /\ \A s : EventSession(stream.asynchronous, aborts, s)
  <2> HIDE DEF next, aborts
  <2> QED
    BY <1>5, EventElsewhere DEF Reading
<1>7. CASE CallFinish(w)
  <2>1. Stored(w).phase \in FinishSide
    BY <1>1, <1>3, <1>7 DEF CallFinish, Inv, SideInv, Known
  <2>2. \A y : [worker EXCEPT ![w].pc = "ackFinish", ![w].result = y] = [worker EXCEPT ![w] = next(y)]
    BY <1>2 DEF TypeInv, WorkerType
  <2>3. now \in RemoteRows /\ now.batch = S.batch /\ later.batch = S.batch
    BY <1>2 DEF RemoteRows
  <2> HIDE DEF now, later, next
  <2>4. PICK s \in {now, later, FinishedSession(now)} :
            /\ remote' = [remote EXCEPT ![r] = s]
            /\ worker' = [worker EXCEPT ![w] = Idle] \/ \E y : worker' = [worker EXCEPT ![w] = next(y)]
    BY <1>7, <2>2 DEF CallFinish, Stop, now, later
  <2>5. TakenRow(stream.asynchronous, r, Stored(w), s)
    <3> SUFFICES ASSUME Stored(w).head.run = r, NEW k \in DOMAIN Stored(w).head.batches
                 PROVE  TakenBatch(stream.asynchronous, Stored(w).head.batches[k], Stored(w).phase, s.batch[k])
      BY DEF TakenRow
    <3>1. TrueBatch(stream.asynchronous, Stored(w).head.batches[k], Stored(w).phase, S.batch[k], S)
      BY <1>3 DEF TrueRow
    <3> QED
      BY <2>1, <3>1 DEF TrueBatch, TakenBatch, FinishSide, AbortSide
  <2> QED
    BY <1>1, <1>5, <1>6, <2>4, <2>5, EventCall
<1>8. CASE CallAbort(w)
  <2>1. [worker EXCEPT ![w].pc = "ackAbort"] = [worker EXCEPT ![w] = aborts]
    BY <1>2 DEF TypeInv, WorkerType
  <2>2. \A k \in Rows : gone.batch[k] = IF S.batch[k] = "staged" THEN "absent" ELSE S.batch[k]
    BY <1>2 DEF RemoteRows
  <2> HIDE DEF gone, aborts
  <2>3. PICK s \in {S, gone} :
            /\ remote' = [remote EXCEPT ![r] = s]
            /\ worker' = [worker EXCEPT ![w] = Idle] \/ worker' = [worker EXCEPT ![w] = aborts]
    BY <1>8, <2>1 DEF CallAbort, Stop, Goto, gone
  <2>4. \A k \in Rows : /\ S.batch[k] = "refused" => s.batch[k] = "refused"
                        /\ s.batch[k] = "done" => S.batch[k] = "done"
    BY <2>2, <2>3
  <2>5. TakenRow(stream.asynchronous, r, Stored(w), s)
    BY <1>3, <1>4, <2>4, TakenKept
  <2> QED
    BY Zenon, <1>1, <1>5, <1>6, <2>3, <2>5, EventCall
<1> QED
  BY <1>7, <1>8

(* markUnknown() *)
LEMMA MarkUnknownEvent ==
    ASSUME OneWorker, Inv, Inv', TruthInv, OneInv, EventInv, stream.insertOnly, UNCHANGED stream, NEW w \in Workers,
           MarkUnknown(w)
    PROVE  EventInv'
<1> DEFINE r == worker[w].run
           k == worker[w].k
           row == Stored(w)
           old == row.head.batches
           batch == [old[k] EXCEPT !.status = "unknown"]
           batches == [old EXCEPT ![k] = batch]
           head == [row.head EXCEPT !.batches = batches]
           new == [row EXCEPT !.head = head]
<1>1. worker[w].pc = "mark" /\ Working(w) /\ TypeInv /\ UNCHANGED remote /\ Stop(w)
  BY DEF MarkUnknown, Working, Inv
<1>2. row \in ControlRows /\ row.head \in Heads /\ old \in Seq(Batches) /\ r \in DOMAIN control
  BY <1>1, Facts
<1>3. TrueReader(worker[w]) /\ Known(w) = row
  BY <1>1, TruthFacts, OneFacts DEF TrueSession, Reading
<1>4. TakenRow(stream.asynchronous, r, row, remote[r])
  BY <1>1, EventFacts
<1>5. CASE control' = [control EXCEPT ![r].head.batches[k].status = "unknown"]
  <2>1. k \in DOMAIN old
    BY <1>1, <1>3 DEF TrueReader, Sending, Known
  <2>2. batch.rows = old[k].rows /\ batch.cursor = old[k].cursor /\ batch.status = "unknown"
    <3>1. old[k] \in Batches
      BY <1>2, <2>1
    <3> QED
      BY <3>1 DEF Batches
  <2>3. DOMAIN batches = DOMAIN old /\ batches[k] = batch /\ \A j \in DOMAIN old \ {k} : batches[j] = old[j]
    BY <1>2, <2>1
  <2>4. head.batches = batches /\ head.run = row.head.run /\ head.baseline = row.head.baseline
    BY <1>2 DEF Heads
  <2>5. new.head = head /\ new.phase = row.phase
    BY <1>2 DEF ControlRows
  <2>6. control' = [control EXCEPT ![r] = new]
    BY <1>1, <1>2, <1>5 DEF TypeInv, ControlType, Stored
  <2> HIDE DEF batch, batches, head, new
  <2>7. SameBatches(row.head, new.head)
    BY <2>2, <2>3, <2>4, <2>5 DEF SameBatches
  <2>8. TakenRow(stream.asynchronous, r, new, remote[r])
    <3>1. \A s : TakenBatch(stream.asynchronous, batch, new.phase, s)
      BY <2>2 DEF TakenBatch, Staged
    <3>2. row.head.run = r => \A j \in DOMAIN old \ {k} : TakenBatch(stream.asynchronous, batches[j], new.phase, remote[r].batch[j])
      BY <1>4, <2>3, <2>5 DEF TakenRow
    <3> QED
      BY <2>3, <2>4, <2>5, <3>1, <3>2 DEF TakenRow
  <2> QED
    BY <1>1, <2>6, <2>7, <2>8, EventPublish DEF Stop
<1>6. CASE UNCHANGED control
  BY <1>1, <1>6, EventStop
<1> QED
  BY <1>5, <1>6 DEF MarkUnknown

(* acknowledge() *)
LEMMA AcknowledgeEvent ==
    ASSUME OneWorker, Inv, Inv', TruthInv, OneInv, EventInv, stream.insertOnly, UNCHANGED stream, NEW w \in Workers,
           Acknowledge(w)
    PROVE  EventInv'
<1> DEFINE r == worker[w].run
           k == worker[w].k
           a == stream.asynchronous
           out == worker[w].result
           old == Stored(w).head.batches
           staged == worker[w].staged \/ out = "staged"
           receipt == WithReceipt(Stored(w), k, out)
           due == worker[w].since >= CheckpointEvery
           pc == IF due /\ stream.cursor /\ ~staged THEN "checkpoint" ELSE "read"
           failed == [worker[w] EXCEPT !.pc = "cleanup", !.row = receipt]
           goes == [worker[w] EXCEPT !.pc = pc, !.row = receipt, !.staged = staged,
                                     !.since = IF due /\ pc = "read" THEN 0 ELSE @]
<1>1. worker[w].pc = "ack" /\ Working(w) /\ UNCHANGED remote
  BY DEF Acknowledge, Working
<1>2. worker[w] \in Sessions /\ Stored(w) \in ControlRows
  BY <1>1, Facts DEF Inv
<1>3. TrueReader(worker[w]) /\ TrueResult(a, worker[w], remote[r]) /\ Stored(w).head.run = r
  BY <1>1, TruthFacts DEF TrueSession, Reading
<1>4. Known(w) = Stored(w)
  BY <1>1, OneFacts
<1>5. k \in DOMAIN old /\ out \in {"accepted", "staged", "rejected"}
  BY <1>1, <1>3, <1>4 DEF TrueReader, TrueResult, Sending, Known
<1>6. TakenRow(a, r, Stored(w), remote[r]) /\ TrueAnswer(a, worker[w], remote[r]) /\ Passed(worker[w])
  BY <1>1, EventFacts DEF EventSession
<1>7. /\ DOMAIN receipt.head.batches = DOMAIN old
      /\ receipt.head.batches[k].out = out
      /\ \A j \in DOMAIN old \ {k} : receipt.head.batches[j] = old[j]
  BY <1>2, <1>5, ReceiptBatch
<1>8. SameBatches(Stored(w).head, receipt.head)
  BY <1>2, <1>5, ReceiptSame
<1>9. failed.run = r /\ failed.row = receipt /\ failed.pc = "cleanup"
  BY <1>2 DEF Sessions
<1>10. goes.run = r /\ goes.row = receipt /\ goes.read = worker[w].read /\ goes.pc = pc
  BY <1>2 DEF Sessions
<1>11. CASE Stop(w) /\ UNCHANGED control
  BY <1>1, <1>11, EventStop
<1>12. ASSUME Stored(w).phase = "running", control' = [control EXCEPT ![r] = receipt],
              NEW session \in {Idle, failed, goes}, worker' = [worker EXCEPT ![w] = session],
              session = failed => out = "rejected" /\ ~(a /\ worker[w].staged)
       PROVE  EventInv'
  <2>1. TakenRow(a, r, receipt, remote[r])
    <3>1. Stored(w).phase \notin AbortSide
      BY <1>12 DEF AbortSide
    <3>2. out = "rejected" => remote[r].batch[k] = "refused"
      BY <1>1, <1>6 DEF TrueAnswer
    <3>3. out = "staged" /\ ~a => remote[r].batch[k] # "done"
      BY <1>1, <1>6 DEF TrueAnswer
    <3> QED
      BY <1>2, <1>3, <1>5, <1>6, <3>1, <3>2, <3>3, ReceiptTaken
  <2>2. pc \in {"read", "checkpoint"}
    OBVIOUS
  <2> HIDE DEF failed, goes, receipt, pc
  <2>3. EventSession(a, goes, remote[r])
    <3>1. /\ DOMAIN goes.row.head.batches = DOMAIN worker[w].row.head.batches
          /\ \A j \in DOMAIN worker[w].row.head.batches : goes.row.head.batches[j].rows = worker[w].row.head.batches[j].rows
      BY <1>4, <1>8, <1>10 DEF SameBatches, Known
    <3>2. worker[w].pc \in Reading
      BY <1>1 DEF Reading
    <3> QED
      BY SMTT(60), <1>6, <1>10, <2>2, <3>1, <3>2, EventReads
  <2>4. session = failed => EventSession(a, session, remote[r])
    <3> HAVE session = failed
    <3>1. \A j \in DOMAIN old : a => ~Staged(receipt.head.batches[j])
      <4> SUFFICES ASSUME NEW j \in DOMAIN old, a PROVE ~Staged(receipt.head.batches[j])
        OBVIOUS
      <4>1. CASE j = k
        BY <1>7, <1>12, <4>1 DEF Staged
      <4>2. CASE j # k
        BY <1>3, <1>4, <1>7, <1>12, <4>2 DEF TrueReader, Staged, Accepted, Known
      <4> QED
        BY <4>1, <4>2
    <3> QED
      BY <1>7, <1>9, <3>1 DEF EventSession, TrueAnswer, StagedKnown, Passed, Reading
  <2>5. \/ session = Idle
        \/ session.run = r /\ EventSession(a, session, remote[r])
    BY <1>9, <1>10, <1>12, <2>3, <2>4
  <2> QED
    BY <1>1, <1>8, <1>12, <2>1, <2>5, EventPublish
<1>13. \/ Stop(w) /\ UNCHANGED control
       \/ /\ Stored(w).phase = "running" /\ control' = [control EXCEPT ![r] = receipt]
          /\ \E session \in {Idle, failed, goes} :
               /\ worker' = [worker EXCEPT ![w] = session]
               /\ session = failed => out = "rejected" /\ ~(a /\ worker[w].staged)
  <2>1. CASE Stop(w) /\ UNCHANGED control
    BY <2>1
  <2>2. CASE /\ Known(w).phase = "running" /\ Publishable(w, "any") /\ control' = [control EXCEPT ![r] = receipt]
             /\ worker' = [worker EXCEPT ![w] =
                  IF out = "rejected"
                  THEN IF a /\ worker[w].staged THEN Idle ELSE failed
                  ELSE goes]
    <3>1. Idle # failed /\ goes # failed
      <4>1. Idle.pc = "idle" /\ pc \in {"read", "checkpoint"}
        BY DEF Idle
      <4> HIDE DEF pc, failed, goes
      <4> QED
        BY <1>9, <1>10, <4>1
    <3> HIDE DEF failed, goes, receipt
    <3>2. \/ worker' = [worker EXCEPT ![w] = Idle]
          \/ worker' = [worker EXCEPT ![w] = failed] /\ out = "rejected" /\ ~(a /\ worker[w].staged)
          \/ worker' = [worker EXCEPT ![w] = goes]
      BY <2>2
    <3> QED
      BY <1>4, <2>2, <3>1, <3>2
  <2> QED
    BY <2>1, <2>2 DEF Acknowledge
<1> HIDE DEF failed, goes, receipt
<1> QED
  BY <1>11, <1>12, <1>13

(* acknowledgeRecovered() *)
LEMMA AcknowledgeRecoveredEvent ==
    ASSUME OneWorker, Inv, Inv', TruthInv, OneInv, EventInv, stream.insertOnly, UNCHANGED stream, NEW w \in Workers,
           AcknowledgeRecovered(w)
    PROVE  EventInv'
<1> DEFINE r == worker[w].run
           k == worker[w].k
           a == stream.asynchronous
           out == worker[w].result
           old == Stored(w).head.batches
           new == WithReceipt(Stored(w), k, out)
           session == [worker[w] EXCEPT !.pc = "recover", !.pending = @ \/ out = "staged"]
           next == [session EXCEPT !.row = new]
<1>1. worker[w].pc = "ackBatch" /\ Working(w) /\ UNCHANGED remote
  BY DEF AcknowledgeRecovered, Working
<1>2. worker[w] \in Sessions /\ Stored(w) \in ControlRows
  BY <1>1, Facts DEF Inv
<1>3. TrueSession(a, worker[w], remote[r]) /\ Stored(w).head.run = r
  BY <1>1, TruthFacts
<1>4. Known(w) = Stored(w)
  BY <1>1, OneFacts
<1>5. k \in DOMAIN old /\ out \in {"accepted", "staged", "rejected"} /\ Stored(w).phase \in {"running", "batches_pending"}
  BY <1>1, <1>3, <1>4 DEF TrueSession, TrueResult, Known
<1>6. TakenRow(a, r, Stored(w), remote[r]) /\ TrueAnswer(a, worker[w], remote[r]) /\ StagedKnown(a, worker[w])
  BY <1>1, EventFacts DEF EventSession
<1>7. /\ DOMAIN new.head.batches = DOMAIN old
      /\ new.head.batches[k].out = out
      /\ \A j \in DOMAIN old \ {k} : new.head.batches[j] = old[j]
  BY <1>2, <1>5, ReceiptBatch
<1>8. SameBatches(Stored(w).head, new.head)
  BY <1>2, <1>5, ReceiptSame
<1>9. /\ session.pc = "recover" /\ session.run = r /\ session.row = Stored(w) /\ session.seen = worker[w].seen
      /\ session.pending = (worker[w].pending \/ out = "staged")
  BY <1>2, <1>4 DEF Sessions, Known
<1>10. /\ next.pc = "recover" /\ next.run = r /\ next.row = new /\ next.seen = worker[w].seen
       /\ next.pending = (worker[w].pending \/ out = "staged")
  BY <1>2 DEF Sessions
<1>11. \A j \in worker[w].seen \cap DOMAIN old : Staged(old[j]) /\ j # k => worker[w].pending
  BY <1>1, <1>4, <1>6 DEF StagedKnown, Known
<1> HIDE DEF session, next, new
<1>12. CASE worker' = [worker EXCEPT ![w] = session] /\ UNCHANGED control /\ out = "staged"
  <2>1. EventSession(a, session, remote[r])
    BY <1>9, <1>12 DEF EventSession, TrueAnswer, StagedKnown, Passed, Reading
  <2> QED
    BY <1>1, <1>9, <1>12, <2>1, EventLocal
<1>13. CASE /\ control' = [control EXCEPT ![r] = new]
            /\ worker' = [worker EXCEPT ![w] = Idle] \/ worker' = [worker EXCEPT ![w] = next]
  <2>1. TakenRow(a, r, new, remote[r])
    <3>1. Stored(w).phase \notin AbortSide
      BY <1>5 DEF AbortSide
    <3>2. out = "rejected" => remote[r].batch[k] = "refused"
      BY <1>1, <1>6 DEF TrueAnswer
    <3>3. out = "staged" /\ ~a => remote[r].batch[k] # "done"
      BY <1>1, <1>6 DEF TrueAnswer
    <3> QED
      BY <1>2, <1>3, <1>5, <1>6, <3>1, <3>2, <3>3, ReceiptTaken DEF new
  <2>2. \A j \in worker[w].seen \cap DOMAIN old : Staged(new.head.batches[j]) => worker[w].pending \/ out = "staged"
    BY <1>7, <1>11 DEF Staged
  <2>3. EventSession(a, next, remote[r])
    BY <1>7, <1>10, <2>2 DEF EventSession, TrueAnswer, StagedKnown, Passed, Reading
  <2> QED
    BY <1>1, <1>8, <1>10, <1>13, <2>1, <2>3, EventPublish
<1>14. \/ worker' = [worker EXCEPT ![w] = session] /\ UNCHANGED control /\ out = "staged"
       \/ /\ control' = [control EXCEPT ![r] = new]
          /\ worker' = [worker EXCEPT ![w] = Idle] \/ worker' = [worker EXCEPT ![w] = next]
  BY DEF AcknowledgeRecovered, session, next, new
<1> QED
  BY <1>12, <1>13, <1>14

(* Checkpoints, and the end of a complete run. *)
LEMMA CheckpointEvent ==
    ASSUME OneWorker, Inv, Inv', TruthInv, OneInv, EventInv, stream.insertOnly, UNCHANGED stream, NEW w \in Workers,
           Checkpoint(w) \/ CommitComplete(w)
    PROVE  EventInv'
<1> DEFINE point == worker[w].point
           r == worker[w].run
           new == [Stored(w) EXCEPT !.checkpoint = point.seq]
           next == [[worker[w] EXCEPT !.pc = "read", !.since = 0] EXCEPT !.row = new]
           done == [Stored(w) EXCEPT !.checkpoint = point.seq, !.phase = "complete"]
<1>1. Working(w) /\ UNCHANGED remote
  BY DEF Checkpoint, CommitComplete, Working
<1>2. worker[w] \in Sessions /\ Stored(w) \in ControlRows /\ TypeInv /\ r \in DOMAIN control
  BY <1>1, Facts DEF Inv
<1>3. /\ new.head = Stored(w).head /\ new.phase = Stored(w).phase
      /\ done.head = Stored(w).head /\ done.phase = "complete"
  BY <1>2 DEF ControlRows
<1>4. next.run = r /\ next.row = new /\ next.pc = "read" /\ next.read = worker[w].read
  BY <1>2 DEF Sessions
<1>5. Known(w) = Stored(w)
  BY <1>1, OneFacts
<1>6. \/ worker' = [worker EXCEPT ![w] = Idle] /\ UNCHANGED control
      \/ /\ worker[w].pc = "checkpoint"
         /\ worker' = [worker EXCEPT ![w] = Cleanup(w, worker[w].staged)] /\ UNCHANGED control
      \/ /\ worker[w].pc = "checkpoint"
         /\ control' = [control EXCEPT ![r] = new] /\ worker' = [worker EXCEPT ![w] = next]
      \/ /\ control' = [control EXCEPT ![r].checkpoint = point.seq, ![r].phase = "complete"]
         /\ worker' = [worker EXCEPT ![w] = Idle]
  BY DEF Checkpoint, CommitComplete, Publish, Stop
<1>7. CASE worker' = [worker EXCEPT ![w] = Idle] /\ UNCHANGED control
  BY <1>1, <1>7, EventLocal
<1>8. CASE /\ worker[w].pc = "checkpoint"
           /\ worker' = [worker EXCEPT ![w] = Cleanup(w, worker[w].staged)] /\ UNCHANGED control
  BY <1>1, <1>8, EventCleanup
<1>9. CASE /\ worker[w].pc = "checkpoint"
           /\ control' = [control EXCEPT ![r] = new] /\ worker' = [worker EXCEPT ![w] = next]
  <2> HIDE DEF new, next
  <2>1. Passed(worker[w]) /\ worker[w].pc \in Reading
    BY <1>1, <1>9, EventFacts DEF EventSession, Reading
  <2>2. next.row.head.batches = worker[w].row.head.batches
    BY <1>3, <1>4, <1>5 DEF Known
  <2>3. EventSession(stream.asynchronous, next, remote[r])
    BY SMTT(60), <1>4, <2>1, <2>2, EventReads
  <2> QED
    BY <1>1, <1>3, <1>4, <1>9, <2>3, EventPhase
<1>10. CASE /\ control' = [control EXCEPT ![r].checkpoint = point.seq, ![r].phase = "complete"]
            /\ worker' = [worker EXCEPT ![w] = Idle]
  <2>1. control' = [control EXCEPT ![r] = done]
    BY <1>2, <1>10 DEF Stored, TypeInv, ControlType
  <2> HIDE DEF done
  <2>2. done.phase \in FinishSide /\ done.phase \notin AbortSide
    BY <1>3 DEF FinishSide, AbortSide
  <2> QED
    BY <1>1, <1>3, <1>10, <2>1, <2>2, EventPhase
<1> QED
  BY <1>6, <1>7, <1>8, <1>9, <1>10

(* sealExtraction() and prepareFinish() *)
LEMMA SealingEvent ==
    ASSUME OneWorker, Inv, Inv', TruthInv, OneInv, EventInv, stream.insertOnly, UNCHANGED stream, NEW w \in Workers,
           SealExtraction(w) \/ PrepareFinish(w)
    PROVE  EventInv'
<1> DEFINE sealed == [Stored(w) EXCEPT !.phase = "batches_pending"]
           finish == [Stored(w) EXCEPT !.phase = "finish_prepared", !.finish = worker[w].point.seq]
           next(pc, new) == [[worker[w] EXCEPT !.pc = pc] EXCEPT !.row = new]
<1>1. Working(w) /\ UNCHANGED remote /\ worker[w].pc \in {"read", "checkpoint", "prepareFinish"}
  BY DEF SealExtraction, PrepareFinish, Working
<1>2. worker[w] \in Sessions /\ Stored(w) \in ControlRows
  BY <1>1, Facts DEF Inv
<1>3. /\ sealed.head = Stored(w).head /\ sealed.phase = "batches_pending"
      /\ finish.head = Stored(w).head /\ finish.phase = "finish_prepared"
  BY <1>2 DEF ControlRows
<1>4. \A pc, new : next(pc, new).run = worker[w].run /\ next(pc, new).pc = pc
  BY <1>2 DEF Sessions
<1>5. CASE UNCHANGED control /\ worker' = [worker EXCEPT ![w] = Idle]
  BY <1>1, <1>5, EventLocal
<1>6. CASE UNCHANGED control /\ worker' = [worker EXCEPT ![w] = Cleanup(w, worker[w].staged)]
  BY <1>1, <1>6, EventCleanup
<1>7. ASSUME NEW new \in {sealed, finish}, NEW pc \in {"detach", "prepareFinish", "finish"},
             new = sealed => Stored(w).phase = "running",
             control' = [control EXCEPT ![worker[w].run] = new],
             worker' = [worker EXCEPT ![w] = next(pc, new)]
      PROVE  EventInv'
  <2> HIDE DEF sealed, finish, next
  <2>1. new.head = Stored(w).head /\ new.phase \notin AbortSide
    BY <1>3 DEF AbortSide
  <2>2. Stored(w).phase \in FinishSide => new.phase \in FinishSide
    BY <1>3, <1>7 DEF FinishSide
  <2>3. next(pc, new).run = worker[w].run /\ EventSession(stream.asynchronous, next(pc, new), remote[worker[w].run])
    BY <1>4, EventElsewhere DEF Reading
  <2> QED
    BY <1>1, <1>7, <2>1, <2>2, <2>3, EventPhase
<1>8. CASE SealExtraction(w)
  <2>1. \/ UNCHANGED control /\ worker' = [worker EXCEPT ![w] = Cleanup(w, worker[w].staged)]
        \/ /\ Stored(w).phase = "running"
           /\ control' = [control EXCEPT ![worker[w].run] = sealed]
           /\ \E pc \in {"detach", "prepareFinish"} : worker' = [worker EXCEPT ![w] = next(pc, sealed)]
    BY <1>8 DEF SealExtraction, Publish, Publishable, Stored
  <2> HIDE DEF sealed, next
  <2> QED
    BY <1>6, <1>7, <2>1
<1>9. CASE PrepareFinish(w)
  <2>1. \/ UNCHANGED control /\ worker' = [worker EXCEPT ![w] = Idle]
        \/ UNCHANGED control /\ worker' = [worker EXCEPT ![w] = Cleanup(w, worker[w].staged)]
        \/ /\ control' = [control EXCEPT ![worker[w].run] = finish]
           /\ worker' = [worker EXCEPT ![w] = next("finish", finish)]
    BY <1>9 DEF PrepareFinish, Publish
  <2>2. finish # sealed
    BY <1>3
  <2> HIDE DEF finish, next, sealed
  <2> QED
    BY <1>5, <1>6, <1>7, <2>1, <2>2
<1> QED
  BY <1>8, <1>9

(* detach() and prepareAbort() *)
LEMMA DetachEvent ==
    ASSUME OneWorker, Inv, Inv', TruthInv, OneInv, EventInv, stream.insertOnly, UNCHANGED stream, NEW w \in Workers,
           Detach(w) \/ PrepareAbort(w)
    PROVE  EventInv'
<1> DEFINE detached == [Stored(w) EXCEPT !.detached = TRUE]
           abort == [Stored(w) EXCEPT !.phase = "abort_prepared"]
           next == [[worker[w] EXCEPT !.pc = "abort"] EXCEPT !.row = abort]
<1>1. Working(w) /\ UNCHANGED remote
  BY DEF Detach, PrepareAbort, Working
<1>2. worker[w] \in Sessions /\ Stored(w) \in ControlRows
  BY <1>1, Facts DEF Inv
<1>3. /\ detached.head = Stored(w).head /\ detached.phase = Stored(w).phase
      /\ abort.head = Stored(w).head /\ abort.phase = "abort_prepared"
      /\ next.run = worker[w].run /\ next.pc = "abort"
  BY <1>2 DEF ControlRows, Sessions
<1>4. Known(w) = Stored(w)
  BY <1>1, OneFacts
<1>5. CASE UNCHANGED control /\ Stop(w)
  BY <1>1, <1>5, EventStop
<1>6. CASE control' = [control EXCEPT ![worker[w].run] = detached] /\ Stop(w)
  <2> HIDE DEF detached
  <2> QED
    BY <1>1, <1>3, <1>6, EventPhase DEF Stop
<1>7. CASE /\ worker[w].pc = "cleanup" /\ Stored(w).phase \in {"running", "batches_pending"}
           /\ \A b \in Batch(Stored(w).head.batches) : Stored(w).phase = "batches_pending" => ~Staged(b)
           /\ control' = [control EXCEPT ![worker[w].run] = abort]
           /\ worker' = [worker EXCEPT ![w] = next]
  <2> HIDE DEF abort, next
  <2>1. StagedKnown(stream.asynchronous, worker[w])
    BY <1>1, EventFacts DEF EventSession
  <2>2. stream.asynchronous => \A k \in DOMAIN Stored(w).head.batches : ~Staged(Stored(w).head.batches[k])
    BY <1>4, <1>7, <2>1 DEF StagedKnown, Known, Batch
  <2>3. Stored(w).phase \notin FinishSide
    BY <1>7 DEF FinishSide
  <2>4. EventSession(stream.asynchronous, next, remote[worker[w].run])
    BY <1>3, EventElsewhere DEF Reading
  <2> QED
    BY <1>1, <1>3, <1>7, <2>2, <2>3, <2>4, EventPhase
<1>8. CASE Detach(w)
  <2>1. UNCHANGED control \/ control' = [control EXCEPT ![worker[w].run] = detached]
    BY <1>8 DEF Detach, Stored
  <2> QED
    BY <1>5, <1>6, <1>8, <2>1 DEF Detach
<1>9. CASE PrepareAbort(w)
  <2>1. \/ UNCHANGED control /\ Stop(w)
        \/ /\ Stored(w).phase \in {"running", "batches_pending"}
           /\ \A b \in Batch(Stored(w).head.batches) : Stored(w).phase = "batches_pending" => ~Staged(b)
           /\ control' = [control EXCEPT ![worker[w].run] = abort]
           /\ worker' = [worker EXCEPT ![w] = next]
    BY <1>4, <1>9 DEF PrepareAbort, Publish
  <2>2. worker[w].pc = "cleanup"
    BY <1>9 DEF PrepareAbort
  <2> HIDE DEF abort, next
  <2> QED
    BY <1>5, <1>7, <2>1, <2>2
<1> QED
  BY <1>8, <1>9

(* finish() *)
LEMMA FinishReceiptsEvent ==
    ASSUME OneWorker, Inv, Inv', TruthInv, OneInv, EventInv, stream.insertOnly, UNCHANGED stream, NEW w \in Workers,
           AcknowledgeFinish(w) \/ ResolveFinish(w)
    PROVE  EventInv'
<1> DEFINE r == worker[w].run
           K == Known(w).head.batches
           row(phase) == [Stored(w) EXCEPT !.phase = phase]
           next(pc, phase) == [[worker[w] EXCEPT !.pc = pc] EXCEPT !.row = row(phase)]
<1>1. worker[w].pc \in {"ackFinish", "resolve"} /\ Working(w) /\ UNCHANGED remote
  BY DEF AcknowledgeFinish, ResolveFinish, Working
<1>2. worker[w] \in Sessions /\ Stored(w) \in ControlRows /\ TypeInv
  BY <1>1, Facts DEF Inv
<1>3. Known(w) = Stored(w)
  BY <1>1, OneFacts
<1>4. Stored(w).phase \in FinishSide
  BY <1>1, <1>3 DEF Inv, SideInv, Known
<1>5. \A phase : row(phase).head = Stored(w).head /\ row(phase).phase = phase
  BY <1>2 DEF ControlRows
<1>6. \A x : x.pc \in {"detach", "resolve", "commit"} => EventSession(stream.asynchronous, x, remote[r])
  BY EventElsewhere DEF Reading
<1>7. ASSUME NEW phase \in {"finish_pending", "finish_resolving", "finish_accepted"}, NEW session,
             control' = [control EXCEPT ![r] = row(phase)], worker' = [worker EXCEPT ![w] = session],
             session.run = r, session.pc \in {"detach", "resolve", "commit"}
      PROVE  EventInv'
  <2> HIDE DEF row
  <2>1. row(phase).head = Stored(w).head /\ row(phase).phase \in FinishSide /\ row(phase).phase \notin AbortSide
    BY <1>5 DEF FinishSide, AbortSide
  <2>2. EventSession(stream.asynchronous, session, remote[r])
    BY <1>6, <1>7
  <2> QED
    BY <1>1, <1>7, <2>1, <2>2, EventPhase
<1>8. CASE AcknowledgeFinish(w)
  <2> DEFINE goes(pc) == [worker[w] EXCEPT !.pc = pc]
  <2>1. \A pc, phase : next(pc, phase).run = r /\ next(pc, phase).pc = pc
    BY <1>2 DEF Sessions
  <2>2. \/ UNCHANGED control /\ \E pc \in {"detach", "resolve"} : Goto(w, pc)
        \/ \E phase \in {"finish_pending", "finish_resolving"}, pc \in {"detach", "resolve"} :
              /\ control' = [control EXCEPT ![r] = row(phase)]
              /\ worker' = [worker EXCEPT ![w] = next(pc, phase)]
    BY <1>8 DEF AcknowledgeFinish, Publish
  <2>3. \A pc : /\ goes(pc).run = r /\ goes(pc).pc = pc
                /\ [worker EXCEPT ![w].pc = pc] = [worker EXCEPT ![w] = goes(pc)]
    BY <1>2 DEF Sessions, TypeInv, WorkerType
  <2> HIDE DEF row, next, goes
  <2>4. ASSUME UNCHANGED control, NEW pc \in {"detach", "resolve"}, Goto(w, pc) PROVE EventInv'
    <3>1. worker' = [worker EXCEPT ![w] = goes(pc)]
      BY <2>3, <2>4 DEF Goto
    <3>2. goes(pc).run = r /\ EventSession(stream.asynchronous, goes(pc), remote[r])
      BY <1>6, <2>3
    <3> QED
      BY <1>1, <2>4, <3>1, <3>2, EventLocal
  <2> QED
    BY <1>7, <2>1, <2>2, <2>4
<1>9. CASE ResolveFinish(w)
  <2> DEFINE staged == {k \in DOMAIN K : Staged(K[k])}
             session == [worker[w] EXCEPT !.pc = "commit",
                                          !.point = IF worker[w].recovered
                                                    THEN FinalPoint(Known(w), Known(w).next) ELSE @]
  <2>1. /\ worker[w].pc = "resolve"
        /\ \/ \E k \in staged : Publish(w, WithReceipt(Stored(w), k, "accepted"), worker[w])
           \/ Publish(w, row("finish_accepted"), session)
    BY <1>9 DEF ResolveFinish
  <2>2. ASSUME NEW k \in staged, NEW new, new = WithReceipt(Stored(w), k, "accepted"), Publish(w, new, worker[w])
        PROVE  EventInv'
    <3> DEFINE resolves == [worker[w] EXCEPT !.row = new]
    <3>1. resolves.run = r /\ resolves.pc = "resolve"
      BY <1>2, <2>1 DEF Sessions
    <3>2. control' = [control EXCEPT ![r] = new] /\ worker' = [worker EXCEPT ![w] = resolves]
      BY <2>2 DEF Publish
    <3>3. EventSession(stream.asynchronous, resolves, remote[r])
      <4> HIDE DEF resolves
      <4> QED
        BY <1>6, <3>1
    <3> HIDE DEF resolves
    <3>4. k \in DOMAIN Stored(w).head.batches
      BY <1>3, <2>2
    <3>5. SameBatches(Stored(w).head, new.head)
      BY <1>2, <2>2, <3>4, ReceiptSame
    <3>6. TakenRow(stream.asynchronous, r, Stored(w), remote[r]) /\ Stored(w).head.run = r
      BY <1>1, EventFacts, TruthFacts
    <3>7. Stored(w).phase \notin AbortSide
      BY <1>4 DEF AbortSide, FinishSide
    <3>8. TakenRow(stream.asynchronous, r, new, remote[r])
      BY <1>2, <2>2, <3>4, <3>6, <3>7, ReceiptTaken
    <3>9. worker[w].pc # "open"
      BY <1>1
    <3> QED
      BY <1>1, <3>1, <3>2, <3>3, <3>5, <3>8, <3>9, EventPublish
  <2>3. CASE Publish(w, row("finish_accepted"), session)
    <3> DEFINE commits == [session EXCEPT !.row = row("finish_accepted")]
    <3>1. commits.run = r /\ commits.pc = "commit"
      BY <1>2 DEF Sessions
    <3>2. /\ control' = [control EXCEPT ![r] = row("finish_accepted")]
          /\ worker' = [worker EXCEPT ![w] = commits]
      BY <2>3 DEF Publish
    <3> HIDE DEF commits, session, row
    <3> QED
      BY <1>7, <3>1, <3>2
  <2> HIDE DEF row, session
  <2> QED
    BY <2>1, <2>2, <2>3
<1> QED
  BY <1>8, <1>9

(* acknowledgeAbort() *)
LEMMA AcknowledgeAbortEvent ==
    ASSUME OneWorker, Inv, Inv', TruthInv, OneInv, EventInv, stream.insertOnly, UNCHANGED stream, NEW w \in Workers,
           AcknowledgeAbort(w)
    PROVE  EventInv'
<1> DEFINE r == worker[w].run
           row == Stored(w)
           old == row.head.batches
           cancelled == [k \in DOMAIN old |->
                            IF Staged(old[k]) THEN [old[k] EXCEPT !.status = "cancelled"] ELSE old[k]]
           head == [row.head EXCEPT !.batches = cancelled]
           new == [row EXCEPT !.phase = "aborted", !.head = head]
<1>1. /\ Working(w) /\ UNCHANGED remote /\ worker[w].pc # "open"
      /\ worker' = [worker EXCEPT ![w] = Idle] /\ row.phase = "abort_prepared"
  BY DEF AcknowledgeAbort, Working, Stop, Publishable, Stored
<1>2. row \in ControlRows /\ row.head \in Heads /\ old \in Seq(Batches)
  BY <1>1, Facts DEF Inv
<1>3. head.batches = cancelled /\ head.run = row.head.run /\ head.baseline = row.head.baseline
  BY <1>2 DEF Heads
<1>4. new.head = head /\ new.phase = "aborted"
  BY <1>2 DEF ControlRows
<1>5. control' = [control EXCEPT ![r] = new]
  BY DEF AcknowledgeAbort
<1>6. \A k \in DOMAIN old : /\ cancelled[k].rows = old[k].rows /\ cancelled[k].cursor = old[k].cursor
                            /\ IF Staged(old[k]) THEN cancelled[k].status = "cancelled" ELSE cancelled[k] = old[k]
  <2> SUFFICES ASSUME NEW k \in DOMAIN old
               PROVE  /\ cancelled[k].rows = old[k].rows /\ cancelled[k].cursor = old[k].cursor
                      /\ IF Staged(old[k]) THEN cancelled[k].status = "cancelled" ELSE cancelled[k] = old[k]
    OBVIOUS
  <2>1. old[k] \in Batches
    BY <1>2
  <2> QED
    BY <2>1 DEF Batches
<1>7. DOMAIN cancelled = DOMAIN old
  OBVIOUS
<1>8. TakenRow(stream.asynchronous, r, row, remote[r]) /\ row.head.run = r
  BY <1>1, EventFacts, TruthFacts
<1> HIDE DEF cancelled, head, new
<1>9. TakenRow(stream.asynchronous, r, new, remote[r])
  <2> SUFFICES ASSUME NEW k \in DOMAIN old
               PROVE  TakenBatch(stream.asynchronous, cancelled[k], "aborted", remote[r].batch[k])
    BY <1>3, <1>4, <1>7 DEF TakenRow
  <2>1. TakenBatch(stream.asynchronous, old[k], "abort_prepared", remote[r].batch[k])
    BY <1>1, <1>8 DEF TakenRow
  <2>2. CASE Staged(old[k])
    BY <1>6, <2>1, <2>2 DEF TakenBatch, Staged, AbortSide, FinishSide
  <2>3. CASE ~Staged(old[k])
    BY <1>6, <2>1, <2>3 DEF TakenBatch
  <2> QED
    BY <2>2, <2>3
<1>10. SameBatches(row.head, new.head)
  BY <1>3, <1>4, <1>6, <1>7 DEF SameBatches
<1> QED
  BY <1>1, <1>5, <1>9, <1>10, EventPublish

(* recoverRun(), where it only looks. *)
LEMMA RecoveryEvent ==
    ASSUME OneWorker, Inv, Inv', TruthInv, OneInv, EventInv, stream.insertOnly, UNCHANGED stream, NEW w \in Workers,
           RecoverFinish(w) \/ RecoverBatch(w) \/ RecoverDecide(w)
    PROVE  EventInv'
<1> DEFINE r == worker[w].run
           a == stream.asynchronous
           S == remote[r]
           K == Known(w).head.batches
<1>1. Working(w) /\ UNCHANGED <<control, remote>> /\ worker[w].pc = "recover"
  BY Zenon DEF RecoverFinish, RecoverBatch, RecoverDecide, Working
<1>2. worker[w] \in Sessions /\ WorkerType
  BY <1>1, Facts DEF Inv, TypeInv
<1>3. \A k \in worker[w].seen \cap DOMAIN K : Staged(K[k]) => worker[w].pending
  BY <1>1, EventFacts DEF EventSession, StagedKnown, Known
<1>4. CASE RecoverFinish(w)
  <2> DEFINE answered(x) == [worker[w] EXCEPT !.pc = "ackFinish", !.result = x]
             commits == [worker[w] EXCEPT !.pc = "commit", !.point = FinalPoint(Known(w), Known(w).next)]
  <2>1. /\ \A x : answered(x).pc = "ackFinish" /\ answered(x).run = r
        /\ commits.pc = "commit" /\ commits.run = r
    BY <1>2 DEF Sessions
  <2>2. /\ [worker EXCEPT ![w].pc = "ackFinish", ![w].result = "accepted"] = [worker EXCEPT ![w] = answered("accepted")]
        /\ [worker EXCEPT ![w].pc = "commit", ![w].point = FinalPoint(Known(w), Known(w).next)]
               = [worker EXCEPT ![w] = commits]
    BY <1>2 DEF WorkerType
  <2>3. \/ worker' = [worker EXCEPT ![w] = Idle]
        \/ \E x : worker' = [worker EXCEPT ![w] = answered(x)]
        \/ worker' = [worker EXCEPT ![w] = commits]
    BY Zenon, <1>4, <2>2 DEF RecoverFinish
  <2> HIDE DEF answered, commits
  <2>4. EventSession(a, commits, S) /\ \A x : EventSession(a, answered(x), S)
    BY <2>1, EventElsewhere DEF Reading
  <2> QED
    BY <1>1, <2>1, <2>3, <2>4, EventLocal
<1>5. CASE RecoverBatch(w)
  <2> DEFINE evidence(k) == BatchEvidence(S.batch[k])
             visited(k) == [worker[w] EXCEPT !.seen = @ \cup {k}, !.rejected = @ \/ Rejected(K[k])]
             asks(k) == [visited(k) EXCEPT !.pc = "ackBatch", !.k = k, !.result = evidence(k)]
  <2>1. \A k : /\ visited(k).pc = "recover" /\ visited(k).run = r /\ visited(k).row = Known(w)
               /\ visited(k).seen = worker[w].seen \cup {k} /\ visited(k).pending = worker[w].pending
    BY <1>1, <1>2 DEF Sessions, Known
  <2>2. \A k : /\ asks(k).pc = "ackBatch" /\ asks(k).run = r /\ asks(k).row = Known(w)
               /\ asks(k).seen = worker[w].seen \cup {k} /\ asks(k).pending = worker[w].pending
               /\ asks(k).k = k /\ asks(k).result = evidence(k)
    BY <1>1, <1>2 DEF Sessions, Known
  <2>3. \A k : /\ evidence(k) = "rejected" => S.batch[k] = "refused"
               /\ evidence(k) = "staged" => S.batch[k] = "staged"
    BY DEF BatchEvidence
  <2>4. \/ worker' = [worker EXCEPT ![w] = Idle]
        \/ \E k \in DOMAIN K : ~Staged(K[k]) /\ worker' = [worker EXCEPT ![w] = visited(k)]
        \/ \E k \in DOMAIN K : worker' = [worker EXCEPT ![w] = asks(k)]
    BY Zenon, <1>5 DEF RecoverBatch, Stop
  <2> HIDE DEF visited, asks, evidence
  <2>5. \A k \in DOMAIN K : ~Staged(K[k]) => EventSession(a, visited(k), S)
    BY <1>3, <2>1 DEF EventSession, TrueAnswer, StagedKnown, Passed, Reading
  <2>6. \A k \in DOMAIN K : EventSession(a, asks(k), S)
    BY <1>3, <2>2, <2>3 DEF EventSession, TrueAnswer, StagedKnown, Passed, Reading
  <2> QED
    BY <1>1, <2>1, <2>2, <2>4, <2>5, <2>6, EventLocal
<1>6. CASE RecoverDecide(w)
  <2> DEFINE sealed == Known(w).phase = "batches_pending"
             pc == IF Known(w).phase = "abort_prepared" THEN "abort"
                   ELSE IF worker[w].pending /\ (a \/ sealed) THEN "detach"
                   ELSE IF sealed /\ ~worker[w].rejected THEN "prepareFinish"
                   ELSE "cleanup"
             point == IF pc = "prepareFinish" THEN FinalPoint(Known(w), Known(w).next) ELSE worker[w].point
             session == [worker[w] EXCEPT !.pc = pc, !.point = point]
  <2>1. worker' = [worker EXCEPT ![w] = session]
    BY <1>2, <1>6 DEF RecoverDecide, WorkerType
  <2>2. session.pc = pc /\ session.run = r /\ session.row = Known(w)
    BY <1>2 DEF Sessions, Known
  <2>3. pc \in {"abort", "detach", "prepareFinish", "cleanup"}
    OBVIOUS
  <2>4. Known(w).phase = "running" => worker[w].seen = DOMAIN K
    BY <1>6 DEF RecoverDecide
  <2>5. pc = "cleanup" /\ a /\ Known(w).phase = "running" => \A k \in DOMAIN K : ~Staged(K[k])
    BY <1>3, <2>4
  <2> HIDE DEF session, pc
  <2>6. EventSession(a, session, S)
    BY <2>2, <2>3, <2>5 DEF EventSession, TrueAnswer, StagedKnown, Passed, Reading
  <2> QED
    BY <1>1, <2>1, <2>2, <2>6, EventLocal
<1> QED
  BY <1>4, <1>5, <1>6

(* prepare(): only events that were not read before and are not in the baseline. *)
LEMMA PrepareEvent ==
    ASSUME OneWorker, Inv, Inv', TruthInv, OneInv, EventInv, stream.insertOnly, UNCHANGED stream, NEW w \in Workers,
           Prepare(w)
    PROVE  EventInv'
<1> DEFINE r == worker[w].run
           a == stream.asynchronous
           old == Stored(w).head.batches
           b(to) == NextBatch(w, to)
           n(to) == Cardinality(b(to).rows)
           batches(to) == Append(old, b(to))
           row(to) == [Stored(w) EXCEPT !.head.batches = batches(to), !.next = b(to).last]
           step(to) == [worker[w] EXCEPT !.pc = "call", !.read = to, !.k = Len(batches(to)),
                                         !.point = [seq |-> b(to).last, cursor |-> b(to).cursor],
                                         !.since = @ + n(to)]
<1>1. worker[w].pc = "read" /\ Working(w) /\ TypeInv /\ UNCHANGED remote
  BY DEF Prepare, Working, Inv
<1>2. /\ worker[w] \in Sessions /\ Stored(w) \in ControlRows /\ Stored(w).head \in Heads
      /\ old \in Seq(Batches) /\ worker[w].read \in Nat /\ r \in DOMAIN control
  BY <1>1, Facts DEF Sessions
<1>3. Stored(w).head.run = r /\ Known(w) = Stored(w)
  BY <1>1, TruthFacts, OneFacts
<1>4. CASE worker' = [worker EXCEPT ![w] = Cleanup(w, worker[w].staged)] /\ UNCHANGED control
  BY <1>1, <1>4, EventCleanup
<1>5. ASSUME NEW to \in Unread(w), Publish(w, row(to), step(to)) PROVE EventInv'
  <2> DEFINE head == [Stored(w).head EXCEPT !.batches = batches(to)]
             new == [Stored(w) EXCEPT !.head = head, !.next = b(to).last]
             next == [step(to) EXCEPT !.row = new]
  <2>1. b(to).rows = {i \in Unread(w) : i <= to} /\ b(to).status = "prepared"
    BY DEF NextBatch
  <2>2. to \in Nat /\ worker[w].read < to
    BY SMTT(60), <1>2, PositionTypes DEF Unread
  <2>3. /\ DOMAIN batches(to) = 1 .. (Len(old) + 1) /\ batches(to)[Len(old) + 1] = b(to)
        /\ \A j \in DOMAIN old : batches(to)[j] = old[j]
        /\ DOMAIN old = 1 .. Len(old) /\ Len(old) \in Nat
    BY SMTT(60), <1>2
  <2>4. head.run = r /\ head.batches = batches(to) /\ head.baseline = Stored(w).head.baseline
    BY <1>2, <1>3 DEF Heads
  <2>5. new.head = head /\ new.phase = Stored(w).phase
    BY <1>2 DEF ControlRows
  <2>6. row(to) = new
    BY <1>2
  <2>7. next.run = r /\ next.row = new /\ next.read = to /\ next.pc = "call"
    BY <1>2 DEF Sessions
  <2>8. control' = [control EXCEPT ![r] = new] /\ worker' = [worker EXCEPT ![w] = next]
    BY <1>5, <2>6 DEF Publish
  <2>9. \A i \in b(to).rows : i \in worker[w].read + 1 .. to /\ i \notin Stored(w).head.baseline
    BY <1>2, <1>3, <2>1, <2>2 DEF Unread, Members
  <2>10. \A k \in DOMAIN old : old[k].rows \subseteq 1 .. worker[w].read
    BY <1>1, <1>3, EventFacts DEF EventSession, Passed, Reading, Known
  <2>11. /\ Apart(Stored(w).head)
         /\ \A q \in DOMAIN control : q < r => Holds(Stored(w).head.baseline, control[q].head, remote[q])
    BY <1>1, <1>3, EventFacts DEF EventHead, Stored
  <2>12. TakenRow(a, r, Stored(w), remote[r])
    BY <1>1, EventFacts
  <2> HIDE DEF new, next, head, batches, b, n
  <2>13. \A k \in DOMAIN batches(to) : k \in DOMAIN old \/ (k = Len(old) + 1 /\ batches(to)[k] = b(to))
    BY <2>3
  <2>14. b(to).rows \cap Stored(w).head.baseline = {}
    BY <2>9
  <2>15. \A k \in DOMAIN old : b(to).rows \cap old[k].rows = {}
    BY <1>2, <2>2, <2>9, <2>10
  <2>16. Apart(new.head)
    <3> SUFFICES ASSUME NEW k \in DOMAIN batches(to)
                 PROVE  /\ batches(to)[k].rows \cap Stored(w).head.baseline = {}
                        /\ \A j \in DOMAIN batches(to) : j # k => batches(to)[j].rows \cap batches(to)[k].rows = {}
      BY <2>4, <2>5 DEF Apart
    <3>1. CASE k \in DOMAIN old
      BY <2>3, <2>11, <2>13, <2>15, <3>1 DEF Apart
    <3>2. CASE k = Len(old) + 1 /\ batches(to)[k] = b(to)
      BY <2>3, <2>13, <2>14, <2>15, <3>2
    <3> QED
      BY <2>13, <3>1, <3>2
  <2>17. TakenRow(a, r, new, remote[r])
    <3>1. \A s : TakenBatch(a, b(to), new.phase, s)
      BY <2>1 DEF TakenBatch, Staged
    <3>2. \A k \in DOMAIN old : TakenBatch(a, batches(to)[k], new.phase, remote[r].batch[k])
      BY <1>3, <2>3, <2>5, <2>12 DEF TakenRow
    <3> QED
      BY <2>4, <2>5, <2>13, <3>1, <3>2 DEF TakenRow
  <2>18. \A k \in DOMAIN batches(to) : batches(to)[k].rows \subseteq 1 .. to
    <3> SUFFICES ASSUME NEW k \in DOMAIN batches(to) PROVE batches(to)[k].rows \subseteq 1 .. to
      OBVIOUS
    <3>1. 1 .. worker[w].read \subseteq 1 .. to /\ worker[w].read + 1 .. to \subseteq 1 .. to
      BY <1>2, <2>2
    <3>2. CASE k \in DOMAIN old
      BY <2>3, <2>10, <3>1, <3>2
    <3>3. CASE batches(to)[k] = b(to)
      BY <2>9, <3>1, <3>3
    <3> QED
      BY <2>13, <3>2, <3>3
  <2>19. EventSession(a, next, remote[r])
    BY <2>4, <2>5, <2>7, <2>18 DEF EventSession, TrueAnswer, StagedKnown, Passed, Reading
  <2>20. control'[r] = new /\ worker'[w] = next /\ OnlyRun(w)
    BY <1>1, <1>2, <2>8 DEF TypeInv, ControlType, WorkerType, OnlyRun
  <2>21. new.head.run = r /\ new.head.baseline = Stored(w).head.baseline
    BY <2>4, <2>5
  <2> QED
    BY <1>1, <2>7, <2>11, <2>16, <2>17, <2>19, <2>20, <2>21, EventStep
<1>6. \/ worker' = [worker EXCEPT ![w] = Cleanup(w, worker[w].staged)] /\ UNCHANGED control
      \/ \E to \in Unread(w) : Publish(w, row(to), step(to))
  BY Zenon DEF Prepare
<1> HIDE DEF row, step
<1> QED
  BY <1>4, <1>5, <1>6

(* ObjectJournal.open(): the compacted head knows the events of the run before *)
(* it, which has ended, and those this one knew of.                            *)
LEMMA OpenJournalEvent ==
    ASSUME OneWorker, Inv, Inv', TruthInv, OneInv, AbortInv, EventInv, stream.insertOnly, UNCHANGED stream, NEW w \in Workers,
           OpenJournal(w)
    PROVE  EventInv'
<1> DEFINE r == worker[w].run
           a == stream.asynchronous
           pc == IF worker[w].recovered THEN "recover" ELSE "ready"
           head == Known(w).head
           baseline == head.baseline \cup RowsOf(head.batches, Accepted) \cup RowsOf(head.batches, Staged)
           session == [worker[w] EXCEPT !.pc = pc]
           compact == [run |-> r, baseline |-> baseline, batches |-> <<>>]
           new == [Stored(w) EXCEPT !.head = compact]
           next == [session EXCEPT !.row = new]
<1>1. worker[w].pc = "open" /\ Working(w) /\ TypeInv /\ UNCHANGED remote
  BY DEF OpenJournal, Working, Inv
<1>2. worker[w] \in Sessions /\ Stored(w) \in ControlRows /\ r \in DOMAIN control /\ Known(w) = Stored(w)
  BY <1>1, Facts, OneFacts
<1>3. \/ Goto(w, pc) /\ UNCHANGED control
      \/ /\ head.run # r
         /\ control' = [control EXCEPT ![r] = new] /\ worker' = [worker EXCEPT ![w] = next]
      \/ Stop(w) /\ UNCHANGED control
  BY DEF OpenJournal, Publish, Stored, Known
<1>4. pc \in {"ready", "recover"} /\ worker[w].seen = {}
  BY <1>1, EventFacts DEF EventSession, StagedKnown
<1>5. \A s, x : x.pc = pc /\ x.seen = {} => EventSession(a, x, s)
  <2> HIDE DEF pc
  <2> QED
    BY <1>4 DEF EventSession, TrueAnswer, StagedKnown, Passed, Reading
<1>6. CASE Stop(w) /\ UNCHANGED control
  BY <1>1, <1>6, EventStop
<1>7. CASE Goto(w, pc) /\ UNCHANGED control
  <2>1. worker' = [worker EXCEPT ![w] = session]
    BY <1>1, <1>7 DEF Goto, TypeInv, WorkerType
  <2>2. session.run = r /\ session.pc = pc /\ session.seen = worker[w].seen
    BY <1>2 DEF Sessions
  <2> HIDE DEF session, pc
  <2>3. EventSession(a, session, remote[r])
    BY <1>4, <1>5, <2>2
  <2> QED
    BY <1>1, <1>7, <2>1, <2>2, <2>3, EventLocal
<1>8. CASE /\ head.run # r
           /\ control' = [control EXCEPT ![r] = new] /\ worker' = [worker EXCEPT ![w] = next]
  <2> DEFINE p == r - 1
             old == control[p].head
  <2>1. /\ DOMAIN control = 1 .. Len(control) /\ Len(control) \in Nat /\ r = Len(control)
    BY <1>1, PositionTypes, OneFacts
  <2>2. r > 1 /\ Stored(w).head = old
    BY <1>1, <1>2, <1>8, EventFacts DEF EventHead, Stored
  <2>3. p \in DOMAIN control /\ p < Len(control)
    BY <2>1, <2>2
  <2>4. control[p].phase \in Ended
    BY <2>3 DEF OneInv, QueueInv
  <2>5. old.run = p
    BY <2>3, <2>4 DEF TruthInv, RowInv, Ended
  <2>6. \A q \in DOMAIN control : q < p => Holds(old.baseline, control[q].head, remote[q])
    BY <2>3, <2>5 DEF EventInv, EventHead
  <2>7. baseline = old.baseline \cup RowsOf(old.batches, Accepted) \cup RowsOf(old.batches, Staged)
    BY <1>2, <2>2
  <2> HIDE DEF baseline
  <2>8. Holds(baseline, old, remote[p])
    <3> SUFFICES ASSUME NEW k \in DOMAIN old.batches, remote[p].batch[k] = "done"
                 PROVE  old.batches[k].rows \subseteq baseline
      BY DEF Holds
    <3>1. Accepted(old.batches[k])
      BY <2>3, <2>4, EndedTaken
    <3>2. old.batches[k].rows \subseteq RowsOf(old.batches, Accepted)
      BY <3>1 DEF RowsOf, Batch
    <3> QED
      BY <2>7, <3>2
  <2>9. \A q \in DOMAIN control : q < r => Holds(baseline, control[q].head, remote[q])
    <3> SUFFICES ASSUME NEW q \in DOMAIN control, q < r PROVE Holds(baseline, control[q].head, remote[q])
      OBVIOUS
    <3>1. q = p \/ q < p
      BY <2>1
    <3>2. CASE q = p
      BY <2>8, <3>2
    <3>3. CASE q < p
      BY <2>6, <2>7, <3>3 DEF Holds
    <3> QED
      BY <3>1, <3>2, <3>3
  <2>10. new.head = compact
    BY <1>2 DEF ControlRows
  <2>11. compact.run = r /\ compact.baseline = baseline /\ DOMAIN compact.batches = {}
    OBVIOUS
  <2>12. next.run = r /\ next.pc = pc /\ next.seen = worker[w].seen
    BY <1>2 DEF Sessions
  <2> HIDE DEF new, next, compact, session, pc
  <2>13. control'[r] = new /\ worker'[w] = next /\ OnlyRun(w)
    BY <1>1, <1>2, <1>8 DEF TypeInv, ControlType, WorkerType, OnlyRun
  <2>14. Apart(new.head) /\ TakenRow(a, r, new, remote[r])
    BY <2>10, <2>11 DEF Apart, TakenRow
  <2>15. EventSession(a, next, remote[r])
    BY <1>4, <1>5, <2>12
  <2>16. new.head.run = r /\ new.head.baseline = baseline
    BY <2>10, <2>11
  <2> HIDE DEF p, old
  <2> QED
    BY <1>1, <2>9, <2>12, <2>13, <2>14, <2>15, <2>16, EventStep
<1> QED
  BY <1>3, <1>6, <1>7, <1>8

(* A worker takes a run that exists, or a new one. *)
LEMMA EventOpen ==
    ASSUME OneWorker, Inv, Inv', EventInv, stream.insertOnly, UNCHANGED <<stream, remote>>, NEW w \in Workers,
           worker'[w].pc = "open", worker'[w].seen = {},
           \A q \in DOMAIN control :
               /\ q \in DOMAIN control'
               /\ control'[q].head = control[q].head /\ control'[q].phase = control[q].phase,
           \A q \in DOMAIN control' \ DOMAIN control :
               TakenRow(stream.asynchronous, q, control'[q], remote[q]) /\ EventHead(q)'
    PROVE  EventInv'
<1>1. DOMAIN control = 1 .. Len(control) /\ Len(control) \in Nat
  BY PositionTypes
<1>2. DOMAIN control' = 1 .. Len(control') /\ Len(control') \in Nat
  <2>1. control' \in Seq(ControlRows)
    BY DEF Inv, TypeInv, ControlType
  <2> QED
    BY <2>1, SequenceDomain
<1>3. ASSUME NEW q \in DOMAIN control PROVE TakenRow(stream.asynchronous, q, control'[q], remote[q])
  BY DEF EventInv, TakenRow
<1>4. ASSUME NEW q \in DOMAIN control PROVE EventHead(q)'
  <2>1. EventHead(q)
    BY DEF EventInv
  <2>2. \A p \in DOMAIN control' : p < q => p \in DOMAIN control
    BY <1>1, <1>2
  <2>3. q > 1 => q - 1 \in DOMAIN control
    BY <1>1
  <2> QED
    BY <2>1, <2>2, <2>3 DEF EventHead
<1>5. \A v \in Workers : worker'[v].pc = "open" /\ worker'[v].seen = {}
  BY DEF OneWorker
<1>6. \A v \in Workers : EventSession(stream.asynchronous, worker'[v], remote[worker'[v].run])
  BY <1>5 DEF EventSession, TrueAnswer, StagedKnown, Passed, Reading
<1> QED
  BY <1>3, <1>4, <1>6 DEF EventInv

(* openRun() of a run that exists, or of a new one with the head of the run before it. *)
LEMMA StartsEvent ==
    ASSUME OneWorker, Inv, Inv', TruthInv, OneInv, EventInv, stream.insertOnly, UNCHANGED stream, NEW w \in Workers,
           StartAttempt(w) \/ StartRecovery(w)
    PROVE  EventInv'
<1>1. UNCHANGED remote /\ control \in Seq(ControlRows) /\ Len(control) \in Nat /\ DOMAIN control = 1 .. Len(control)
  BY PositionTypes DEF StartAttempt, StartRecovery
<1>2. \A q \in DOMAIN control : control[q] \in ControlRows
  BY <1>1
<1>3. \A q, row, rec : Session(q, row, rec).pc = "open" /\ Session(q, row, rec).seen = {}
  BY DEF Session
<1>4. ASSUME NEW r \in DOMAIN control, ReopenRun(w, r) PROVE EventInv'
  <2> DEFINE row == IF control[r].phase = "new" THEN Rebased(control[r]) ELSE control[r]
             session == Session(r, row, control[r].phase # "new")
  <2>1. control' = [control EXCEPT ![r] = row] /\ worker' = [worker EXCEPT ![w] = session]
    BY <1>4 DEF ReopenRun
  <2>2. row.head = control[r].head /\ row.phase = control[r].phase
    BY <1>2 DEF Rebased, ControlRows
  <2> HIDE DEF row
  <2>3. DOMAIN control' = DOMAIN control /\ control'[r] = row /\ \A q \in DOMAIN control \ {r} : control'[q] = control[q]
    BY <1>1, <2>1
  <2>4. worker'[w].pc = "open" /\ worker'[w].seen = {}
    <3> HIDE DEF session
    <3>1. worker'[w] = session
      BY <2>1 DEF Inv, TypeInv, WorkerType
    <3> QED
      BY <1>3, <3>1 DEF session
  <2> QED
    BY <1>1, <2>2, <2>3, <2>4, EventOpen
<1>5. CASE OpenNewRun(w)
  <2> DEFINE r == Len(control) + 1
             head == IF r = 1 THEN NewRow.head ELSE control[r - 1].head
             row == [Rebased(NewRow) EXCEPT !.head = head]
             session == Session(r, row, FALSE)
  <2>1. control' = Append(control, row) /\ worker' = [worker EXCEPT ![w] = session]
    BY <1>5 DEF OpenNewRun
  <2>2. row.head = head
    BY DEF Rebased, NewRow
  <2>3. r = 1 => head.run = r /\ DOMAIN head.batches = {}
    BY DEF NewRow
  <2>4. r # 1 => head = control[r - 1].head /\ r - 1 \in DOMAIN control /\ r > 1
    BY <1>1
  <2>5. r # 1 => head.run <= r - 1
    BY <2>4 DEF TruthInv, RowInv
  <2>6. r # 1 => head.run # r
    <3> SUFFICES ASSUME r # 1, head.run = r PROVE FALSE
      OBVIOUS
    <3> HIDE DEF head
    <3> QED
      BY <1>1, <2>5
  <2> HIDE DEF row, head, session
  <2>7. /\ DOMAIN control' = 1 .. r /\ control'[r] = row
        /\ \A q \in DOMAIN control : q \in DOMAIN control' /\ control'[q] = control[q]
        /\ DOMAIN control' \ DOMAIN control = {r}
    BY <1>1, <2>1
  <2>8. worker'[w].pc = "open" /\ worker'[w].seen = {}
    <3>1. worker'[w] = session
      BY <2>1 DEF Inv, TypeInv, WorkerType
    <3> QED
      BY <1>3, <3>1 DEF session
  <2>9. control'[r].head = head
    BY <2>2, <2>7
  <2>10. ASSUME NEW q \in DOMAIN control' \ DOMAIN control
         PROVE  TakenRow(stream.asynchronous, q, control'[q], remote[q]) /\ EventHead(q)'
    <3>1. q = r
      BY <2>7
    <3>2. CASE r = 1
      <4>1. control'[q].head = head /\ head.run = q /\ DOMAIN head.batches = {}
        BY <2>3, <2>9, <3>1, <3>2
      <4>2. \A p \in DOMAIN control' : ~(p < q)
        BY <2>7, <3>1, <3>2
      <4> QED
        BY <4>1, <4>2 DEF TakenRow, Apart, EventHead
    <3>3. CASE r # 1
      <4>1. control'[q - 1] = control[q - 1] /\ q > 1
        BY <2>4, <2>7, <3>1, <3>3
      <4>2. control'[q].head = control'[q - 1].head /\ control'[q].head.run # q
        BY <2>4, <2>6, <2>9, <3>1, <3>3, <4>1
      <4> QED
        BY <4>1, <4>2 DEF TakenRow, EventHead
    <3> QED
      BY <3>2, <3>3
  <2> QED
    BY <1>1, <2>7, <2>8, <2>10, EventOpen
<1> QED
  BY <1>4, <1>5 DEF StartAttempt, StartRecovery, Attached

(* What a provider does on its own: asynchronous jobs end, and what was staged *)
(* is taken with a pending finish, of a run whose finish was recorded.         *)
LEMMA ProviderSettles ==
    ASSUME Inv, TruthInv, NewSourceRow \/ Provider, NEW q \in Runs, NEW k \in Rows
    PROVE  \/ remote'[q].batch[k] = remote[q].batch[k]
           \/ /\ remote[q].batch[k] = "staged"
              /\ stream.asynchronous \/ (q \in DOMAIN control /\ control[q].phase \in FinishSide)
<1>1. remote \in [Runs -> RemoteRows] /\ remote[q] \in RemoteRows
  BY DEF Inv, TypeInv, RemoteType
<1>2. CASE NewSourceRow
  BY <1>2 DEF NewSourceRow
<1>3. ASSUME NEW r \in Runs, SettleFinish(r)
      PROVE  \/ remote'[q].batch[k] = remote[q].batch[k]
             \/ /\ remote[q].batch[k] = "staged"
                /\ stream.asynchronous \/ (q \in DOMAIN control /\ control[q].phase \in FinishSide)
  <2>1. remote' = [remote EXCEPT ![r] = FinishedSession(remote[r])] /\ remote[r].session = "finishing"
    BY <1>3 DEF SettleFinish
  <2>2. CASE q # r
    BY <1>1, <2>1, <2>2
  <2>3. CASE q = r
    <3>1. remote'[q] = FinishedSession(remote[q]) /\ remote[q].session = "finishing"
      BY <1>1, <2>1, <2>3
    <3>2. FinishedSession(remote[q]).batch[k] = IF remote[q].batch[k] = "staged" THEN "done" ELSE remote[q].batch[k]
      BY <1>1 DEF FinishedSession, RemoteRows
    <3>3. remote[q].finishes > 0
      BY <3>1 DEF TruthInv, ProviderInv, TrueProvider
    <3>4. q \in DOMAIN control /\ control[q].phase \in FinishSide
      BY <3>3 DEF Inv, FinishInv
    <3> QED
      BY <3>1, <3>2, <3>4
  <2> QED
    BY <2>2, <2>3
<1>4. ASSUME NEW r \in Runs, NEW j \in Rows, SettleBatch(r, j)
      PROVE  \/ remote'[q].batch[k] = remote[q].batch[k]
             \/ remote[q].batch[k] = "staged" /\ stream.asynchronous
  <2> DEFINE t(x) == [remote[r] EXCEPT !.batch[j] = x]
  <2>1. PICK x : remote' = [remote EXCEPT ![r] = t(x)]
    BY <1>4 DEF SettleBatch
  <2>2. stream.asynchronous /\ remote[r].batch[j] = "staged"
    BY <1>4 DEF SettleBatch
  <2>3. remote[r] \in RemoteRows
    BY <1>1
  <2>4. k # j => t(x).batch[k] = remote[r].batch[k]
    BY <2>3 DEF RemoteRows
  <2> HIDE DEF t
  <2>5. CASE q # r
    BY <1>1, <2>1, <2>5
  <2>6. CASE q = r /\ k # j
    BY <1>1, <2>1, <2>4, <2>6
  <2>7. CASE q = r /\ k = j
    BY <2>2, <2>7
  <2> QED
    BY <2>5, <2>6, <2>7
<1> QED
  BY <1>2, <1>3, <1>4 DEF Provider

(* What was refused stays refused. *)
LEMMA ProviderRefuses ==
    ASSUME Inv, TruthInv, NewSourceRow \/ Provider, NEW q \in Runs, NEW k \in Rows, remote[q].batch[k] = "refused"
    PROVE  remote'[q].batch[k] = "refused"
<1>1. remote[q].batch[k] # "staged"
  OBVIOUS
<1> QED
  BY <1>1, ProviderSettles

(* The source grows, or the provider settles what is under way: only what an   *)
(* asynchronous job or a recorded finish is about is taken.                    *)
LEMMA EnvironmentEvent ==
    ASSUME Inv, TruthInv, OneInv, AbortInv, EventInv, stream.insertOnly, UNCHANGED stream, NewSourceRow \/ Provider
    PROVE  EventInv'
<1> DEFINE a == stream.asynchronous
<1>1. UNCHANGED <<control, worker>>
  BY DEF NewSourceRow, Provider, SettleFinish, SettleBatch
<1>2. /\ DOMAIN control = 1 .. Len(control) /\ Len(control) \in Nat /\ Len(control) <= MaxRuns /\ MaxRuns \in Nat
      /\ DOMAIN control \subseteq Runs
  <2>1. /\ DOMAIN control = 1 .. Len(control) /\ Len(control) \in Nat /\ Len(control) <= MaxRuns /\ MaxRuns \in Nat
    BY PositionTypes, ConstantsAssumption DEF Inv, TypeInv, ControlType
  <2> QED
    BY <2>1 DEF Runs
<1>3. ASSUME NEW r \in DOMAIN control PROVE TakenRow(a, r, control[r], remote'[r])
  <2> SUFFICES ASSUME control[r].head.run = r, NEW k \in DOMAIN control[r].head.batches
               PROVE  TakenBatch(a, control[r].head.batches[k], control[r].phase, remote'[r].batch[k])
    BY DEF TakenRow
  <2> DEFINE b == control[r].head.batches[k]
  <2>1. TrueBatch(a, b, control[r].phase, remote[r].batch[k], remote[r]) /\ k \in Rows /\ r \in Runs
    BY <1>2 DEF TruthInv, RowInv, TrueRow
  <2>2. TakenBatch(a, b, control[r].phase, remote[r].batch[k])
    BY DEF EventInv, TakenRow
  <2>3. \/ remote'[r].batch[k] = remote[r].batch[k]
        \/ remote[r].batch[k] = "staged" /\ (a \/ control[r].phase \in FinishSide)
    BY <2>1, ProviderSettles
  <2>4. "aborted" \notin FinishSide
    BY DEF FinishSide
  <2> HIDE DEF b
  <2>5. CASE remote'[r].batch[k] = remote[r].batch[k]
    BY <2>2, <2>5 DEF b
  <2>6. CASE remote[r].batch[k] = "staged" /\ (a \/ control[r].phase \in FinishSide)
    <3>1. ~(b.status = "acknowledged" /\ Rejected(b))
      BY <2>2, <2>6 DEF TakenBatch
    <3>2. b.status # "cancelled"
      BY <2>1, <2>2, <2>4, <2>6 DEF TakenBatch, TrueBatch
    <3>3. Staged(b) /\ control[r].phase \in AbortSide => ~a
      BY <2>2 DEF TakenBatch
    <3> QED
      BY <2>6, <3>1, <3>2, <3>3 DEF TakenBatch, b
  <2> QED
    BY <2>3, <2>5, <2>6
<1>4. ASSUME NEW r \in DOMAIN control PROVE EventHead(r)'
  <2>1. EventHead(r)
    BY DEF EventInv
  <2>2. CASE control[r].head.run # r
    BY <1>1, <2>1, <2>2 DEF EventHead
  <2>3. CASE control[r].head.run = r
    <3>1. ASSUME NEW q \in DOMAIN control, q < r PROVE Holds(control[r].head.baseline, control[q].head, remote'[q])
      <4> SUFFICES ASSUME NEW k \in DOMAIN control[q].head.batches, remote'[q].batch[k] = "done"
                   PROVE  remote[q].batch[k] = "done"
        BY <2>1, <2>3, <3>1 DEF EventHead, Holds
      <4>1. control[q].phase \in Ended /\ q \in Runs
        BY <1>2, <3>1 DEF OneInv, QueueInv
      <4>2. /\ k \in Rows
            /\ \/ remote[q].batch[k] = "done"
               \/ control[q].phase = "aborted" /\ (remote[q].batch[k] = "staged" => ~a)
        BY <4>1, EndedTaken
      <4>3. \/ remote'[q].batch[k] = remote[q].batch[k]
            \/ remote[q].batch[k] = "staged" /\ (a \/ control[q].phase \in FinishSide)
        BY <4>1, <4>2, ProviderSettles
      <4>4. "aborted" \notin FinishSide
        BY DEF FinishSide
      <4> QED
        BY <4>2, <4>3, <4>4
    <3> QED
      BY <1>1, <2>1, <2>3, <3>1 DEF EventHead
  <2> QED
    BY <2>2, <2>3
<1>5. ASSUME NEW w \in Workers, Working(w) PROVE EventSession(a, worker[w], remote'[worker[w].run])
  <2> DEFINE r == worker[w].run
             x == worker[w]
  <2>1. EventSession(a, x, remote[r])
    BY <1>5, EventFacts
  <2>2. TrueAnswer(a, x, remote'[r])
    <3> SUFFICES ASSUME x.pc \in {"ack", "ackBatch"}
                 PROVE  /\ x.result = "rejected" => remote'[r].batch[x.k] = "refused"
                        /\ x.result = "staged" /\ ~a => remote'[r].batch[x.k] # "done"
      BY DEF TrueAnswer
    <3>1. TrueSession(a, x, remote[r]) /\ Stored(w) = Known(w) /\ r \in DOMAIN control
      BY <1>5, TruthFacts, OneFacts
    <3>2. x.k \in Rows /\ r \in Runs
      BY <1>2, <3>1 DEF TrueSession, TrueResult, TrueRow
    <3>3. control[r].phase \notin FinishSide
      <4>1. CASE x.pc = "ack"
        <5>1. Stored(w).phase \in Readable
          BY <1>5, <4>1, TruthFacts DEF Reading
        <5> QED
          BY <5>1 DEF Stored, Readable, AbortSide, FinishSide
      <4>2. CASE x.pc = "ackBatch"
        <5>1. x.row.phase \in {"running", "batches_pending"}
          BY <3>1, <4>2 DEF TrueSession
        <5> QED
          BY <3>1, <5>1 DEF Stored, Known, FinishSide
      <4> QED
        BY <4>1, <4>2
    <3>4. /\ x.result = "rejected" => remote[r].batch[x.k] = "refused"
          /\ x.result = "staged" /\ ~a => remote[r].batch[x.k] # "done"
      BY <2>1 DEF EventSession, TrueAnswer
    <3>5. remote[r].batch[x.k] = "refused" => remote'[r].batch[x.k] = "refused"
      BY <3>2, ProviderRefuses
    <3>6. ~a => remote'[r].batch[x.k] = remote[r].batch[x.k]
      BY <3>2, <3>3, ProviderSettles
    <3> QED
      BY <3>4, <3>5, <3>6
  <2> QED
    BY <2>1, <2>2 DEF EventSession
<1>6. \A w \in Workers : Working(w)' => Working(w)
  BY <1>1 DEF Working
<1> QED
  BY <1>1, <1>3, <1>4, <1>5, <1>6 DEF EventInv

(* No step of the one worker, of the provider or of the source disturbs this. *)
LEMMA EventSteps ==
    ASSUME OneWorker, Inv, Inv', TruthInv, OneInv, AbortInv, EventInv, [Next]_vars
    PROVE  EventInv'
<1>1. UNCHANGED stream
  BY DEF Next, vars
<1>2. CASE ~stream.insertOnly
  BY <1>1, <1>2 DEF EventInv
<1>3. CASE stream.insertOnly /\ UNCHANGED vars
  BY <1>3 DEF vars, progress, EventInv, EventHead, Working
<1>4. CASE stream.insertOnly /\ Next
  <2>1. CASE NewSourceRow \/ Provider
    BY <1>1, <1>4, <2>1, EnvironmentEvent
  <2>2. ASSUME NEW w \in Workers, Deliver(w) PROVE EventInv'
    BY <1>1, <1>4, <2>2, OpenJournalEvent, InitPhasesEvent, CallInitEvent, PrepareEvent, CallBatchEvent, CallEndEvent,
       MarkUnknownEvent, AcknowledgeEvent, CheckpointEvent, SealingEvent, FinishReceiptsEvent, DetachEvent,
       AcknowledgeAbortEvent DEF Deliver
  <2>3. ASSUME NEW w \in Workers, Recover(w) PROVE EventInv'
    BY <1>1, <1>4, <2>3, CallInitEvent, RecoveryEvent, AcknowledgeRecoveredEvent DEF Recover
  <2>4. ASSUME NEW w \in Workers, StartAttempt(w) \/ StartRecovery(w) PROVE EventInv'
    BY <1>1, <1>4, <2>4, StartsEvent
  <2>5. ASSUME NEW w \in Workers, Crash(w) \/ Interrupt(w) \/ PublishRefused(w) PROVE EventInv'
    BY <1>1, <1>4, <2>5, FailuresEvent
  <2> QED
    BY <1>4, <2>1, <2>2, <2>3, <2>4, <2>5 DEF Next
<1> QED
  BY <1>2, <1>3, <1>4

(* It holds at first. *)
LEMMA EventInit ==
    ASSUME Init
    PROVE  EventInv
<1>1. \A w \in Workers : ~Working(w)
  BY DEF Init, Idle, Working
<1>2. DOMAIN control = {}
  BY DEF Init
<1> QED
  BY <1>1, <1>2 DEF EventInv

(* With one worker this holds in every reachable state. *)
LEMMA Events == ASSUME OneWorker PROVE Spec => []EventInv
<1>1. Init => EventInv
  BY EventInit
<1>2. Inv /\ Inv' /\ TruthInv /\ OneInv /\ ResumeInv /\ EventInv /\ [Next]_vars => EventInv'
  BY EventSteps DEF ResumeInv
<1> QED
  BY <1>1, <1>2, Invariance, Truth, One, Resume, PTL DEF Spec

(* While the lease admits one worker at a time, the provider takes a conversion *)
(* event at most once over all runs: what a run sends is neither in its        *)
(* baseline (hasEventKey() and ObjectJournal.open(), journal.ts), which has all *)
(* the events earlier runs got accepted, nor in another of its batches,        *)
(* whatever crashes, is refused, dropped, aborted or recovered.                *)
THEOREM EventsTakenOnce == ASSUME OneWorker PROVE Spec => []EventsOnce
<1>1. Inv /\ EventInv => EventsOnce
  <2> SUFFICES ASSUME Inv, EventInv, stream.insertOnly, NEW r \in DOMAIN control, NEW q \in DOMAIN control,
                      NEW k \in Rows, NEW j \in Rows, <<r, k>> # <<q, j>>,
                      control[r].head.run = r, control[q].head.run = q,
                      k \in DOMAIN control[r].head.batches, j \in DOMAIN control[q].head.batches,
                      remote[r].batch[k] = "done", remote[q].batch[j] = "done"
               PROVE  control[r].head.batches[k].rows \cap control[q].head.batches[j].rows = {}
    BY DEF EventsOnce
  <2>1. EventHead(r) /\ EventHead(q)
    BY DEF EventInv
  <2>2. r < q \/ q < r \/ r = q
    BY PositionTypes
  <2>3. CASE r = q
    BY <2>1, <2>3 DEF EventHead, Apart
  <2>4. CASE q < r
    <3>1. control[q].head.batches[j].rows \subseteq control[r].head.baseline
      BY <2>1, <2>4 DEF EventHead, Holds
    <3>2. control[r].head.batches[k].rows \cap control[r].head.baseline = {}
      BY <2>1 DEF EventHead, Apart
    <3> QED
      BY <3>1, <3>2
  <2>5. CASE r < q
    <3>1. control[r].head.batches[k].rows \subseteq control[q].head.baseline
      BY <2>1, <2>5 DEF EventHead, Holds
    <3>2. control[q].head.batches[j].rows \cap control[q].head.baseline = {}
      BY <2>1 DEF EventHead, Apart
    <3> QED
      BY <3>1, <3>2
  <2> QED
    BY <2>2, <2>3, <2>4, <2>5
<1> QED
  BY <1>1, Invariance, Events, PTL
=============================================================================
