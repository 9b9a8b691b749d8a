----------------------- MODULE ReverseDelivery_proofs -----------------------
(***************************************************************************)
(* Theorems about the delivery journal, for any number of workers, runs and  *)
(* rows: nothing here relies on the lease.  What keeps workers that overlap   *)
(* from repeating each other's calls is the compare-and-swap of publish().    *)
(***************************************************************************)
EXTENDS ReverseDelivery, FiniteSetTheorems, TLAPS

-----------------------------------------------------------------------------
(* The inductive invariant *)

Working(w) == worker[w].pc # "idle"

(* The types, the run of a session, and the results a receipt may be made of. *)
SessionShape ==
    \A w \in Workers : Working(w) =>
        /\ worker[w].run \in DOMAIN control
        /\ worker[w].pc \in {"ack", "ackBatch"} => worker[w].result # "pending"

StreamType == stream \in StreamKinds
ControlType == control \in Seq(ControlRows) /\ Len(control) <= MaxRuns
SavedType == saved \in [point : Points, runOrder : 0 .. MaxRuns, checkpointRunOrder : 0 .. MaxRuns]
RemoteRows ==
    [session : {"none", "open", "finishing", "finished", "aborted"},
     batch : [Rows -> {"absent", "staged", "done", "refused"}],
     calls : [Rows -> Nat], finishes : Nat, aborts : 0 .. 1]
RemoteType == remote \in [Runs -> RemoteRows]
WorkerType == worker \in [Workers -> Sessions \cup {Idle}]
TypeInv ==
    /\ StreamType /\ source \in 0 .. MaxRows /\ ControlType /\ SavedType /\ RemoteType
    /\ WorkerType /\ SessionShape

(* Phases of a run that will be finished, and of one that will be cleaned up: *)
(* once a run is on one side it never leaves it.                               *)
FinishSide == {"finish_prepared", "finish_pending", "finish_resolving", "finish_accepted", "complete"}
AbortSide == {"abort_prepared", "aborted"}

(* A session may know an old phase, but not an old side; it only finishes or   *)
(* aborts on the side its row is on.                                           *)
SideInv ==
    \A w \in Workers : Working(w) =>
        /\ worker[w].row.phase \in FinishSide => control[worker[w].run].phase \in FinishSide
        /\ worker[w].row.phase \in AbortSide => control[worker[w].run].phase \in AbortSide
        /\ worker[w].pc \in {"finish", "ackFinish", "resolve", "commit"} => worker[w].row.phase \in FinishSide
        /\ worker[w].pc \in {"abort", "ackAbort"} => worker[w].row.phase \in AbortSide

(* A session is finished by the one worker that recorded it. *)
FinishInv ==
    /\ \A r \in Runs :
         /\ remote[r].finishes > 0 => r \in DOMAIN control /\ control[r].phase \in FinishSide
         /\ remote[r].aborts > 0 => r \in DOMAIN control /\ control[r].phase \in AbortSide
         /\ remote[r].finishes <= 1
    /\ \A w \in Workers : worker[w].pc = "finish" => remote[worker[w].run].finishes = 0
    /\ \A v, w \in Workers :
         worker[v].pc = "finish" /\ worker[w].pc = "finish" /\ worker[v].run = worker[w].run => v = w

(* A worker past the opening has the journal of its run, which stays the run's  *)
(* own once it is.                                                             *)
JournalInv ==
    \A w \in Workers : Working(w) /\ (worker[w].pc # "open" \/ worker[w].row.head.run = worker[w].run)
                           => control[worker[w].run].head.run = worker[w].run

(* A batch is sent by the one worker that prepared it; its number is not used  *)
(* again, as the batches of a run's journal only become more.                  *)
CallInv ==
    /\ \A r \in Runs, k \in Rows :
         /\ remote[r].calls[k] > 0 =>
              r \in DOMAIN control /\ control[r].head.run = r /\ k <= Len(control[r].head.batches)
         /\ remote[r].calls[k] <= 1
    /\ \A w \in Workers : worker[w].pc = "call" =>
         /\ worker[w].k <= Len(control[worker[w].run].head.batches)
         /\ worker[w].k \in Rows => remote[worker[w].run].calls[worker[w].k] = 0
    /\ \A v, w \in Workers :
         worker[v].pc = "call" /\ worker[w].pc = "call"
             /\ worker[v].run = worker[w].run /\ worker[v].k = worker[w].k => v = w

Inv == TypeInv /\ SideInv /\ FinishInv /\ JournalInv /\ CallInv

-----------------------------------------------------------------------------
(* One step of a worker on its run: the control row becomes `new`, the worker  *)
(* `session`, and the provider has `s` of the run.                             *)

KeepsSide(old, new) ==
    /\ old \in FinishSide => new \in FinishSide
    /\ old \in AbortSide => new \in AbortSide

KeepsJournal(r, old, new) ==
    old.run = r => new.run = r /\ Len(old.batches) <= Len(new.batches)

(* What a row may become. *)
GoodRow(w, new) ==
    /\ new \in ControlRows
    /\ KeepsSide(Stored(w).phase, new.phase)
    /\ KeepsJournal(worker[w].run, Stored(w).head, new.head)

(* What a session may become with it. *)
GoodSession(w, new, session) ==
    /\ session \in Sessions
    /\ session.run = worker[w].run /\ session.row \in {new, Known(w)}
    /\ session.pc \in {"ack", "ackBatch"} => session.result # "pending"
    /\ session.pc # "open" => new.head.run = worker[w].run
    /\ session.pc \in {"finish", "ackFinish", "resolve", "commit"} => session.row.phase \in FinishSide
    /\ session.pc \in {"abort", "ackAbort"} => session.row.phase \in AbortSide
    /\ session.pc = "finish" => Stored(w).phase \notin FinishSide
    /\ session.pc = "call" => /\ session.k = Len(Stored(w).head.batches) + 1
                              /\ session.k <= Len(new.head.batches)

(* What it may do to the provider: the calls it is about to make. *)
GoodCall(w, s) ==
    LET old == remote[worker[w].run] IN
    /\ s \in RemoteRows
    /\ s.finishes = old.finishes \/ (worker[w].pc = "finish" /\ s.finishes = old.finishes + 1)
    /\ s.aborts = old.aborts \/ worker[w].pc = "abort"
    /\ s.calls = old.calls \/ (worker[w].pc = "call" /\ s.calls = [old.calls EXCEPT ![worker[w].k] = @ + 1])

(* The state a worker and its session refer to. *)
LEMMA Facts ==
    ASSUME TypeInv, NEW w \in Workers, Working(w)
    PROVE  /\ worker[w] \in Sessions /\ worker[w].run \in DOMAIN control /\ worker[w].run \in Runs
           /\ Stored(w) \in ControlRows /\ Known(w) \in ControlRows
           /\ Stored(w).head \in Heads /\ Known(w).head \in Heads
           /\ Stored(w).head.batches \in Seq(Batches) /\ Known(w).head.batches \in Seq(Batches)
           /\ remote[worker[w].run] \in RemoteRows
<1>1. worker[w] \in Sessions
  BY DEF TypeInv, WorkerType, Working, Idle
<1>2. worker[w].run \in DOMAIN control /\ worker[w].run \in Runs
  BY <1>1 DEF TypeInv, SessionShape, Sessions
<1>3. Stored(w) \in ControlRows
  BY <1>2 DEF TypeInv, ControlType, Stored
<1>4. Known(w) \in ControlRows
  BY <1>1 DEF Sessions, Known
<1>5. remote[worker[w].run] \in RemoteRows
  BY <1>2 DEF TypeInv, RemoteType
<1>6. Stored(w).head \in Heads /\ Known(w).head \in Heads
  BY <1>3, <1>4 DEF ControlRows
<1>7. Stored(w).head.batches \in Seq(Batches) /\ Known(w).head.batches \in Seq(Batches)
  BY <1>6 DEF Heads
<1> QED
  BY <1>1, <1>2, <1>3, <1>4, <1>5, <1>6, <1>7

(* A control table with one row replaced. *)
LEMMA RowReplaced ==
    ASSUME ControlType, NEW r \in DOMAIN control, NEW new \in ControlRows
    PROVE  LET table == [control EXCEPT ![r] = new] IN
           /\ table \in Seq(ControlRows) /\ Len(table) = Len(control) /\ DOMAIN table = DOMAIN control
           /\ table[r] = new /\ \A q \in DOMAIN control \ {r} : table[q] = control[q]
  BY DEF ControlType

(* A worker's step that respects the journal keeps the invariant. *)
LEMMA StepKeeps ==
    ASSUME Inv, NEW w \in Workers, Working(w),
           NEW new, GoodRow(w, new), control' = [control EXCEPT ![worker[w].run] = new],
           NEW session, session = Idle \/ GoodSession(w, new, session),
           worker' = [worker EXCEPT ![w] = session],
           NEW s, GoodCall(w, s), remote' = [remote EXCEPT ![worker[w].run] = s],
           stream' = stream, source' = source, SavedType'
    PROVE  Inv'
<1> DEFINE r == worker[w].run
<1>1. TypeInv /\ SideInv /\ FinishInv /\ JournalInv /\ CallInv
  BY DEF Inv
<1>2. /\ worker[w] \in Sessions /\ r \in DOMAIN control /\ r \in Runs
      /\ Stored(w) \in ControlRows /\ Known(w) \in ControlRows /\ remote[r] \in RemoteRows
  BY <1>1, Facts
<1>3. /\ control' \in Seq(ControlRows) /\ Len(control') = Len(control) /\ DOMAIN control' = DOMAIN control
      /\ control'[r] = new /\ \A q \in DOMAIN control \ {r} : control'[q] = control[q]
  BY <1>1, <1>2, RowReplaced DEF TypeInv, GoodRow
<1>4. /\ worker'[w] = session /\ \A v \in Workers \ {w} : worker'[v] = worker[v]
      /\ session = Idle \/ session \in Sessions
  BY <1>1 DEF TypeInv, WorkerType, GoodSession
<1>5. /\ remote'[r] = s /\ \A q \in Runs \ {r} : remote'[q] = remote[q]
      /\ s \in RemoteRows
  BY <1>1, <1>2 DEF TypeInv, RemoteType, GoodCall
<1>6. session = Idle => session.pc = "idle"
  BY DEF Idle
<1>7. TypeInv'
  <2>1. ControlType'
    BY <1>1, <1>3 DEF TypeInv, ControlType
  <2>2. WorkerType'
    BY <1>1, <1>4 DEF TypeInv, WorkerType
  <2>3. RemoteType'
    BY <1>1, <1>2, <1>5 DEF TypeInv, RemoteType
  <2>4. SessionShape'
    <3> SUFFICES ASSUME NEW v \in Workers, Working(v)'
                 PROVE  /\ worker'[v].run \in DOMAIN control'
                        /\ worker'[v].pc \in {"ack", "ackBatch"} => worker'[v].result # "pending"
      BY DEF SessionShape
    <3>1. CASE v = w
      BY <1>2, <1>3, <1>4, <1>6, <3>1 DEF GoodSession, Working
    <3>2. CASE v # w
      BY <1>1, <1>3, <1>4, <3>2 DEF TypeInv, SessionShape, Working
    <3> QED
      BY <3>1, <3>2
  <2> QED
    BY <1>1, <2>1, <2>2, <2>3, <2>4 DEF TypeInv, StreamType
<1>8. KeepsSide(Stored(w).phase, new.phase)
  BY DEF GoodRow
<1>9. SideInv'
  <2> SUFFICES ASSUME NEW v \in Workers, Working(v)'
               PROVE  /\ worker'[v].row.phase \in FinishSide => control'[worker'[v].run].phase \in FinishSide
                      /\ worker'[v].row.phase \in AbortSide => control'[worker'[v].run].phase \in AbortSide
                      /\ worker'[v].pc \in {"finish", "ackFinish", "resolve", "commit"} => worker'[v].row.phase \in FinishSide
                      /\ worker'[v].pc \in {"abort", "ackAbort"} => worker'[v].row.phase \in AbortSide
    BY DEF SideInv
  <2>1. CASE v = w
    <3>1. GoodSession(w, new, session) /\ worker'[v] = session
      BY <1>4, <1>6, <2>1 DEF Working
    <3>2. /\ Known(w).phase \in FinishSide => Stored(w).phase \in FinishSide
          /\ Known(w).phase \in AbortSide => Stored(w).phase \in AbortSide
      BY <1>1 DEF SideInv, Known, Stored
    <3> QED
      BY <1>3, <1>8, <3>1, <3>2 DEF GoodSession, KeepsSide
  <2>2. CASE v # w
    <3>1. worker'[v] = worker[v] /\ Working(v) /\ worker[v].run \in DOMAIN control
      BY <1>1, <1>4, <2>2 DEF TypeInv, SessionShape, Working
    <3>2. CASE worker[v].run = r
      BY <1>1, <1>3, <1>8, <3>1, <3>2 DEF SideInv, KeepsSide, Stored
    <3>3. CASE worker[v].run # r
      BY <1>1, <1>3, <3>1, <3>3 DEF SideInv
    <3> QED
      BY <3>2, <3>3
  <2> QED
    BY <2>1, <2>2
<1>10. FinishInv'
  <2>1. worker[w].pc = "finish" => Stored(w).phase \in FinishSide /\ remote[r].finishes = 0
    BY <1>1 DEF SideInv, FinishInv, Working, Stored
  <2>2. worker[w].pc = "abort" => Stored(w).phase \in AbortSide
    BY <1>1 DEF SideInv, Working, Stored
  <2>3. ASSUME NEW q \in Runs
        PROVE  /\ remote'[q].finishes > 0 => q \in DOMAIN control' /\ control'[q].phase \in FinishSide
               /\ remote'[q].aborts > 0 => q \in DOMAIN control' /\ control'[q].phase \in AbortSide
               /\ remote'[q].finishes <= 1
    <3>1. CASE q = r
      <4>1. /\ remote[r].finishes > 0 => Stored(w).phase \in FinishSide
            /\ remote[r].aborts > 0 => Stored(w).phase \in AbortSide
            /\ remote[r].finishes <= 1
        BY <1>1, <1>2 DEF FinishInv, Stored
      <4>2. s.finishes = remote[r].finishes \/ (worker[w].pc = "finish" /\ s.finishes = remote[r].finishes + 1)
        BY DEF GoodCall
      <4>3. s.aborts = remote[r].aborts \/ worker[w].pc = "abort"
        BY DEF GoodCall
      <4> QED
        BY <1>2, <1>3, <1>5, <1>8, <2>1, <2>2, <3>1, <4>1, <4>2, <4>3 DEF KeepsSide
    <3>2. CASE q # r
      BY <1>1, <1>3, <1>5, <3>2 DEF FinishInv
    <3> QED
      BY <3>1, <3>2
  <2>4. worker'[w].pc = "finish" => worker[w].pc # "finish" /\ Stored(w).phase \notin FinishSide /\ worker'[w].run = r
    BY <1>4, <1>6, <2>1 DEF GoodSession
  <2>5. ASSUME NEW v \in Workers \ {w}, worker'[v].pc = "finish"
        PROVE  /\ worker[v].pc = "finish" /\ worker'[v].run = worker[v].run
               /\ worker[v].run \in Runs /\ remote[worker[v].run].finishes = 0
               /\ control[worker[v].run].phase \in FinishSide
    <3>1. worker[v].pc = "finish" /\ worker'[v] = worker[v] /\ Working(v)
      BY <1>4, <2>5 DEF Working
    <3> QED
      BY <1>1, <3>1, Facts DEF SideInv, FinishInv
  <2>6. ASSUME NEW v \in Workers, worker'[v].pc = "finish" PROVE remote'[worker'[v].run].finishes = 0
    <3>1. CASE v = w
      <4>1. worker[w].pc # "finish" /\ Stored(w).phase \notin FinishSide /\ worker'[w].run = r
        BY <2>4, <2>6, <3>1
      <4>2. remote[r].finishes = 0
        BY <1>1, <1>2, <4>1 DEF FinishInv, Stored, RemoteRows
      <4> QED
        BY <1>5, <3>1, <4>1, <4>2 DEF GoodCall
    <3>2. CASE v # w
      <4>1. CASE worker[v].run = r
        <5>1. worker[w].pc # "finish"
          BY <1>1, <2>5, <2>6, <3>2, <4>1 DEF FinishInv
        <5> QED
          BY <1>5, <2>5, <2>6, <3>2, <4>1, <5>1 DEF GoodCall
      <4>2. CASE worker[v].run # r
        BY <1>5, <2>5, <2>6, <3>2, <4>2
      <4> QED
        BY <4>1, <4>2
    <3> QED
      BY <3>1, <3>2
  <2>7. ASSUME NEW u \in Workers, NEW v \in Workers, worker'[u].pc = "finish", worker'[v].pc = "finish",
               worker'[u].run = worker'[v].run
        PROVE  u = v
    <3>1. CASE u # w /\ v # w
      BY <1>1, <2>5, <2>7, <3>1 DEF FinishInv
    <3>2. CASE (u = w) # (v = w)
      BY <2>4, <2>5, <2>7, <3>2 DEF Stored
    <3> QED
      BY <3>1, <3>2
  <2> QED
    BY <2>3, <2>6, <2>7 DEF FinishInv
<1>11. KeepsJournal(r, Stored(w).head, new.head) /\ new \in ControlRows
  BY DEF GoodRow
<1>12. JournalInv'
  <2> SUFFICES ASSUME NEW v \in Workers, Working(v)',
                      worker'[v].pc # "open" \/ worker'[v].row.head.run = worker'[v].run
               PROVE  control'[worker'[v].run].head.run = worker'[v].run
    BY DEF JournalInv
  <2>1. CASE v = w
    <3>1. GoodSession(w, new, session) /\ worker'[v] = session
      BY <1>4, <1>6, <2>1 DEF Working
    <3>2. Known(w).head.run = r => Stored(w).head.run = r
      BY <1>1 DEF JournalInv, Known, Stored
    <3> QED
      BY <1>3, <1>11, <3>1, <3>2 DEF GoodSession, KeepsJournal
  <2>2. CASE v # w
    <3>1. worker'[v] = worker[v] /\ Working(v)
      BY <1>4, <2>2 DEF Working
    <3>2. worker[v].run \in DOMAIN control /\ control[worker[v].run].head.run = worker[v].run
      BY <1>1, <3>1 DEF JournalInv, TypeInv, SessionShape
    <3> QED
      BY <1>3, <1>11, <3>1, <3>2 DEF KeepsJournal, Stored
  <2> QED
    BY <2>1, <2>2
<1>13. CallInv'
  <2>1. /\ Stored(w).head.batches \in Seq(Batches)
        /\ remote[r].calls \in [Rows -> Nat] /\ s.calls \in [Rows -> Nat]
    BY <1>1, <1>2, <1>5, Facts DEF RemoteRows
  <2>2. new.head.batches \in Seq(Batches)
    BY <1>11 DEF ControlRows, Heads
  <2>3. Len(Stored(w).head.batches) \in Nat /\ Len(new.head.batches) \in Nat
    BY <2>1, <2>2
  <2>4. worker[w].pc = "call" =>
           /\ Stored(w).head.run = r /\ worker[w].k <= Len(Stored(w).head.batches)
           /\ worker[w].k \in Rows => remote[r].calls[worker[w].k] = 0
    BY <1>1, <1>2 DEF CallInv, JournalInv, Stored
  <2>5. \A k \in Rows : \/ s.calls[k] = remote[r].calls[k]
                        \/ worker[w].pc = "call" /\ k = worker[w].k /\ s.calls[k] = remote[r].calls[k] + 1
    BY <2>1 DEF GoodCall
  <2>6. \A k \in Rows : remote[r].calls[k] > 0 => Stored(w).head.run = r /\ k <= Len(Stored(w).head.batches)
    BY <1>1, <1>2 DEF CallInv, Stored
  <2>7. \A k \in Rows : remote[r].calls[k] <= 1
    BY <1>1, <1>2 DEF CallInv
  <2>8. ASSUME NEW q \in Runs, NEW k \in Rows
        PROVE  /\ remote'[q].calls[k] > 0 =>
                     q \in DOMAIN control' /\ control'[q].head.run = q /\ k <= Len(control'[q].head.batches)
               /\ remote'[q].calls[k] <= 1
    <3>1. CASE q = r
      <4>1. k \in Nat
        BY DEF Rows
      <4>2. s.calls[k] > 0 => Stored(w).head.run = r /\ k <= Len(Stored(w).head.batches)
        BY <2>1, <2>4, <2>5, <2>6, <4>1
      <4>3. s.calls[k] <= 1
        BY <2>1, <2>4, <2>5, <2>7
      <4> QED
        BY <1>2, <1>3, <1>5, <1>11, <2>3, <3>1, <4>1, <4>2, <4>3 DEF KeepsJournal
    <3>2. CASE q # r
      BY <1>1, <1>3, <1>5, <3>2 DEF CallInv
    <3> QED
      BY <3>1, <3>2
  <2>9. worker'[w].pc = "call" =>
           /\ worker'[w].run = r /\ worker'[w].k = Len(Stored(w).head.batches) + 1
           /\ worker'[w].k <= Len(new.head.batches) /\ new.head.run = r
    BY <1>4, <1>6 DEF GoodSession
  <2>10. ASSUME NEW v \in Workers \ {w}, worker'[v].pc = "call"
         PROVE  /\ worker[v].pc = "call" /\ worker'[v] = worker[v] /\ worker[v].run \in Runs
                /\ worker[v].run \in DOMAIN control /\ worker[v].k \in Nat
                /\ worker[v].k <= Len(control[worker[v].run].head.batches)
                /\ worker[v].k \in Rows => remote[worker[v].run].calls[worker[v].k] = 0
                /\ control[worker[v].run].head.run = worker[v].run
    <3>1. worker[v].pc = "call" /\ worker'[v] = worker[v] /\ Working(v)
      BY <1>4, <2>10 DEF Working
    <3>2. worker[v] \in Sessions /\ worker[v].run \in DOMAIN control /\ worker[v].run \in Runs
      BY <1>1, <3>1, Facts
    <3> QED
      BY <1>1, <3>1, <3>2 DEF CallInv, JournalInv, Sessions
  <2>11. ASSUME NEW v \in Workers, worker'[v].pc = "call"
         PROVE  /\ worker'[v].k <= Len(control'[worker'[v].run].head.batches)
                /\ worker'[v].k \in Rows => remote'[worker'[v].run].calls[worker'[v].k] = 0
    <3>1. CASE v = w
      <4>1. /\ worker'[w].run = r /\ worker'[w].k = Len(Stored(w).head.batches) + 1
            /\ worker'[w].k <= Len(new.head.batches)
        BY <2>9, <2>11, <3>1
      <4>2. ASSUME NEW k \in Rows, k = Len(Stored(w).head.batches) + 1 PROVE s.calls[k] = 0
        <5>1. ~(k <= Len(Stored(w).head.batches)) /\ k \in Nat
          BY <2>3, <4>2 DEF Rows
        <5>2. remote[r].calls[k] = 0
          BY <2>1, <2>6, <5>1
        <5>3. ~(worker[w].pc = "call" /\ k = worker[w].k)
          BY <2>4, <5>1
        <5> QED
          BY <2>5, <5>2, <5>3
      <4> QED
        BY <1>3, <1>5, <3>1, <4>1, <4>2
    <3>2. CASE v # w
      <4>1. CASE worker[v].run = r
        <5>1. worker[w].pc = "call" => worker[w].k # worker[v].k
          BY <1>1, <2>10, <2>11, <3>2, <4>1 DEF CallInv
        <5>2. worker[v].k \in Rows => s.calls[worker[v].k] = 0
          BY <2>5, <2>10, <2>11, <3>2, <4>1, <5>1
        <5>3. worker[v].k <= Len(new.head.batches)
          <6>1. /\ worker[v].k \in Nat /\ worker[v].k <= Len(Stored(w).head.batches)
                /\ Stored(w).head.run = r
            BY <2>10, <2>11, <3>2, <4>1 DEF Stored
          <6>2. Len(Stored(w).head.batches) <= Len(new.head.batches)
            BY <1>11, <6>1 DEF KeepsJournal
          <6> QED
            BY <2>3, <6>1, <6>2
        <5> QED
          BY <1>3, <1>5, <2>10, <2>11, <3>2, <4>1, <5>2, <5>3
      <4>2. CASE worker[v].run # r
        BY <1>3, <1>5, <2>10, <2>11, <3>2, <4>2
      <4> QED
        BY <4>1, <4>2
    <3> QED
      BY <3>1, <3>2
  <2>12. ASSUME NEW u \in Workers, NEW v \in Workers, worker'[u].pc = "call", worker'[v].pc = "call",
                worker'[u].run = worker'[v].run, worker'[u].k = worker'[v].k
         PROVE  u = v
    <3>1. CASE u # w /\ v # w
      BY <1>1, <2>10, <2>12, <3>1 DEF CallInv
    <3>2. CASE u = w /\ v # w
      BY <2>3, <2>9, <2>10, <2>12, <3>2 DEF Stored
    <3>3. CASE u # w /\ v = w
      BY <2>3, <2>9, <2>10, <2>12, <3>3 DEF Stored
    <3> QED
      BY <3>1, <3>2, <3>3
  <2> QED
    BY <2>8, <2>11, <2>12 DEF CallInv
<1> QED
  BY <1>7, <1>9, <1>10, <1>12, <1>13 DEF Inv

(* A step that only changes the session. *)
LEMMA LocalStep ==
    ASSUME Inv, NEW w \in Workers, Working(w), UNCHANGED <<stream, source, control, saved, remote>>,
           NEW session, session = Idle \/ GoodSession(w, Stored(w), session),
           worker' = [worker EXCEPT ![w] = session]
    PROVE  Inv'
<1>1. TypeInv
  BY DEF Inv
<1>2. /\ worker[w].run \in DOMAIN control /\ worker[w].run \in Runs
      /\ Stored(w) \in ControlRows /\ remote[worker[w].run] \in RemoteRows
      /\ Stored(w).head.batches \in Seq(Batches)
  BY <1>1, Facts
<1>3. GoodRow(w, Stored(w))
  BY <1>2 DEF GoodRow, KeepsSide, KeepsJournal
<1>4. control' = [control EXCEPT ![worker[w].run] = Stored(w)]
  BY <1>1, <1>2 DEF TypeInv, ControlType, Stored
<1>5. GoodCall(w, remote[worker[w].run]) /\ remote' = [remote EXCEPT ![worker[w].run] = remote[worker[w].run]]
  BY <1>1, <1>2 DEF GoodCall, TypeInv, RemoteType
<1>6. SavedType'
  BY <1>1 DEF TypeInv, SavedType
<1> QED
  BY <1>3, <1>4, <1>5, <1>6, StepKeeps

(* A journal transition. *)
LEMMA PublishStep ==
    ASSUME Inv, NEW w \in Workers, Working(w), UNCHANGED <<stream, source, remote>>, SavedType',
           NEW new, GoodRow(w, new), control' = [control EXCEPT ![worker[w].run] = new],
           NEW session, session = Idle \/ GoodSession(w, new, session),
           worker' = [worker EXCEPT ![w] = session]
    PROVE  Inv'
<1>1. TypeInv
  BY DEF Inv
<1>2. worker[w].run \in Runs /\ remote[worker[w].run] \in RemoteRows
  BY <1>1, Facts
<1>3. GoodCall(w, remote[worker[w].run]) /\ remote' = [remote EXCEPT ![worker[w].run] = remote[worker[w].run]]
  BY <1>1, <1>2 DEF GoodCall, TypeInv, RemoteType
<1> QED
  BY <1>3, StepKeeps

(* A provider call. *)
LEMMA CallStep ==
    ASSUME Inv, NEW w \in Workers, Working(w), UNCHANGED <<stream, source, control, saved>>,
           NEW s, GoodCall(w, s), remote' = [remote EXCEPT ![worker[w].run] = s],
           NEW session, session = Idle \/ GoodSession(w, Stored(w), session),
           worker' = [worker EXCEPT ![w] = session]
    PROVE  Inv'
<1>1. TypeInv
  BY DEF Inv
<1>2. /\ worker[w].run \in DOMAIN control /\ Stored(w) \in ControlRows
      /\ Stored(w).head.batches \in Seq(Batches)
  BY <1>1, Facts
<1>3. GoodRow(w, Stored(w))
  BY <1>2 DEF GoodRow, KeepsSide, KeepsJournal
<1>4. control' = [control EXCEPT ![worker[w].run] = Stored(w)]
  BY <1>1, <1>2 DEF TypeInv, ControlType, Stored
<1>5. SavedType'
  BY <1>1 DEF TypeInv, SavedType
<1> QED
  BY <1>3, <1>4, <1>5, StepKeeps

-----------------------------------------------------------------------------
(* The operators of the journal                                              *)

(* A row whose batches are replaced, number by number. *)
LEMMA BatchesReplaced ==
    ASSUME NEW row \in ControlRows, NEW batches \in Seq(Batches), Len(batches) = Len(row.head.batches)
    PROVE  LET new == [row EXCEPT !.head.batches = batches] IN
           /\ new \in ControlRows /\ new.phase = row.phase /\ new.head \in Heads
           /\ new.head.run = row.head.run /\ Len(new.head.batches) = Len(row.head.batches)
<1> DEFINE head == [row.head EXCEPT !.batches = batches]
           new == [row EXCEPT !.head = head]
<1>1. row.head \in Heads
  BY DEF ControlRows
<1>2. head \in Heads /\ head.run = row.head.run /\ head.batches = batches
  BY <1>1 DEF Heads
<1>3. new \in ControlRows /\ new.phase = row.phase /\ new.head = head
  BY <1>2 DEF ControlRows
<1>4. [row EXCEPT !.head.batches = batches] = new
  BY <1>1
<1> QED
  BY <1>2, <1>3, <1>4

(* One batch replaced. *)
LEMMA BatchReplaced ==
    ASSUME NEW batches \in Seq(Batches), NEW k, NEW b, k \in DOMAIN batches => b \in Batches
    PROVE  [batches EXCEPT ![k] = b] \in Seq(Batches) /\ Len([batches EXCEPT ![k] = b]) = Len(batches)
<1>1. CASE k \in DOMAIN batches
  BY <1>1
<1>2. CASE k \notin DOMAIN batches
  <2>1. [batches EXCEPT ![k] = b] = batches
    BY <1>2
  <2> QED
    BY <2>1
<1> QED
  BY <1>1, <1>2

(* A receipt changes one batch of the head and nothing else. *)
LEMMA ReceiptRow ==
    ASSUME NEW row \in ControlRows, NEW k, NEW out \in {"none", "accepted", "staged", "rejected"}
    PROVE  LET new == WithReceipt(row, k, out) IN
           /\ new \in ControlRows /\ new.phase = row.phase /\ new.head \in Heads
           /\ new.head.run = row.head.run /\ Len(new.head.batches) = Len(row.head.batches)
<1> DEFINE old == row.head.batches
           batch == [old[k] EXCEPT !.status = "acknowledged", !.out = out]
           batches == [old EXCEPT ![k] = batch]
<1>1. old \in Seq(Batches)
  BY DEF ControlRows, Heads
<1>2. k \in DOMAIN old => batch \in Batches
  <2>1. k \in DOMAIN old => old[k] \in Batches
    BY <1>1
  <2> QED
    BY <2>1 DEF Batches
<1>3. batches \in Seq(Batches) /\ Len(batches) = Len(old)
  BY <1>1, <1>2, BatchReplaced
<1>4. WithReceipt(row, k, out) = [row EXCEPT !.head.batches = batches]
  BY DEF WithReceipt
<1> HIDE DEF batches
<1> QED
  BY <1>3, <1>4, BatchesReplaced

(* markUnknown() too. *)
LEMMA UnknownRow ==
    ASSUME NEW row \in ControlRows, NEW k
    PROVE  LET new == [row EXCEPT !.head.batches[k].status = "unknown"] IN
           /\ new \in ControlRows /\ new.phase = row.phase /\ new.head \in Heads
           /\ new.head.run = row.head.run /\ Len(new.head.batches) = Len(row.head.batches)
<1> DEFINE old == row.head.batches
           batch == [old[k] EXCEPT !.status = "unknown"]
           batches == [old EXCEPT ![k] = batch]
<1>1. old \in Seq(Batches)
  BY DEF ControlRows, Heads
<1>2. k \in DOMAIN old => batch \in Batches
  <2>1. k \in DOMAIN old => old[k] \in Batches
    BY <1>1
  <2> QED
    BY <2>1 DEF Batches
<1>3. batches \in Seq(Batches) /\ Len(batches) = Len(old)
  BY <1>1, <1>2, BatchReplaced
<1>4. [row EXCEPT !.head.batches[k].status = "unknown"] = [row EXCEPT !.head.batches = batches]
  OBVIOUS
<1> HIDE DEF batches
<1> QED
  BY <1>3, <1>4, BatchesReplaced

(* The receipt of a cleanup cancels the staged batches. *)
LEMMA CancelledRow ==
    ASSUME NEW row \in ControlRows, NEW batches,
           batches = [k \in DOMAIN row.head.batches |->
                         IF Staged(row.head.batches[k]) THEN [row.head.batches[k] EXCEPT !.status = "cancelled"]
                         ELSE row.head.batches[k]]
    PROVE  LET new == [row EXCEPT !.phase = "aborted", !.head.batches = batches] IN
           /\ new \in ControlRows /\ new.phase = "aborted"
           /\ new.head.run = row.head.run /\ Len(new.head.batches) = Len(row.head.batches)
<1> DEFINE old == row.head.batches
           mid == [row EXCEPT !.head.batches = batches]
<1>1. old \in Seq(Batches)
  BY DEF ControlRows, Heads
<1>2. \A k \in DOMAIN old : old[k] \in Batches
  BY <1>1
<1>3. \A k \in DOMAIN old : batches[k] \in Batches
  BY <1>2 DEF Batches
<1>4. DOMAIN old = 1 .. Len(old) /\ Len(old) \in Nat /\ DOMAIN batches = DOMAIN old
  BY <1>1
<1>5. batches \in Seq(Batches) /\ Len(batches) = Len(old)
  BY <1>3, <1>4
<1>6. mid \in ControlRows /\ mid.head.run = row.head.run /\ Len(mid.head.batches) = Len(old)
  BY <1>5, BatchesReplaced
<1>7. [row EXCEPT !.phase = "aborted", !.head.batches = batches] = [mid EXCEPT !.phase = "aborted"]
  BY DEF ControlRows
<1> HIDE DEF mid
<1> QED
  BY <1>6, <1>7 DEF ControlRows, Phases, Ended

(* A resume point. *)
LEMMA FinalPointType ==
    ASSUME TypeInv, NEW row \in ControlRows, NEW n \in Nat
    PROVE  FinalPoint(row, n) \in Points
<1>1. row.head.batches \in Seq(Batches)
  BY DEF ControlRows, Heads
<1>2. \A b \in Batch(row.head.batches) : b \in Batches
  BY <1>1 DEF Batch
<1>3. saved.point.cursor \in 0 .. MaxRows /\ 0 \in 0 .. MaxRows
  BY ConstantsAssumption DEF TypeInv, SavedType, Points
<1>4. CASE \E b \in Batch(row.head.batches) : b.last = n
  <2>1. (CHOOSE b \in Batch(row.head.batches) : b.last = n) \in Batches
    BY <1>2, <1>4
  <2> QED
    BY <1>4, <2>1 DEF FinalPoint, Points, Batches
<1>5. CASE ~\E b \in Batch(row.head.batches) : b.last = n
  BY <1>3, <1>5 DEF FinalPoint, Points
<1> QED
  BY <1>4, <1>5

(* A merged state. *)
LEMMA MergedType ==
    ASSUME TypeInv, NEW point \in Points, NEW r \in Runs
    PROVE  Merged(point, r) \in [point : Points, runOrder : 0 .. MaxRuns, checkpointRunOrder : 0 .. MaxRuns]
  BY ConstantsAssumption DEF TypeInv, SavedType, Merged, Runs

(* The batch of the next rows. *)
LEMMA NextBatchType ==
    ASSUME TypeInv, NEW w \in Workers, Working(w), NEW to \in Unread(w)
    PROVE  /\ NextBatch(w, to) \in Batches
           /\ Cardinality(NextBatch(w, to).rows) \in Nat /\ to \in 0 .. MaxRows
           /\ NextBatch(w, to).last \in Nat /\ NextBatch(w, to).cursor \in 0 .. MaxRows
<1> DEFINE rows == {i \in Unread(w) : i <= to}
<1>1. worker[w] \in Sessions
  BY Facts
<1>2. /\ worker[w].read \in Nat /\ source \in 0 .. MaxRows /\ MaxRows \in Nat
      /\ worker[w].point.seq \in Nat
  BY <1>1, ConstantsAssumption DEF TypeInv, Sessions, Points
<1>3. rows \subseteq 1 .. MaxRows /\ to \in 1 .. MaxRows
  BY <1>2 DEF Unread
<1>4. IsFiniteSet(rows)
  BY <1>2, <1>3, FS_Interval, FS_Subset
<1>5. Cardinality(rows) \in Nat
  BY <1>4, FS_CardinalityType
<1> QED
  BY <1>2, <1>3, <1>5 DEF NextBatch, Batches, Rows

(* A worker past the opening reads and writes the journal of its own run. *)
LEMMA OwnJournal ==
    ASSUME Inv, NEW w \in Workers, worker[w].pc \notin {"idle", "open"}
    PROVE  Working(w) /\ Stored(w).head.run = worker[w].run
  BY DEF Inv, JournalInv, Working, Stored

(* A transition that leaves the head alone. *)
LEMMA SameHead ==
    ASSUME Inv, NEW w \in Workers, Working(w), NEW new \in ControlRows, new.head = Stored(w).head,
           KeepsSide(Stored(w).phase, new.phase)
    PROVE  GoodRow(w, new)
<1>1. Stored(w).head.batches \in Seq(Batches)
  BY Facts DEF Inv
<1> QED
  BY <1>1 DEF GoodRow, KeepsJournal

(* A session that goes on at another step with the row it knows. *)
LEMMA GoesOn ==
    ASSUME Inv, NEW w \in Workers, worker[w].pc \notin {"idle", "open"},
           NEW session \in Sessions, session.run = worker[w].run, session.row = Known(w),
           session.pc \notin {"open", "finish", "call"},
           session.pc \in {"ack", "ackBatch"} => session.result # "pending",
           session.pc \in {"ackFinish", "resolve", "commit"} => Known(w).phase \in FinishSide,
           session.pc \in {"abort", "ackAbort"} => Known(w).phase \in AbortSide
    PROVE  GoodSession(w, Stored(w), session)
  BY OwnJournal DEF GoodSession

(* A session goes on with the row it has just published. *)
LEMMA GoesOnWith ==
    ASSUME Inv, NEW w \in Workers, worker[w].pc \notin {"idle", "open"},
           NEW new, GoodRow(w, new),
           NEW session \in Sessions, session.run = worker[w].run, session.row = new,
           session.pc \notin {"open", "finish", "call"},
           session.pc \in {"ack", "ackBatch"} => session.result # "pending",
           session.pc \in {"ackFinish", "resolve", "commit"} => new.phase \in FinishSide,
           session.pc \in {"abort", "ackAbort"} => new.phase \in AbortSide
    PROVE  GoodSession(w, new, session)
  BY OwnJournal DEF GoodSession, GoodRow, KeepsJournal

(* What the catch block does next. *)
LEMMA CleanupGood ==
    ASSUME Inv, NEW w \in Workers, worker[w].pc \notin {"idle", "open"}, NEW staged
    PROVE  Cleanup(w, staged) = Idle \/ GoodSession(w, Stored(w), Cleanup(w, staged))
<1>1. worker[w] \in Sessions
  BY OwnJournal, Facts DEF Inv
<1> DEFINE session == [worker[w] EXCEPT !.pc = "cleanup"]
<1>2. session \in Sessions /\ session.run = worker[w].run /\ session.row = Known(w) /\ session.pc = "cleanup"
  BY <1>1 DEF Sessions, Known
<1>3. GoodSession(w, Stored(w), session)
  BY <1>2, GoesOn
<1> QED
  BY <1>3 DEF Cleanup

-----------------------------------------------------------------------------
(* Every action keeps the invariant                                          *)

(* Steps that end the session and change nothing else. *)
LEMMA StopKeeps ==
    ASSUME Inv, NEW w \in Workers, Working(w), UNCHANGED <<stream, source, control, saved, remote>>, Stop(w)
    PROVE  Inv'
  BY LocalStep DEF Stop

(* A crash, an interruption and a refused publish end the session or clean up. *)
LEMMA FailuresKeep ==
    ASSUME Inv, NEW w \in Workers, Crash(w) \/ Interrupt(w) \/ PublishRefused(w), UNCHANGED stream
    PROVE  Inv'
<1>1. CASE Crash(w)
  BY <1>1, StopKeeps DEF Crash, Working
<1>2. CASE Interrupt(w)
  <2>1. Cleanup(w, worker[w].staged) = Idle \/ GoodSession(w, Stored(w), Cleanup(w, worker[w].staged))
    BY <1>2, CleanupGood DEF Interrupt
  <2> QED
    BY <1>2, <2>1, LocalStep DEF Interrupt, Working
<1>3. CASE PublishRefused(w)
  BY <1>3, StopKeeps DEF PublishRefused, Working
<1> QED
  BY <1>1, <1>2, <1>3

(* assertReady() reads the saved state. *)
LEMMA AssertReadyKeeps ==
    ASSUME Inv, NEW w \in Workers, AssertReady(w), UNCHANGED stream
    PROVE  Inv'
<1> DEFINE session == [worker[w] EXCEPT !.pc = "start",
                                        !.point = IF stream.cursor THEN saved.point ELSE NoPoint,
                                        !.read = IF stream.cursor THEN saved.point.cursor ELSE 0]
<1>1. worker[w].pc = "ready"
  BY DEF AssertReady
<1>2. Working(w) /\ TypeInv /\ worker[w] \in Sessions
  BY <1>1, Facts DEF Inv, Working
<1>3. saved.point \in Points /\ saved.point.cursor \in 0 .. MaxRows /\ NoPoint \in Points /\ 0 \in 0 .. MaxRows
  BY <1>2, ConstantsAssumption DEF TypeInv, SavedType, Points, NoPoint
<1>4. session \in Sessions /\ session.run = worker[w].run /\ session.row = Known(w) /\ session.pc = "start"
  BY <1>2, <1>3 DEF Sessions, Known
<1>5. GoodSession(w, Stored(w), session)
  BY <1>1, <1>4, GoesOn
<1>6. worker' = [worker EXCEPT ![w] = session]
  BY <1>2 DEF AssertReady, TypeInv, WorkerType
<1> QED
  BY <1>2, <1>5, <1>6, LocalStep DEF AssertReady

(* A publish that changes only the phase (and counters) of the row, after which *)
(* the session goes on with it.                                                *)
LEMMA PhaseStep ==
    ASSUME Inv, NEW w \in Workers, worker[w].pc \notin {"idle", "open"},
           NEW new \in ControlRows, new.head = Stored(w).head, KeepsSide(Stored(w).phase, new.phase),
           NEW session \in Sessions, session.run = worker[w].run, Publish(w, new, session),
           session.pc \notin {"open", "call", "ack", "ackBatch"},
           session.pc = "finish" => Stored(w).phase \notin FinishSide,
           session.pc \in {"finish", "ackFinish", "resolve", "commit"} => new.phase \in FinishSide,
           session.pc \in {"abort", "ackAbort"} => new.phase \in AbortSide,
           UNCHANGED <<stream, source, remote>>, SavedType'
    PROVE  Inv'
<1> DEFINE next == [session EXCEPT !.row = new]
<1>1. Working(w) /\ Stored(w).head.run = worker[w].run
  BY OwnJournal
<1>2. GoodRow(w, new)
  BY <1>1, SameHead
<1>3. /\ next \in Sessions /\ next.run = worker[w].run /\ next.row = new /\ next.pc = session.pc
  BY DEF Sessions
<1>4. GoodSession(w, new, next)
  BY <1>1, <1>3 DEF GoodSession
<1> QED
  BY <1>1, <1>2, <1>4, PublishStep DEF Publish

(* prepareInit() and the receipt of the initialization. *)
LEMMA InitPhasesKeep ==
    ASSUME Inv, NEW w \in Workers, PrepareInit(w) \/ AcknowledgeInit(w), UNCHANGED stream
    PROVE  Inv'
<1>1. worker[w].pc \in {"start", "ackInit"}
  BY DEF PrepareInit, AcknowledgeInit
<1>2. TypeInv /\ Working(w) /\ worker[w] \in Sessions /\ Stored(w) \in ControlRows
  BY <1>1, Facts DEF Inv, Working
<1>3. SavedType'
  BY <1>2 DEF TypeInv, SavedType, PrepareInit, AcknowledgeInit
<1>4. CASE PrepareInit(w)
  <2> DEFINE new == [Stored(w) EXCEPT !.phase = "init_prepared"]
             session == [worker[w] EXCEPT !.pc = "init"]
  <2>1. Stored(w).phase = "new"
    BY <1>4 DEF PrepareInit, Publishable, Stored
  <2>2. new \in ControlRows /\ new.head = Stored(w).head /\ KeepsSide(Stored(w).phase, new.phase)
    BY <1>2, <2>1 DEF ControlRows, Phases, KeepsSide, FinishSide, AbortSide
  <2>3. session \in Sessions /\ session.run = worker[w].run /\ session.pc = "init"
    BY <1>2 DEF Sessions
  <2> QED
    BY <1>1, <1>3, <1>4, <2>2, <2>3, PhaseStep DEF PrepareInit
<1>5. CASE AcknowledgeInit(w)
  <2> DEFINE new == [Stored(w) EXCEPT !.phase = "running"]
             session == [worker[w] EXCEPT !.pc = "read"]
  <2>1. Stored(w).phase = "init_prepared"
    BY <1>5 DEF AcknowledgeInit, Publishable, Stored
  <2>2. new \in ControlRows /\ new.head = Stored(w).head /\ KeepsSide(Stored(w).phase, new.phase)
    BY <1>2, <2>1 DEF ControlRows, Phases, KeepsSide, FinishSide, AbortSide
  <2>3. session \in Sessions /\ session.run = worker[w].run /\ session.pc = "read"
    BY <1>2 DEF Sessions
  <2> QED
    BY <1>1, <1>3, <1>5, <2>2, <2>3, PhaseStep DEF AcknowledgeInit
<1> QED
  BY <1>4, <1>5

(* createWriter() and writer.init() touch neither counter of the provider. *)
LEMMA CallInitKeeps ==
    ASSUME Inv, NEW w \in Workers, CallInit(w), UNCHANGED stream
    PROVE  Inv'
<1>1. worker[w].pc = "init"
  BY DEF CallInit
<1>2. TypeInv /\ Working(w) /\ worker[w] \in Sessions /\ remote[worker[w].run] \in RemoteRows
  BY <1>1, Facts DEF Inv, Working
<1> DEFINE s(x) == [remote[worker[w].run] EXCEPT !.session = x]
           session == [worker[w] EXCEPT !.pc = "ackInit"]
<1>3. \A x \in {"none", "open"} : GoodCall(w, s(x))
  BY <1>2 DEF GoodCall, RemoteRows
<1>4. PICK x \in {"none", "open"} : remote' = [remote EXCEPT ![worker[w].run] = s(x)]
  BY DEF CallInit
<1>5. session \in Sessions /\ session.run = worker[w].run /\ session.row = Known(w) /\ session.pc = "ackInit"
  BY <1>2 DEF Sessions, Known
<1>6. GoodSession(w, Stored(w), session)
  BY <1>1, <1>5, GoesOn
<1>7. \/ worker' = [worker EXCEPT ![w] = session]
      \/ worker' = [worker EXCEPT ![w] = Idle]
  BY DEF CallInit, Goto, Stop
<1> QED
  BY <1>2, <1>3, <1>4, <1>6, <1>7, CallStep DEF CallInit

(* prepare(): the one step that appends a batch, with a number no call was made for. *)
LEMMA PrepareKeeps ==
    ASSUME Inv, NEW w \in Workers, Prepare(w), UNCHANGED stream
    PROVE  Inv'
<1>1. worker[w].pc = "read"
  BY DEF Prepare
<1>2. /\ TypeInv /\ Working(w) /\ worker[w] \in Sessions /\ Stored(w) \in ControlRows
      /\ Stored(w).head \in Heads /\ Stored(w).head.batches \in Seq(Batches)
  BY <1>1, Facts DEF Inv, Working
<1>3. Stored(w).head.run = worker[w].run
  BY <1>1, OwnJournal
<1>4. SavedType'
  BY <1>2 DEF TypeInv, SavedType, Prepare
<1>5. CASE worker' = [worker EXCEPT ![w] = Cleanup(w, worker[w].staged)] /\ UNCHANGED control
  <2>1. Cleanup(w, worker[w].staged) = Idle \/ GoodSession(w, Stored(w), Cleanup(w, worker[w].staged))
    BY <1>1, CleanupGood
  <2> QED
    BY <1>2, <1>5, <2>1, LocalStep DEF Prepare
<1> DEFINE b(to) == NextBatch(w, to)
           n(to) == Cardinality(b(to).rows)
           batches(to) == Append(Stored(w).head.batches, b(to))
           new(to) == [Stored(w) EXCEPT !.head.batches = batches(to), !.next = b(to).last]
           next(to) == [worker[w] EXCEPT !.pc = "call", !.read = to, !.k = Len(batches(to)),
                                         !.point = [seq |-> b(to).last, cursor |-> b(to).cursor],
                                         !.since = @ + n(to)]
<1>6. ASSUME NEW to \in Unread(w), Publish(w, new(to), next(to))
      PROVE  Inv'
  <2>1. /\ b(to) \in Batches /\ n(to) \in Nat /\ to \in 0 .. MaxRows
        /\ b(to).last \in Nat /\ b(to).cursor \in 0 .. MaxRows
    BY <1>2, NextBatchType
  <2>2. batches(to) \in Seq(Batches) /\ Len(batches(to)) = Len(Stored(w).head.batches) + 1
    BY <1>2, <2>1
  <2>3. Len(Stored(w).head.batches) \in Nat
    BY <1>2
  <2> DEFINE head == [Stored(w).head EXCEPT !.batches = batches(to)]
             row == [Stored(w) EXCEPT !.head = head, !.next = b(to).last]
  <2>4. head \in Heads /\ head.run = worker[w].run /\ head.batches = batches(to)
    BY <1>2, <1>3, <2>2 DEF Heads
  <2>5. row \in ControlRows /\ row.head = head /\ row.phase = Stored(w).phase
    BY <1>2, <2>1, <2>4 DEF ControlRows
  <2>6. new(to) = row
    BY <1>2
  <2>7. GoodRow(w, row)
    <3> HIDE DEF row, head, batches
    <3> QED
      BY <2>2, <2>3, <2>4, <2>5 DEF GoodRow, KeepsSide, KeepsJournal
  <2> DEFINE session == [next(to) EXCEPT !.row = row]
  <2>8. next(to).since \in Nat /\ next(to).point \in Points /\ next(to).k \in Nat
    BY <1>2, <2>1, <2>2, <2>3, SMTT(30) DEF Sessions, Points
  <2>9. /\ session \in Sessions /\ session.run = worker[w].run /\ session.row = row /\ session.pc = "call"
        /\ session.k = Len(batches(to))
    BY <1>2, <2>1, <2>5, <2>8 DEF Sessions
  <2>10. GoodSession(w, row, session)
    <3> HIDE DEF row, head, batches, session
    <3> QED
      BY <2>2, <2>3, <2>4, <2>5, <2>9 DEF GoodSession
  <2>11. control' = [control EXCEPT ![worker[w].run] = row] /\ worker' = [worker EXCEPT ![w] = session]
    BY <1>6, <2>6 DEF Publish
  <2> HIDE DEF row, session
  <2> QED
    BY <1>2, <1>4, <2>7, <2>10, <2>11, PublishStep DEF Prepare
<1> QED
  BY <1>5, <1>6 DEF Prepare

(* writer.upsert() or writer.remove(): the call the worker prepared. *)
LEMMA CallBatchKeeps ==
    ASSUME Inv, NEW w \in Workers, CallBatch(w), UNCHANGED stream
    PROVE  Inv'
<1> DEFINE r == worker[w].run
           k == worker[w].k
           s(state) == [remote[r] EXCEPT !.batch[k] = state, !.calls[k] = @ + 1]
<1>1. worker[w].pc = "call"
  BY DEF CallBatch
<1>2. TypeInv /\ Working(w) /\ worker[w] \in Sessions /\ remote[r] \in RemoteRows /\ r \in Runs
  BY <1>1, Facts DEF Inv, Working
<1>3. ASSUME NEW state \in {"absent", "staged", "done", "refused"}
      PROVE  GoodCall(w, s(state))
  <2>1. [remote[r].batch EXCEPT ![k] = state] \in [Rows -> {"absent", "staged", "done", "refused"}]
    BY <1>2 DEF RemoteRows
  <2>2. [remote[r].calls EXCEPT ![k] = @ + 1] \in [Rows -> Nat]
    <3>1. remote[r].calls \in [Rows -> Nat]
      BY <1>2 DEF RemoteRows
    <3>2. k \in Rows => remote[r].calls[k] + 1 \in Nat
      BY <3>1
    <3> QED
      BY <3>1, <3>2
  <2>3. s(state) = [remote[r] EXCEPT !.batch = [remote[r].batch EXCEPT ![k] = state],
                                     !.calls = [remote[r].calls EXCEPT ![k] = @ + 1]]
    BY <1>2 DEF RemoteRows
  <2>4. /\ s(state) \in RemoteRows /\ s(state).calls = [remote[r].calls EXCEPT ![k] = @ + 1]
        /\ s(state).finishes = remote[r].finishes /\ s(state).aborts = remote[r].aborts
    BY <1>2, <2>1, <2>2, <2>3 DEF RemoteRows
  <2> QED
    BY <1>1, <2>4 DEF GoodCall
<1>4. ASSUME NEW state, remote' = [remote EXCEPT ![r].batch[k] = state, ![r].calls[k] = @ + 1]
      PROVE  remote' = [remote EXCEPT ![r] = s(state)]
  BY <1>2, <1>4 DEF TypeInv, RemoteType, RemoteRows
<1>5. \A a \in Answers : /\ a[1] \in {"absent", "staged", "done", "refused"}
                         /\ a[2] \in {"accepted", "staged", "rejected"}
  BY DEF Answers
<1>6. ASSUME NEW a \in Answers, worker' = [worker EXCEPT ![w].pc = "ack", ![w].result = a[2]],
             remote' = [remote EXCEPT ![r].batch[k] = a[1], ![r].calls[k] = @ + 1]
      PROVE  Inv'
  <2> DEFINE session == [worker[w] EXCEPT !.pc = "ack", !.result = a[2]]
  <2>1. /\ session \in Sessions /\ session.run = r /\ session.row = Known(w) /\ session.pc = "ack"
        /\ session.result # "pending"
    BY <1>2, <1>5 DEF Sessions, Known
  <2>2. GoodSession(w, Stored(w), session)
    BY <1>1, <2>1, GoesOn
  <2>3. worker' = [worker EXCEPT ![w] = session]
    BY <1>2, <1>6 DEF TypeInv, WorkerType
  <2>4. GoodCall(w, s(a[1])) /\ remote' = [remote EXCEPT ![r] = s(a[1])]
    BY <1>3, <1>4, <1>5, <1>6
  <2> HIDE DEF s, session
  <2> QED
    BY <1>2, <2>2, <2>3, <2>4, CallStep DEF CallBatch
<1>7. ASSUME NEW state \in {"absent", "staged", "done", "refused"}, Goto(w, "mark"),
             remote' = [remote EXCEPT ![r].batch[k] = state, ![r].calls[k] = @ + 1]
      PROVE  Inv'
  <2> DEFINE session == [worker[w] EXCEPT !.pc = "mark"]
  <2>1. session \in Sessions /\ session.run = r /\ session.row = Known(w) /\ session.pc = "mark"
    BY <1>2 DEF Sessions, Known
  <2>2. GoodSession(w, Stored(w), session) /\ worker' = [worker EXCEPT ![w] = session]
    BY <1>1, <1>7, <2>1, GoesOn DEF Goto
  <2>3. GoodCall(w, s(state)) /\ remote' = [remote EXCEPT ![r] = s(state)]
    BY <1>3, <1>4, <1>7
  <2> HIDE DEF s, session
  <2> QED
    BY <1>2, <2>2, <2>3, CallStep DEF CallBatch
<1>8. \/ \E a \in Answers : /\ remote' = [remote EXCEPT ![r].batch[k] = a[1], ![r].calls[k] = @ + 1]
                            /\ worker' = [worker EXCEPT ![w].pc = "ack", ![w].result = a[2]]
      \/ \E a \in Answers \cup {<<"absent", "none">>} :
            Goto(w, "mark") /\ remote' = [remote EXCEPT ![r].batch[k] = a[1], ![r].calls[k] = @ + 1]
  BY DEF CallBatch
<1>9. \A a \in Answers \cup {<<"absent", "none">>} : a[1] \in {"absent", "staged", "done", "refused"}
  BY <1>5
<1>10. CASE \E a \in Answers : /\ remote' = [remote EXCEPT ![r].batch[k] = a[1], ![r].calls[k] = @ + 1]
                              /\ worker' = [worker EXCEPT ![w].pc = "ack", ![w].result = a[2]]
  BY <1>6, <1>10
<1>11. CASE \E a \in Answers \cup {<<"absent", "none">>} :
               Goto(w, "mark") /\ remote' = [remote EXCEPT ![r].batch[k] = a[1], ![r].calls[k] = @ + 1]
  <2>1. PICK state \in {"absent", "staged", "done", "refused"} :
               Goto(w, "mark") /\ remote' = [remote EXCEPT ![r].batch[k] = state, ![r].calls[k] = @ + 1]
    BY <1>9, <1>11
  <2> QED
    BY <1>7, <2>1
<1> QED
  BY <1>8, <1>10, <1>11

(* The receipts of a batch, or the mark that there is none. *)
LEMMA ReceiptsKeep ==
    ASSUME Inv, NEW w \in Workers, MarkUnknown(w) \/ Acknowledge(w) \/ AcknowledgeRecovered(w),
           UNCHANGED stream
    PROVE  Inv'
<1>1. worker[w].pc \in {"mark", "ack", "ackBatch"}
  BY DEF MarkUnknown, Acknowledge, AcknowledgeRecovered
<1>2. /\ TypeInv /\ Working(w) /\ worker[w] \in Sessions /\ worker[w].run \in DOMAIN control
      /\ Stored(w) \in ControlRows /\ Stored(w).head.batches \in Seq(Batches)
  BY <1>1, Facts DEF Inv, Working
<1>3. SavedType'
  BY <1>2 DEF TypeInv, SavedType, MarkUnknown, Acknowledge, AcknowledgeRecovered
<1> DEFINE k == worker[w].k
           out == worker[w].result
           new == WithReceipt(Stored(w), k, out)
<1>4. worker[w].pc # "mark" => GoodRow(w, new) /\ new \in ControlRows /\ new.phase = Stored(w).phase
  <2>1. worker[w].pc # "mark" => out \in {"none", "accepted", "staged", "rejected"}
    BY <1>1, <1>2 DEF Sessions, TypeInv, SessionShape
  <2> HIDE DEF out
  <2>2. worker[w].pc # "mark" =>
          /\ new \in ControlRows /\ new.phase = Stored(w).phase
          /\ new.head.run = Stored(w).head.run /\ Len(new.head.batches) = Len(Stored(w).head.batches)
    BY <1>2, <2>1, ReceiptRow
  <2> HIDE DEF new
  <2> QED
    BY <1>2, <2>2 DEF GoodRow, KeepsSide, KeepsJournal
<1>5. ASSUME Stop(w), UNCHANGED <<source, control, saved, remote>>
      PROVE  Inv'
  BY <1>2, <1>5, StopKeeps
<1>6. CASE MarkUnknown(w)
  <2> DEFINE row == [Stored(w) EXCEPT !.head.batches[k].status = "unknown"]
  <2>1. CASE UNCHANGED control
    BY <1>5, <1>6, <2>1 DEF MarkUnknown
  <2>2. CASE control' = [control EXCEPT ![worker[w].run].head.batches[k].status = "unknown"]
    <3>1. control' = [control EXCEPT ![worker[w].run] = row]
      BY <2>2 DEF Stored
    <3>2. /\ row \in ControlRows /\ row.phase = Stored(w).phase
          /\ row.head.run = Stored(w).head.run /\ Len(row.head.batches) = Len(Stored(w).head.batches)
      BY <1>2, UnknownRow
    <3> HIDE DEF row
    <3>3. GoodRow(w, row)
      BY <1>2, <3>2 DEF GoodRow, KeepsSide, KeepsJournal
    <3> QED
      BY <1>2, <1>3, <1>6, <3>1, <3>3, PublishStep DEF MarkUnknown, Stop
  <2> QED
    BY <1>6, <2>1, <2>2 DEF MarkUnknown
<1>7. CASE Acknowledge(w)
  <2>1. CASE Stop(w) /\ UNCHANGED control
    BY <1>5, <1>7, <2>1 DEF Acknowledge
  <2> DEFINE staged == worker[w].staged \/ out = "staged"
             due == worker[w].since >= CheckpointEvery
             pc == IF due /\ stream.cursor /\ ~staged THEN "checkpoint" ELSE "read"
             clean == [worker[w] EXCEPT !.pc = "cleanup", !.row = new]
             on == [worker[w] EXCEPT !.pc = pc, !.row = new, !.staged = staged,
                                     !.since = IF due /\ pc = "read" THEN 0 ELSE @]
  <2>2. CASE /\ control' = [control EXCEPT ![worker[w].run] = new]
             /\ worker' = [worker EXCEPT ![w] =
                   IF out = "rejected"
                   THEN IF stream.asynchronous /\ worker[w].staged THEN Idle ELSE clean
                   ELSE on]
    <3>1. worker[w].pc = "ack" /\ UNCHANGED <<source, saved, remote>>
      BY <1>7 DEF Acknowledge
    <3>2. GoodRow(w, new) /\ new \in ControlRows
      BY <1>4, <3>1
    <3> HIDE DEF new
    <3>3. clean \in Sessions /\ clean.run = worker[w].run /\ clean.row = new /\ clean.pc = "cleanup"
      BY <1>2, <3>2 DEF Sessions
    <3>4. GoodSession(w, new, clean)
      BY <3>1, <3>2, <3>3, GoesOnWith
    <3>5. pc \in {"checkpoint", "read"} /\ staged \in BOOLEAN
      BY <1>2 DEF Sessions
    <3> HIDE DEF pc, staged
    <3>6. on \in Sessions /\ on.run = worker[w].run /\ on.row = new /\ on.pc = pc
      BY <1>2, <3>2, <3>5 DEF Sessions
    <3>7. GoodSession(w, new, on)
      BY <3>1, <3>2, <3>5, <3>6, GoesOnWith
    <3> DEFINE session == IF out = "rejected"
                          THEN IF stream.asynchronous /\ worker[w].staged THEN Idle ELSE clean
                          ELSE on
    <3>8. session = Idle \/ GoodSession(w, new, session)
      BY <3>4, <3>7
    <3>9. worker' = [worker EXCEPT ![w] = session]
      BY <2>2
    <3> HIDE DEF session
    <3> QED
      BY <1>2, <1>3, <2>2, <3>1, <3>2, <3>8, <3>9, PublishStep
  <2> QED
    BY <1>7, <2>1, <2>2 DEF Acknowledge
<1>8. CASE AcknowledgeRecovered(w)
  <2> DEFINE session == [worker[w] EXCEPT !.pc = "recover", !.pending = @ \/ out = "staged"]
  <2>1. worker[w].pc = "ackBatch" /\ UNCHANGED <<source, saved, remote>>
    BY <1>8 DEF AcknowledgeRecovered
  <2>2. session \in Sessions /\ session.run = worker[w].run /\ session.row = Known(w) /\ session.pc = "recover"
    BY <1>2 DEF Sessions, Known
  <2>3. CASE worker' = [worker EXCEPT ![w] = session] /\ UNCHANGED control
    <3>1. GoodSession(w, Stored(w), session)
      BY <2>1, <2>2, GoesOn
    <3> HIDE DEF session
    <3> QED
      BY <1>2, <2>1, <2>3, <3>1, LocalStep
  <2>4. CASE /\ control' = [control EXCEPT ![worker[w].run] = new]
             /\ worker' = [worker EXCEPT ![w] = IF out = "rejected" THEN Idle ELSE [session EXCEPT !.row = new]]
    <3>1. GoodRow(w, new) /\ new \in ControlRows
      BY <1>4, <2>1
    <3> HIDE DEF session, new
    <3> DEFINE next == [session EXCEPT !.row = new]
    <3>2. next \in Sessions /\ next.run = worker[w].run /\ next.row = new /\ next.pc = "recover"
      BY <2>2, <3>1 DEF Sessions
    <3>3. GoodSession(w, new, next)
      BY <2>1, <3>1, <3>2, GoesOnWith
    <3> QED
      BY <1>2, <1>3, <2>1, <2>4, <3>1, <3>3, PublishStep
  <2> QED
    BY <1>8, <2>3, <2>4 DEF AcknowledgeRecovered
<1> QED
  BY <1>6, <1>7, <1>8

(* A checkpoint between batches, and the seal of an extraction. *)
LEMMA CheckpointKeeps ==
    ASSUME Inv, NEW w \in Workers, Checkpoint(w), UNCHANGED stream
    PROVE  Inv'
<1> DEFINE point == worker[w].point
           new == [Stored(w) EXCEPT !.checkpoint = point.seq]
           session == [worker[w] EXCEPT !.pc = "read", !.since = 0]
<1>1. worker[w].pc = "checkpoint" /\ UNCHANGED <<source, remote>>
  BY DEF Checkpoint
<1>2. /\ TypeInv /\ Working(w) /\ worker[w] \in Sessions /\ Stored(w) \in ControlRows
      /\ worker[w].run \in Runs /\ point \in Points
  BY <1>1, Facts DEF Inv, Working, Sessions
<1>3. CASE Publish(w, new, session) /\ saved' = Merged(point, worker[w].run)
  <2>1. SavedType'
    BY <1>2, <1>3, MergedType DEF SavedType
  <2>2. new \in ControlRows /\ new.head = Stored(w).head /\ KeepsSide(Stored(w).phase, new.phase)
    BY <1>2 DEF ControlRows, KeepsSide, Points
  <2>3. session \in Sessions /\ session.run = worker[w].run /\ session.pc = "read"
    BY <1>2 DEF Sessions
  <2> HIDE DEF new, session
  <2> QED
    BY <1>1, <1>3, <2>1, <2>2, <2>3, PhaseStep
<1>4. CASE worker' = [worker EXCEPT ![w] = Cleanup(w, worker[w].staged)] /\ UNCHANGED <<control, saved>>
  BY <1>1, <1>2, <1>4, CleanupGood, LocalStep
<1> QED
  BY <1>3, <1>4 DEF Checkpoint

(* The end of an extraction: sealExtraction() and prepareFinish(). *)
LEMMA SealingKeeps ==
    ASSUME Inv, NEW w \in Workers, SealExtraction(w) \/ PrepareFinish(w), UNCHANGED stream
    PROVE  Inv'
<1>1. worker[w].pc \in {"read", "prepareFinish"} /\ UNCHANGED <<source, saved, remote>>
  BY DEF SealExtraction, PrepareFinish
<1>2. /\ TypeInv /\ Working(w) /\ worker[w] \in Sessions /\ Stored(w) \in ControlRows
      /\ worker[w].point \in Points
  BY <1>1, Facts DEF Inv, Working, Sessions
<1>3. SavedType'
  BY <1>1, <1>2 DEF TypeInv, SavedType
<1>4. ASSUME NEW session \in {Idle, Cleanup(w, worker[w].staged)},
             worker' = [worker EXCEPT ![w] = session], UNCHANGED control
      PROVE  Inv'
  <2>1. session = Idle \/ GoodSession(w, Stored(w), session)
    BY <1>1, <1>4, CleanupGood
  <2> QED
    BY <1>1, <1>2, <1>4, <2>1, LocalStep
<1>5. CASE SealExtraction(w)
  <2> DEFINE new == [Stored(w) EXCEPT !.phase = "batches_pending"]
             session == [worker[w] EXCEPT !.pc = IF worker[w].staged THEN "detach" ELSE "prepareFinish"]
  <2>1. CASE Publishable(w, "running") /\ Publish(w, new, session)
    <3>1. Stored(w).phase = "running"
      BY <2>1 DEF Publishable, Stored
    <3>2. new \in ControlRows /\ new.head = Stored(w).head /\ KeepsSide(Stored(w).phase, new.phase)
      BY <1>2, <3>1 DEF ControlRows, Phases, KeepsSide, FinishSide, AbortSide
    <3>3. session \in Sessions /\ session.run = worker[w].run /\ session.pc \in {"detach", "prepareFinish"}
      BY <1>2 DEF Sessions
    <3> HIDE DEF new, session
    <3> QED
      BY <1>1, <1>3, <2>1, <3>2, <3>3, PhaseStep
  <2>2. CASE worker' = [worker EXCEPT ![w] = Cleanup(w, worker[w].staged)] /\ UNCHANGED control
    BY <1>4, <2>2
  <2> QED
    BY <1>5, <2>1, <2>2 DEF SealExtraction
<1>6. CASE PrepareFinish(w)
  <2> DEFINE new == [Stored(w) EXCEPT !.phase = "finish_prepared", !.finish = worker[w].point.seq]
             session == [worker[w] EXCEPT !.pc = "finish"]
  <2>1. CASE Finishable(w) /\ Publishable(w, Known(w).phase) /\ Publish(w, new, session)
    <3>1. Stored(w).phase \in {"running", "batches_pending"}
      BY <2>1 DEF Finishable, Publishable, Stored
    <3>2. new \in ControlRows /\ new.head = Stored(w).head /\ new.phase = "finish_prepared"
      BY <1>2 DEF ControlRows, Phases, Points
    <3>3. session \in Sessions /\ session.run = worker[w].run /\ session.pc = "finish"
      BY <1>2 DEF Sessions
    <3>4. /\ KeepsSide(Stored(w).phase, new.phase) /\ new.phase \in FinishSide
          /\ Stored(w).phase \notin FinishSide
      BY <3>1, <3>2 DEF KeepsSide, FinishSide, AbortSide
    <3> HIDE DEF new, session
    <3> QED
      BY <1>1, <1>3, <2>1, <3>2, <3>3, <3>4, PhaseStep
  <2>2. CASE /\ worker' = [worker EXCEPT ![w] = IF worker[w].recovered THEN Idle ELSE Cleanup(w, worker[w].staged)]
             /\ UNCHANGED control
    BY <1>4, <2>2
  <2> QED
    BY <1>6, <2>1, <2>2 DEF PrepareFinish
<1> QED
  BY <1>5, <1>6

(* A session the provider finished, or one that lost its staged batches. *)
LEMMA SessionEnds ==
    ASSUME NEW s \in RemoteRows
    PROVE  /\ FinishedSession(s) \in RemoteRows
           /\ FinishedSession(s).calls = s.calls /\ FinishedSession(s).finishes = s.finishes
           /\ FinishedSession(s).aborts = s.aborts
  BY DEF RemoteRows, FinishedSession

(* writer.finish(): the call the worker recorded. *)
LEMMA CallFinishKeeps ==
    ASSUME Inv, NEW w \in Workers, CallFinish(w), UNCHANGED stream
    PROVE  Inv'
<1> DEFINE r == worker[w].run
           now == [remote[r] EXCEPT !.finishes = @ + 1]
           later == [now EXCEPT !.session = "finishing"]
<1>1. worker[w].pc = "finish" /\ UNCHANGED <<source, control, saved>>
  BY DEF CallFinish
<1>2. TypeInv /\ Working(w) /\ worker[w] \in Sessions /\ remote[r] \in RemoteRows
  BY <1>1, Facts DEF Inv, Working
<1>3. Known(w).phase \in FinishSide
  BY <1>1, <1>2 DEF Inv, SideInv, Known
<1>4. \A s \in {now, later} : /\ s \in RemoteRows /\ s.calls = remote[r].calls
                              /\ s.aborts = remote[r].aborts /\ s.finishes = remote[r].finishes + 1
  <2>1. /\ now \in RemoteRows /\ now.calls = remote[r].calls
        /\ now.aborts = remote[r].aborts /\ now.finishes = remote[r].finishes + 1
    BY <1>2 DEF RemoteRows
  <2> HIDE DEF now
  <2>2. /\ later \in RemoteRows /\ later.calls = now.calls
        /\ later.aborts = now.aborts /\ later.finishes = now.finishes
    BY <2>1 DEF RemoteRows
  <2> QED
    BY <2>1, <2>2
<1> HIDE DEF now, later
<1>5. \A s \in {now, later, FinishedSession(now)} : GoodCall(w, s)
  BY <1>1, <1>4, SessionEnds DEF GoodCall
<1> DEFINE session(result) == [worker[w] EXCEPT !.pc = "ackFinish", !.result = result]
<1>6. ASSUME NEW result \in {"accepted", "pending"}
      PROVE  GoodSession(w, Stored(w), session(result))
  <2>1. /\ session(result) \in Sessions /\ session(result).run = r /\ session(result).row = Known(w)
        /\ session(result).pc = "ackFinish"
    BY <1>2 DEF Sessions, Known
  <2> HIDE DEF session
  <2> QED
    BY <1>1, <1>3, <2>1, GoesOn
<1>7. ASSUME NEW result, worker' = [worker EXCEPT ![w].pc = "ackFinish", ![w].result = result]
      PROVE  worker' = [worker EXCEPT ![w] = session(result)]
  BY <1>2, <1>7 DEF TypeInv, WorkerType
<1>8. PICK s \in {now, later, FinishedSession(now)} : remote' = [remote EXCEPT ![r] = s]
  BY DEF CallFinish, now, later
<1>9. \/ worker' = [worker EXCEPT ![w].pc = "ackFinish", ![w].result = "accepted"]
      \/ worker' = [worker EXCEPT ![w].pc = "ackFinish", ![w].result = "pending"]
      \/ worker' = [worker EXCEPT ![w] = Idle]
  BY DEF CallFinish, Stop
<1> HIDE DEF session
<1>10. PICK next : /\ next = Idle \/ GoodSession(w, Stored(w), next)
                   /\ worker' = [worker EXCEPT ![w] = next]
  BY <1>6, <1>7, <1>9
<1> QED
  BY <1>1, <1>2, <1>5, <1>8, <1>10, CallStep

(* finish(): the receipt of the finish, the staged batches, the run. *)
LEMMA FinishReceiptsKeep ==
    ASSUME Inv, NEW w \in Workers, AcknowledgeFinish(w) \/ ResolveFinish(w), UNCHANGED stream
    PROVE  Inv'
<1>1. worker[w].pc \in {"ackFinish", "resolve"} /\ UNCHANGED <<source, saved, remote>>
  BY DEF AcknowledgeFinish, ResolveFinish
<1>2. /\ TypeInv /\ Working(w) /\ worker[w] \in Sessions /\ Stored(w) \in ControlRows
      /\ Known(w) \in ControlRows /\ Stored(w).head.batches \in Seq(Batches)
  BY <1>1, Facts DEF Inv, Working
<1>3. SavedType'
  BY <1>1, <1>2 DEF TypeInv, SavedType
<1>4. Known(w).phase \in FinishSide /\ Stored(w).phase \in FinishSide
  BY <1>1, <1>2 DEF Inv, SideInv, Known, Stored
<1>5. ASSUME NEW new \in ControlRows, new.head = Stored(w).head, new.phase \in FinishSide,
             NEW session \in Sessions, session.run = worker[w].run, session.pc \in {"detach", "resolve", "commit"},
             Publish(w, new, session)
      PROVE  Inv'
  <2>1. KeepsSide(Stored(w).phase, new.phase)
    BY <1>4, <1>5 DEF KeepsSide, FinishSide, AbortSide
  <2> QED
    BY <1>1, <1>3, <1>5, <2>1, PhaseStep
<1>6. CASE AcknowledgeFinish(w)
  <2> DEFINE pending == worker[w].result = "pending"
             pc == IF pending THEN "detach" ELSE "resolve"
             session == [worker[w] EXCEPT !.pc = pc]
             new == [Stored(w) EXCEPT !.phase = IF pending THEN "finish_pending" ELSE "finish_resolving"]
  <2>1. /\ session \in Sessions /\ session.run = worker[w].run /\ session.row = Known(w)
        /\ session.pc \in {"detach", "resolve"}
    BY <1>2 DEF Sessions, Known
  <2>2. new \in ControlRows /\ new.head = Stored(w).head /\ new.phase \in FinishSide
    BY <1>2 DEF ControlRows, Phases, FinishSide
  <2>3. \/ worker' = [worker EXCEPT ![w] = session] /\ UNCHANGED control
        \/ Publish(w, new, session)
    BY <1>6 DEF AcknowledgeFinish, Goto
  <2> HIDE DEF session, new
  <2>4. CASE worker' = [worker EXCEPT ![w] = session] /\ UNCHANGED control
    <3>1. GoodSession(w, Stored(w), session)
      BY <1>1, <1>4, <2>1, GoesOn
    <3> QED
      BY <1>1, <1>2, <2>4, <3>1, LocalStep
  <2>5. CASE Publish(w, new, session)
    BY <1>5, <2>1, <2>2, <2>5
  <2> QED
    BY <2>3, <2>4, <2>5
<1>7. CASE ResolveFinish(w)
  <2> DEFINE staged == {k \in DOMAIN Known(w).head.batches : Staged(Known(w).head.batches[k])}
             receipt(k) == WithReceipt(Stored(w), k, "accepted")
             new == [Stored(w) EXCEPT !.phase = "finish_accepted"]
             session == [worker[w] EXCEPT !.pc = "commit",
                                          !.point = IF worker[w].recovered
                                                    THEN FinalPoint(Known(w), Known(w).next) ELSE @]
  <2>1. worker[w].pc = "resolve" /\ ((\E k \in staged : Publish(w, receipt(k), worker[w])) \/ Publish(w, new, session))
    BY <1>7 DEF ResolveFinish
  <2>2. CASE Publish(w, new, session)
    <3>1. new \in ControlRows /\ new.head = Stored(w).head /\ new.phase \in FinishSide
      BY <1>2 DEF ControlRows, Phases, FinishSide
    <3>2. FinalPoint(Known(w), Known(w).next) \in Points /\ worker[w].point \in Points
      BY <1>2, FinalPointType DEF ControlRows, Sessions
    <3>3. session \in Sessions /\ session.run = worker[w].run /\ session.pc = "commit"
      BY <1>2, <3>2 DEF Sessions
    <3> HIDE DEF session, new
    <3> QED
      BY <1>5, <2>2, <3>1, <3>3
  <2>3. ASSUME NEW k \in staged, NEW row, row = receipt(k), Publish(w, row, worker[w]) PROVE Inv'
    <3>1. /\ row \in ControlRows /\ row.phase = Stored(w).phase
          /\ row.head.run = Stored(w).head.run /\ Len(row.head.batches) = Len(Stored(w).head.batches)
      BY <1>2, <2>3, ReceiptRow
    <3>2. GoodRow(w, row)
      BY <1>2, <3>1 DEF GoodRow, KeepsSide, KeepsJournal
    <3> DEFINE next == [worker[w] EXCEPT !.row = row]
    <3>3. next \in Sessions /\ next.run = worker[w].run /\ next.row = row /\ next.pc = "resolve"
      BY <1>2, <2>1, <3>1 DEF Sessions
    <3>4. GoodSession(w, row, next)
      BY <1>1, <1>4, <3>1, <3>2, <3>3, GoesOnWith
    <3> QED
      BY <1>1, <1>2, <1>3, <2>3, <3>2, <3>4, PublishStep DEF Publish
  <2> QED
    BY <2>1, <2>2, <2>3
<1> QED
  BY <1>6, <1>7

(* The end of an attempt: the run is committed, or left to the provider. *)
LEMMA AttemptEndsKeep ==
    ASSUME Inv, NEW w \in Workers, CommitComplete(w) \/ Detach(w), UNCHANGED stream
    PROVE  Inv'
<1>1. /\ worker[w].pc \in {"commit", "detach"} /\ UNCHANGED <<source, remote>>
      /\ worker' = [worker EXCEPT ![w] = Idle]
  BY DEF CommitComplete, Detach, Stop
<1>2. /\ TypeInv /\ Working(w) /\ worker[w] \in Sessions /\ Stored(w) \in ControlRows
      /\ worker[w].run \in DOMAIN control /\ worker[w].run \in Runs /\ worker[w].point \in Points
  BY <1>1, Facts DEF Inv, Working, Sessions
<1>3. ASSUME UNCHANGED <<control, saved>> PROVE Inv'
  BY <1>1, <1>2, <1>3, LocalStep
<1>4. CASE CommitComplete(w)
  <2> DEFINE new == [Stored(w) EXCEPT !.checkpoint = worker[w].point.seq, !.phase = "complete"]
  <2>1. CASE /\ control' = [control EXCEPT ![worker[w].run].checkpoint = worker[w].point.seq,
                                           ![worker[w].run].phase = "complete"]
             /\ saved' = Merged(worker[w].point, worker[w].run)
    <3>1. control' = [control EXCEPT ![worker[w].run] = new]
      BY <1>2, <2>1 DEF Stored, TypeInv, ControlType
    <3>2. SavedType'
      BY <1>2, <2>1, MergedType DEF SavedType
    <3>3. new \in ControlRows /\ new.head = Stored(w).head /\ new.phase = "complete"
      BY <1>2 DEF ControlRows, Phases, Ended, Points
    <3>4. Stored(w).phase \in FinishSide
      BY <1>2, <1>4 DEF Inv, SideInv, Stored, CommitComplete
    <3>5. GoodRow(w, new)
      BY <1>2, <3>3, <3>4, SameHead DEF KeepsSide, FinishSide, AbortSide
    <3> HIDE DEF new
    <3> QED
      BY <1>1, <1>2, <3>1, <3>2, <3>5, PublishStep
  <2> QED
    BY <1>3, <1>4, <2>1 DEF CommitComplete
<1>5. CASE Detach(w)
  <2> DEFINE new == [Stored(w) EXCEPT !.detached = TRUE]
  <2>1. CASE control' = [control EXCEPT ![worker[w].run].detached = TRUE]
    <3>1. control' = [control EXCEPT ![worker[w].run] = new]
      BY <2>1 DEF Stored
    <3>2. SavedType'
      BY <1>2, <1>5 DEF Detach, TypeInv, SavedType
    <3>3. new \in ControlRows /\ new.head = Stored(w).head /\ KeepsSide(Stored(w).phase, new.phase)
      BY <1>2 DEF ControlRows, KeepsSide
    <3>4. GoodRow(w, new)
      BY <1>2, <3>3, SameHead
    <3> HIDE DEF new
    <3> QED
      BY <1>1, <1>2, <3>1, <3>2, <3>4, PublishStep
  <2> QED
    BY <1>3, <1>5, <2>1 DEF Detach
<1> QED
  BY <1>4, <1>5

(* Cleanup: recorded, called and acknowledged. *)
LEMMA CleanupKeeps ==
    ASSUME Inv, NEW w \in Workers, PrepareAbort(w) \/ CallAbort(w) \/ AcknowledgeAbort(w), UNCHANGED stream
    PROVE  Inv'
<1>1. worker[w].pc \in {"cleanup", "abort", "ackAbort"} /\ UNCHANGED <<source, saved>>
  BY DEF PrepareAbort, CallAbort, AcknowledgeAbort
<1>2. /\ TypeInv /\ Working(w) /\ worker[w] \in Sessions /\ Stored(w) \in ControlRows
      /\ worker[w].run \in DOMAIN control /\ worker[w].run \in Runs
      /\ Stored(w).head.batches \in Seq(Batches) /\ remote[worker[w].run] \in RemoteRows
  BY <1>1, Facts DEF Inv, Working
<1>3. SavedType'
  BY <1>1, <1>2 DEF TypeInv, SavedType
<1>4. worker[w].pc # "cleanup" => Known(w).phase \in AbortSide /\ Stored(w).phase \in AbortSide
  BY <1>1, <1>2 DEF Inv, SideInv, Known, Stored
<1>5. CASE PrepareAbort(w)
  <2> DEFINE new == [Stored(w) EXCEPT !.phase = "abort_prepared"]
             session == [worker[w] EXCEPT !.pc = "abort"]
  <2>1. \/ /\ Known(w).phase \in {"running", "batches_pending"} /\ Publishable(w, Known(w).phase)
           /\ Publish(w, new, session)
        \/ Stop(w) /\ UNCHANGED control
    BY <1>5 DEF PrepareAbort
  <2>2. CASE Stop(w) /\ UNCHANGED control
    BY <1>1, <1>2, <1>5, <2>2, StopKeeps DEF PrepareAbort
  <2>3. CASE /\ Known(w).phase \in {"running", "batches_pending"} /\ Publishable(w, Known(w).phase)
             /\ Publish(w, new, session)
    <3>1. Stored(w).phase \in {"running", "batches_pending"}
      BY <2>3 DEF Publishable, Stored
    <3>2. new \in ControlRows /\ new.head = Stored(w).head /\ new.phase = "abort_prepared"
      BY <1>2 DEF ControlRows, Phases
    <3>3. KeepsSide(Stored(w).phase, new.phase) /\ new.phase \in AbortSide
      BY <3>1, <3>2 DEF KeepsSide, FinishSide, AbortSide
    <3>4. session \in Sessions /\ session.run = worker[w].run /\ session.pc = "abort"
      BY <1>2 DEF Sessions
    <3> HIDE DEF new, session
    <3> QED
      BY <1>1, <1>3, <1>5, <2>3, <3>2, <3>3, <3>4, PhaseStep DEF PrepareAbort
  <2> QED
    BY <2>1, <2>2, <2>3
<1>6. CASE CallAbort(w)
  <2> DEFINE r == worker[w].run
             gone == [remote[r] EXCEPT !.session = "aborted", !.aborts = 1,
                         !.batch = [k \in Rows |-> IF @[k] = "staged" THEN "absent" ELSE @[k]]]
             session == [worker[w] EXCEPT !.pc = "ackAbort"]
  <2>1. gone \in RemoteRows /\ gone.calls = remote[r].calls /\ gone.finishes = remote[r].finishes
    <3> DEFINE batch == [k \in Rows |-> IF remote[r].batch[k] = "staged" THEN "absent" ELSE remote[r].batch[k]]
    <3>1. batch \in [Rows -> {"absent", "staged", "done", "refused"}]
      BY <1>2 DEF RemoteRows
    <3>2. gone = [remote[r] EXCEPT !.session = "aborted", !.aborts = 1, !.batch = batch]
      BY <1>2 DEF RemoteRows
    <3> HIDE DEF batch, gone
    <3> DEFINE old == remote[r]
    <3>3. old \in RemoteRows
      BY <1>2
    <3> HIDE DEF old
    <3> DEFINE mid == [old EXCEPT !.session = "aborted", !.batch = batch]
               last == [mid EXCEPT !.aborts = 1]
    <3>4. mid \in RemoteRows /\ mid.calls = old.calls /\ mid.finishes = old.finishes
      BY <3>1, <3>3 DEF RemoteRows
    <3>5. gone = last
      BY <3>2, <3>3 DEF old, RemoteRows
    <3> HIDE DEF mid
    <3>6. last \in RemoteRows /\ last.calls = mid.calls /\ last.finishes = mid.finishes
      <4>1. 1 \in 0 .. 1
        OBVIOUS
      <4> QED
        BY <3>4, <4>1 DEF RemoteRows
    <3> QED
      BY <3>4, <3>5, <3>6 DEF old
  <2>2. worker[w].pc = "abort" /\ UNCHANGED <<source, control, saved>>
    BY <1>6 DEF CallAbort
  <2>3. PICK s \in {remote[r], gone} : remote' = [remote EXCEPT ![r] = s]
    BY <1>6 DEF CallAbort
  <2>4. worker' = [worker EXCEPT ![w] = session] \/ worker' = [worker EXCEPT ![w] = Idle]
    BY <1>6 DEF CallAbort, Goto, Stop
  <2> HIDE DEF gone
  <2>5. GoodCall(w, s)
    BY <1>2, <2>1, <2>2, <2>3 DEF GoodCall
  <2>6. session \in Sessions /\ session.run = r /\ session.row = Known(w) /\ session.pc = "ackAbort"
    BY <1>2 DEF Sessions, Known
  <2> HIDE DEF session
  <2>7. GoodSession(w, Stored(w), session)
    BY <1>4, <2>2, <2>6, GoesOn
  <2> QED
    BY <1>2, <2>2, <2>3, <2>4, <2>5, <2>7, CallStep
<1>7. CASE AcknowledgeAbort(w)
  <2> DEFINE old == Stored(w).head.batches
             batches == [k \in DOMAIN old |->
                            IF Staged(old[k]) THEN [old[k] EXCEPT !.status = "cancelled"] ELSE old[k]]
             new == [Stored(w) EXCEPT !.phase = "aborted", !.head.batches = batches]
  <2>1. control' = [control EXCEPT ![worker[w].run] = new]
    BY <1>7 DEF AcknowledgeAbort
  <2>2. /\ new \in ControlRows /\ new.phase = "aborted"
        /\ new.head.run = Stored(w).head.run /\ Len(new.head.batches) = Len(Stored(w).head.batches)
    BY <1>2, CancelledRow
  <2>3. Stored(w).phase \in AbortSide
    BY <1>4, <1>7 DEF AcknowledgeAbort
  <2> HIDE DEF new
  <2>4. GoodRow(w, new)
    BY <1>2, <2>2, <2>3 DEF GoodRow, KeepsSide, KeepsJournal, FinishSide, AbortSide
  <2> QED
    BY <1>1, <1>2, <1>3, <1>7, <2>1, <2>4, PublishStep DEF AcknowledgeAbort, Stop
<1> QED
  BY <1>5, <1>6, <1>7

(* recoverRun() up to the receipts. *)
LEMMA RecoveryKeeps ==
    ASSUME Inv, NEW w \in Workers,
           RecoverInit(w) \/ RecoverFinish(w) \/ RecoverBatch(w) \/ RecoverDecide(w), UNCHANGED stream
    PROVE  Inv'
<1>1. worker[w].pc = "recover" /\ UNCHANGED <<source, saved>>
  BY DEF RecoverInit, RecoverFinish, RecoverBatch, RecoverDecide
<1>2. /\ TypeInv /\ Working(w) /\ worker[w] \in Sessions /\ Stored(w) \in ControlRows
      /\ Known(w) \in ControlRows /\ worker[w].run \in DOMAIN control /\ worker[w].run \in Runs
      /\ Known(w).head.batches \in Seq(Batches) /\ remote[worker[w].run] \in RemoteRows
  BY <1>1, Facts DEF Inv, Working
<1>3. FinalPoint(Known(w), Known(w).next) \in Points
  BY <1>2, FinalPointType DEF ControlRows
<1>4. ASSUME NEW session, session = Idle \/ GoodSession(w, Stored(w), session),
             worker' = [worker EXCEPT ![w] = session], UNCHANGED <<control, remote>>
      PROVE  Inv'
  BY <1>1, <1>2, <1>4, LocalStep
<1>5. CASE RecoverInit(w)
  <2> DEFINE new == [Stored(w) EXCEPT !.phase = "new"]
             s == [remote[worker[w].run] EXCEPT !.session = "none"]
  <2>1. Stored(w).phase = "init_prepared"
    BY <1>5 DEF RecoverInit, Publishable, Stored
  <2>2. new \in ControlRows /\ new.head = Stored(w).head /\ KeepsSide(Stored(w).phase, new.phase)
    BY <1>2, <2>1 DEF ControlRows, Phases, KeepsSide, FinishSide, AbortSide
  <2>3. GoodCall(w, s)
    BY <1>2 DEF GoodCall, RemoteRows
  <2>4. /\ control' = [control EXCEPT ![worker[w].run] = new]
        /\ remote' = [remote EXCEPT ![worker[w].run] = s]
        /\ worker' = [worker EXCEPT ![w] = Idle]
    BY <1>5 DEF RecoverInit, Stop, Stored
  <2>5. SavedType'
    BY <1>1, <1>2 DEF TypeInv, SavedType
  <2> HIDE DEF new, s
  <2>6. GoodRow(w, new)
    BY <1>2, <2>2, SameHead
  <2> QED
    BY <1>1, <1>2, <2>3, <2>4, <2>5, <2>6, StepKeeps
<1>6. CASE RecoverFinish(w)
  <2> DEFINE evidence == FinishEvidence(remote[worker[w].run])
             ack(result) == [worker[w] EXCEPT !.pc = "ackFinish", !.result = result]
             done == [worker[w] EXCEPT !.pc = "commit", !.point = FinalPoint(Known(w), Known(w).next)]
  <2>1. evidence \in {"pending", "accepted", "none"}
    BY DEF FinishEvidence
  <2> HIDE DEF evidence
  <2>2. Known(w).phase \in FinishSide /\ UNCHANGED <<control, remote>>
    BY <1>6 DEF RecoverFinish, FinishSide
  <2>3. ASSUME NEW result \in {"pending", "accepted"}
        PROVE  GoodSession(w, Stored(w), ack(result))
    <3>1. /\ ack(result) \in Sessions /\ ack(result).run = worker[w].run /\ ack(result).row = Known(w)
          /\ ack(result).pc = "ackFinish"
      BY <1>2 DEF Sessions, Known
    <3> HIDE DEF ack
    <3> QED
      BY <1>1, <2>2, <3>1, GoesOn
  <2>4. GoodSession(w, Stored(w), done)
    <3>1. done \in Sessions /\ done.run = worker[w].run /\ done.row = Known(w) /\ done.pc = "commit"
      BY <1>2, <1>3 DEF Sessions, Known
    <3> HIDE DEF done
    <3> QED
      BY <1>1, <2>2, <3>1, GoesOn
  <2>5. \/ worker' = [worker EXCEPT ![w] = IF evidence = "none" THEN Idle ELSE ack(evidence)]
        \/ worker' = [worker EXCEPT ![w] = ack("accepted")]
        \/ worker' = [worker EXCEPT ![w] = done]
    BY <1>2, <1>6 DEF RecoverFinish, TypeInv, WorkerType, evidence
  <2> HIDE DEF ack, done
  <2> QED
    BY <1>4, <2>1, <2>2, <2>3, <2>4, <2>5
<1>7. CASE RecoverBatch(w)
  <2>1. PICK k \in DOMAIN Known(w).head.batches \ worker[w].seen :
          LET b == Known(w).head.batches[k]
              evidence == BatchEvidence(remote[worker[w].run].batch[k])
              visited == [worker[w] EXCEPT !.seen = @ \cup {k}, !.rejected = @ \/ Rejected(b)] IN
          \/ /\ ~Unresolved(b) /\ ~Staged(b)
             /\ worker' = [worker EXCEPT ![w] = visited]
          \/ /\ Unresolved(b) \/ Staged(b)
             /\ evidence # "none"
             /\ worker' = [worker EXCEPT ![w] = [visited EXCEPT !.pc = "ackBatch", !.k = k, !.result = evidence]]
          \/ /\ Unresolved(b)
             /\ Stop(w)
    BY <1>7 DEF RecoverBatch
  <2> DEFINE evidence == BatchEvidence(remote[worker[w].run].batch[k])
             visited == [worker[w] EXCEPT !.seen = @ \cup {k},
                                          !.rejected = @ \/ Rejected(Known(w).head.batches[k])]
             asked == [visited EXCEPT !.pc = "ackBatch", !.k = k, !.result = evidence]
  <2>2. evidence \in {"accepted", "staged", "rejected", "none"}
    BY DEF BatchEvidence
  <2>3. k \in Nat
    BY <1>2, <2>1
  <2>4. \/ worker' = [worker EXCEPT ![w] = visited]
        \/ worker' = [worker EXCEPT ![w] = asked]
        \/ worker' = [worker EXCEPT ![w] = Idle]
    BY <2>1 DEF Stop
  <2> HIDE DEF evidence
  <2>5. /\ visited \in Sessions /\ visited.run = worker[w].run /\ visited.row = Known(w)
        /\ visited.pc = "recover"
    BY <1>1, <1>2, <2>3 DEF Sessions, Known
  <2> HIDE DEF visited
  <2>6. GoodSession(w, Stored(w), visited)
    BY <1>1, <2>5, GoesOn
  <2>7. /\ asked \in Sessions /\ asked.run = worker[w].run /\ asked.row = Known(w)
        /\ asked.pc = "ackBatch" /\ asked.result # "pending"
    BY <2>2, <2>3, <2>5 DEF Sessions
  <2> HIDE DEF asked
  <2>8. GoodSession(w, Stored(w), asked)
    BY <1>1, <2>7, GoesOn
  <2> QED
    BY <1>4, <1>7, <2>4, <2>6, <2>8 DEF RecoverBatch
<1>8. CASE RecoverDecide(w)
  <2> DEFINE sealed == Known(w).phase = "batches_pending"
             pc == IF Known(w).phase = "abort_prepared" THEN "abort"
                   ELSE IF worker[w].pending /\ (stream.asynchronous \/ sealed) THEN "detach"
                   ELSE IF sealed /\ ~worker[w].rejected THEN "prepareFinish"
                   ELSE "cleanup"
             point == IF pc = "prepareFinish" THEN FinalPoint(Known(w), Known(w).next) ELSE worker[w].point
             session == [worker[w] EXCEPT !.pc = pc, !.point = point]
  <2>1. /\ pc \in {"abort", "detach", "prepareFinish", "cleanup"}
        /\ pc = "abort" => Known(w).phase \in AbortSide
    BY DEF AbortSide
  <2>2. point \in Points
    BY <1>2, <1>3 DEF Sessions
  <2>3. worker' = [worker EXCEPT ![w] = session] /\ UNCHANGED <<control, remote>>
    BY <1>2, <1>8 DEF RecoverDecide, TypeInv, WorkerType
  <2> HIDE DEF pc, point
  <2>4. session \in Sessions /\ session.run = worker[w].run /\ session.row = Known(w) /\ session.pc = pc
    BY <1>2, <2>1, <2>2 DEF Sessions, Known
  <2> HIDE DEF session
  <2>5. GoodSession(w, Stored(w), session)
    BY <1>1, <2>1, <2>4, GoesOn
  <2> QED
    BY <1>4, <2>3, <2>5
<1> QED
  BY <1>5, <1>6, <1>7, <1>8

(* ObjectJournal.open(): the journal becomes the run's own. *)
LEMMA OpenJournalKeeps ==
    ASSUME Inv, NEW w \in Workers, OpenJournal(w), UNCHANGED stream
    PROVE  Inv'
<1> DEFINE head == Known(w).head
           baseline == head.baseline \cup RowsOf(head.batches, Accepted) \cup RowsOf(head.batches, Staged)
           pc == IF worker[w].recovered THEN "recover" ELSE "ready"
           session == [worker[w] EXCEPT !.pc = pc]
           own == [run |-> worker[w].run, baseline |-> baseline, batches |-> <<>>]
           new == [Stored(w) EXCEPT !.head = own]
<1>1. worker[w].pc = "open" /\ UNCHANGED <<source, saved, remote>>
  BY DEF OpenJournal
<1>2. /\ TypeInv /\ Working(w) /\ worker[w] \in Sessions /\ Stored(w) \in ControlRows
      /\ worker[w].run \in Runs /\ head \in Heads /\ head.batches \in Seq(Batches)
  BY <1>1, Facts DEF Inv, Working
<1>3. SavedType'
  BY <1>1, <1>2 DEF TypeInv, SavedType
<1>4. /\ session \in Sessions /\ session.run = worker[w].run /\ session.row = Known(w)
      /\ session.pc \in {"recover", "ready"}
  BY <1>2 DEF Sessions, Known
<1>5. \/ head.run = worker[w].run /\ worker' = [worker EXCEPT ![w] = session] /\ UNCHANGED control
      \/ head.run # worker[w].run /\ Publishable(w, "any") /\ Publish(w, new, session)
      \/ Stop(w) /\ UNCHANGED control
  BY DEF OpenJournal, Goto
<1> HIDE DEF session
<1>6. CASE head.run = worker[w].run /\ worker' = [worker EXCEPT ![w] = session] /\ UNCHANGED control
  <2>1. Stored(w).head.run = worker[w].run
    BY <1>2, <1>6 DEF Inv, JournalInv, Known, Stored
  <2>2. GoodSession(w, Stored(w), session)
    BY <1>4, <2>1 DEF GoodSession
  <2> QED
    BY <1>1, <1>2, <1>6, <2>2, LocalStep
<1>7. CASE head.run # worker[w].run /\ Publishable(w, "any") /\ Publish(w, new, session)
  <2>1. \A b \in Batch(head.batches) : b.rows \in SUBSET Rows
    <3>1. \A b \in Batch(head.batches) : b \in Batches
      BY <1>2 DEF Batch
    <3> QED
      BY <3>1 DEF Batches
  <2>2. baseline \in SUBSET Rows
    BY <1>2, <2>1 DEF RowsOf, Heads
  <2> HIDE DEF baseline
  <2>3. own \in Heads /\ own.run = worker[w].run
    BY <1>2, <2>2 DEF Heads
  <2> HIDE DEF own
  <2>4. new \in ControlRows /\ new.head = own /\ new.phase = Stored(w).phase
    BY <1>2, <2>3 DEF ControlRows
  <2> HIDE DEF new
  <2>5. Stored(w).head.run # worker[w].run
    BY <1>7 DEF Publishable, Stored, Known
  <2>6. GoodRow(w, new)
    BY <2>4, <2>5 DEF GoodRow, KeepsSide, KeepsJournal
  <2> DEFINE next == [session EXCEPT !.row = new]
  <2>7. next \in Sessions /\ next.run = worker[w].run /\ next.row = new /\ next.pc = session.pc
    BY <1>4, <2>4 DEF Sessions
  <2>8. GoodSession(w, new, next)
    BY <1>4, <2>3, <2>4, <2>7 DEF GoodSession
  <2> QED
    BY <1>1, <1>2, <1>3, <1>7, <2>6, <2>8, PublishStep DEF Publish
<1>8. CASE Stop(w) /\ UNCHANGED control
  BY <1>1, <1>2, <1>8, StopKeeps
<1> QED
  BY <1>5, <1>6, <1>7, <1>8

(* A new session starts with a row as it is stored. *)
LEMMA OpensRun ==
    ASSUME Inv, NEW w \in Workers, worker[w].pc = "idle",
           control' \in Seq(ControlRows), Len(control) <= Len(control'), Len(control') <= MaxRuns,
           \A q \in DOMAIN control : control'[q].phase = control[q].phase /\ control'[q].head = control[q].head,
           NEW r \in DOMAIN control', NEW recovered \in BOOLEAN,
           worker' = [worker EXCEPT ![w] = Session(r, control'[r], recovered)],
           UNCHANGED <<stream, source, saved, remote>>
    PROVE  Inv'
<1> DEFINE session == Session(r, control'[r], recovered)
<1>1. TypeInv /\ SideInv /\ FinishInv /\ JournalInv /\ CallInv
  BY DEF Inv
<1>2. DOMAIN control \subseteq DOMAIN control' /\ r \in Runs /\ control'[r] \in ControlRows
  <2>1. control \in Seq(ControlRows)
    BY <1>1 DEF TypeInv, ControlType
  <2> QED
    BY <2>1, ConstantsAssumption DEF Runs
<1>3. /\ session \in Sessions /\ session.run = r /\ session.row = control'[r] /\ session.pc = "open"
  BY <1>2, ConstantsAssumption DEF Session, Sessions, NoPoint, Points
<1>4. worker'[w] = session /\ \A v \in Workers \ {w} : worker'[v] = worker[v]
  BY <1>1 DEF TypeInv, WorkerType
<1> HIDE DEF session
<1>5. \A v \in Workers \ {w} : Working(v) => worker[v].run \in DOMAIN control
  BY <1>1 DEF TypeInv, SessionShape
<1>6. TypeInv'
  <2>1. ControlType'
    BY DEF ControlType
  <2>2. WorkerType'
    BY <1>1, <1>3 DEF TypeInv, WorkerType, session
  <2>3. SessionShape'
    BY <1>1, <1>2, <1>3, <1>4 DEF TypeInv, SessionShape, Working
  <2> QED
    BY <1>1, <2>1, <2>2, <2>3 DEF TypeInv, StreamType, SavedType, RemoteType
<1>7. SideInv'
  BY <1>1, <1>3, <1>4, <1>5 DEF SideInv, Working
<1>8. FinishInv'
  BY <1>1, <1>2, <1>3, <1>4 DEF FinishInv
<1>9. JournalInv'
  BY <1>1, <1>3, <1>4, <1>5 DEF JournalInv, Working
<1>10. CallInv'
  <2>1. \A v \in Workers : worker'[v].pc = "call" =>
          v # w /\ worker'[v] = worker[v] /\ worker[v].pc = "call" /\ worker[v].run \in DOMAIN control
    BY <1>3, <1>4, <1>5 DEF Working
  <2> QED
    BY <1>1, <1>2, <2>1 DEF CallInv
<1> QED
  BY <1>6, <1>7, <1>8, <1>9, <1>10 DEF Inv

(* openRun() of a run that exists. *)
LEMMA ReopenKeeps ==
    ASSUME Inv, NEW w \in Workers, worker[w].pc = "idle", NEW r \in DOMAIN control, ReopenRun(w, r),
           UNCHANGED <<stream, source, saved, remote>>
    PROVE  Inv'
<1> DEFINE row == IF control[r].phase = "new" THEN Rebased(control[r]) ELSE control[r]
           recovered == control[r].phase # "new"
<1>1. TypeInv /\ control \in Seq(ControlRows) /\ Len(control) <= MaxRuns /\ control[r] \in ControlRows
  BY DEF Inv, TypeInv, ControlType
<1>2. Base \in Nat
  BY <1>1 DEF TypeInv, SavedType, Points, Base
<1>3. row \in ControlRows /\ row.phase = control[r].phase /\ row.head = control[r].head
  BY <1>1, <1>2 DEF Rebased, ControlRows
<1>4. control' = [control EXCEPT ![r] = row] /\ worker' = [worker EXCEPT ![w] = Session(r, row, recovered)]
  BY DEF ReopenRun
<1>5. recovered \in BOOLEAN
  OBVIOUS
<1> HIDE DEF row, recovered
<1>6. /\ control' \in Seq(ControlRows) /\ Len(control') = Len(control) /\ DOMAIN control' = DOMAIN control
      /\ control'[r] = row /\ \A q \in DOMAIN control \ {r} : control'[q] = control[q]
  BY <1>1, <1>3, <1>4, RowReplaced DEF TypeInv
<1>7. \A q \in DOMAIN control : control'[q].phase = control[q].phase /\ control'[q].head = control[q].head
  BY <1>3, <1>6
<1>8. Len(control) \in Nat
  BY <1>1
<1>9. Len(control) <= Len(control') /\ Len(control') <= MaxRuns
  BY <1>1, <1>6, <1>8
<1> QED
  BY <1>4, <1>5, <1>6, <1>7, <1>9, OpensRun

(* openRun() of a new logical run. *)
LEMMA OpenNewKeeps ==
    ASSUME Inv, NEW w \in Workers, worker[w].pc = "idle", OpenNewRun(w),
           UNCHANGED <<stream, source, saved, remote>>
    PROVE  Inv'
<1> DEFINE r == Len(control) + 1
           head == IF r = 1 THEN NewRow.head ELSE control[r - 1].head
           row == [Rebased(NewRow) EXCEPT !.head = head]
<1>1. TypeInv /\ control \in Seq(ControlRows) /\ Len(control) < MaxRuns /\ Len(control) \in Nat
  BY DEF Inv, TypeInv, ControlType, OpenNewRun
<1>2. Base \in Nat
  BY <1>1 DEF TypeInv, SavedType, Points, Base
<1>3. head \in Heads
  <2>1. CASE r = 1
    <3>1. 1 \in Runs
      BY <1>1, ConstantsAssumption DEF Runs
    <3>2. <<>> \in Seq(Batches)
      OBVIOUS
    <3> QED
      BY <2>1, <3>1, <3>2 DEF NewRow, Heads
  <2>2. CASE r # 1
    <3>1. r - 1 \in DOMAIN control
      BY <1>1, <2>2
    <3>2. control[r - 1] \in ControlRows
      BY <1>1, <3>1
    <3>3. control[r - 1].head \in Heads
      BY <3>2 DEF ControlRows
    <3> QED
      BY <2>2, <3>3
  <2> QED
    BY <2>1, <2>2
<1> HIDE DEF head
<1>4. row \in ControlRows
  BY <1>2, <1>3 DEF Rebased, NewRow, ControlRows, Phases
<1>5. control' = Append(control, row) /\ worker' = [worker EXCEPT ![w] = Session(r, row, FALSE)]
  BY DEF OpenNewRun, head
<1> HIDE DEF row
<1>6. /\ control' \in Seq(ControlRows) /\ Len(control') = Len(control) + 1
      /\ control'[r] = row /\ \A q \in DOMAIN control : control'[q] = control[q]
  BY <1>1, <1>4, <1>5
<1>7. r \in DOMAIN control' /\ Len(control) <= Len(control') /\ Len(control') <= MaxRuns
  BY <1>1, <1>6, ConstantsAssumption
<1>8. FALSE \in BOOLEAN /\ worker' = [worker EXCEPT ![w] = Session(r, control'[r], FALSE)]
  BY <1>5, <1>6
<1> HIDE DEF r
<1> QED
  BY <1>6, <1>7, <1>8, OpensRun

(* Attempts and status checks open a run. *)
LEMMA StartsKeep ==
    ASSUME Inv, NEW w \in Workers, StartAttempt(w) \/ StartRecovery(w), UNCHANGED stream
    PROVE  Inv'
<1>1. worker[w].pc = "idle" /\ UNCHANGED <<source, saved, remote>>
  BY DEF StartAttempt, StartRecovery
<1>2. CASE StartRecovery(w)
  BY <1>1, <1>2, ReopenKeeps DEF StartRecovery
<1>3. CASE StartAttempt(w)
  <2>1. CASE OpenNewRun(w)
    BY <1>1, <2>1, OpenNewKeeps
  <2>2. ASSUME NEW r \in Attached, ReopenRun(w, r) PROVE Inv'
    BY <1>1, <2>2, ReopenKeeps DEF Attached
  <2> QED
    BY <1>3, <2>1, <2>2 DEF StartAttempt
<1> QED
  BY <1>2, <1>3

(* The warehouse and the provider change nothing the workers rely on. *)
LEMMA ElsewhereKeeps ==
    ASSUME Inv, source' \in 0 .. MaxRows, remote' \in [Runs -> RemoteRows],
           \A r \in Runs : /\ remote'[r].calls = remote[r].calls /\ remote'[r].finishes = remote[r].finishes
                           /\ remote'[r].aborts = remote[r].aborts,
           UNCHANGED <<stream, control, saved, worker>>
    PROVE  Inv'
<1>1. TypeInv /\ SideInv /\ FinishInv /\ JournalInv /\ CallInv
  BY DEF Inv
<1>2. \A w \in Workers : Working(w) => worker[w].run \in Runs
  BY <1>1, Facts
<1>3. TypeInv'
  BY <1>1 DEF TypeInv, StreamType, ControlType, SavedType, RemoteType, WorkerType, SessionShape, Working
<1>4. SideInv' /\ JournalInv'
  BY <1>1 DEF SideInv, JournalInv, Working
<1>5. FinishInv'
  BY <1>1, <1>2 DEF FinishInv, Working
<1>6. CallInv'
  BY <1>1, <1>2 DEF CallInv, Working
<1> QED
  BY <1>3, <1>4, <1>5, <1>6 DEF Inv

(* New rows, and the ends of asynchronous jobs and pending finishes. *)
LEMMA EnvironmentKeeps ==
    ASSUME Inv, NewSourceRow \/ Provider, UNCHANGED stream
    PROVE  Inv'
<1>1. TypeInv /\ source \in 0 .. MaxRows /\ remote \in [Runs -> RemoteRows]
  BY DEF Inv, TypeInv, RemoteType
<1>2. CASE NewSourceRow
  <2>1. source' \in 0 .. MaxRows
    BY <1>1, <1>2, ConstantsAssumption DEF NewSourceRow
  <2> QED
    BY <1>1, <1>2, <2>1, ElsewhereKeeps DEF NewSourceRow
<1>3. ASSUME NEW r \in Runs, SettleFinish(r) PROVE Inv'
  <2>1. /\ FinishedSession(remote[r]) \in RemoteRows
        /\ FinishedSession(remote[r]).calls = remote[r].calls
        /\ FinishedSession(remote[r]).finishes = remote[r].finishes
        /\ FinishedSession(remote[r]).aborts = remote[r].aborts
    BY <1>1, SessionEnds
  <2> QED
    BY <1>1, <1>3, <2>1, ElsewhereKeeps DEF SettleFinish
<1>4. ASSUME NEW r \in Runs, NEW k \in Rows, SettleBatch(r, k) PROVE Inv'
  <2>1. PICK s \in {"done", "staged", "refused"} : remote' = [remote EXCEPT ![r].batch[k] = s]
    <3>1. \A a \in Answers : a[1] \in {"done", "staged", "refused"}
      BY DEF Answers
    <3> QED
      BY <1>4, <3>1 DEF SettleBatch
  <2> DEFINE batch == [remote[r].batch EXCEPT ![k] = s]
             new == [remote[r] EXCEPT !.batch = batch]
  <2>2. batch \in [Rows -> {"absent", "staged", "done", "refused"}]
    BY <1>1 DEF RemoteRows
  <2>3. remote' = [remote EXCEPT ![r] = new]
    BY <2>1
  <2> HIDE DEF batch
  <2>4. /\ new \in RemoteRows /\ new.calls = remote[r].calls
        /\ new.finishes = remote[r].finishes /\ new.aborts = remote[r].aborts
    BY <1>1, <2>2 DEF RemoteRows
  <2> HIDE DEF new
  <2> QED
    BY <1>1, <1>4, <2>3, <2>4, ElsewhereKeeps DEF SettleBatch
<1> QED
  BY <1>2, <1>3, <1>4 DEF Provider

-----------------------------------------------------------------------------
(* The theorems                                                              *)

(* The invariant is inductive. *)
LEMMA Invariance == Spec => []Inv
<1>1. Init => Inv
  <2> SUFFICES ASSUME Init PROVE Inv
    OBVIOUS
  <2>1. control = <<>> /\ DOMAIN control = {} /\ Len(control) = 0
    BY DEF Init
  <2>2. \A w \in Workers : worker[w] = Idle /\ worker[w].pc = "idle"
    BY DEF Init, Idle
  <2>3. /\ stream \in StreamKinds /\ source \in 0 .. MaxRows
        /\ 0 \in 0 .. MaxRuns /\ 0 \in 0 .. MaxRows /\ MaxRuns \in Nat
    BY ConstantsAssumption DEF Init
  <2>4. \A r \in Runs : /\ remote[r] \in RemoteRows /\ remote[r].finishes = 0 /\ remote[r].aborts = 0
                        /\ \A k \in Rows : remote[r].calls[k] = 0
    BY DEF Init, RemoteRows
  <2>5. TypeInv
    <3>1. ControlType
      BY <2>1, <2>3 DEF ControlType
    <3>2. SavedType
      BY <2>3 DEF Init, SavedType, Points, NoPoint
    <3>3. RemoteType
      BY <2>4 DEF Init, RemoteType
    <3>4. WorkerType /\ SessionShape
      BY <2>2 DEF Init, WorkerType, SessionShape, Working
    <3> QED
      BY <2>3, <3>1, <3>2, <3>3, <3>4 DEF TypeInv, StreamType
  <2>6. SideInv /\ JournalInv
    BY <2>2 DEF SideInv, JournalInv, Working
  <2>7. FinishInv
    BY <2>2, <2>4 DEF FinishInv
  <2>8. CallInv
    BY <2>2, <2>4 DEF CallInv
  <2> QED
    BY <2>5, <2>6, <2>7, <2>8 DEF Inv
<1>2. Inv /\ [Next]_vars => Inv'
  <2> SUFFICES ASSUME Inv, [Next]_vars PROVE Inv'
    OBVIOUS
  <2>1. CASE Next
    <3>1. UNCHANGED stream
      BY <2>1 DEF Next
    <3>2. ASSUME NEW w \in Workers, StartAttempt(w) \/ StartRecovery(w) PROVE Inv'
      BY <3>1, <3>2, StartsKeep
    <3>3. ASSUME NEW w \in Workers, Deliver(w) PROVE Inv'
      BY <3>1, <3>3, OpenJournalKeeps, AssertReadyKeeps, InitPhasesKeep, CallInitKeeps, PrepareKeeps,
         CallBatchKeeps, ReceiptsKeep, CheckpointKeeps, SealingKeeps, CallFinishKeeps, FinishReceiptsKeep,
         AttemptEndsKeep, CleanupKeeps DEF Deliver
    <3>4. ASSUME NEW w \in Workers, Recover(w) PROVE Inv'
      BY <3>1, <3>4, RecoveryKeeps, ReceiptsKeep DEF Recover
    <3>5. ASSUME NEW w \in Workers, Crash(w) \/ Interrupt(w) \/ PublishRefused(w) PROVE Inv'
      BY <3>1, <3>5, FailuresKeep
    <3>6. CASE NewSourceRow \/ Provider
      BY <3>1, <3>6, EnvironmentKeeps
    <3> QED
      BY <2>1, <3>2, <3>3, <3>4, <3>5, <3>6 DEF Next
  <2>2. CASE UNCHANGED vars
    <3>1. UNCHANGED <<stream, source, control, saved, remote, worker>>
      BY <2>2 DEF vars, progress
    <3>2. remote \in [Runs -> RemoteRows] /\ source \in 0 .. MaxRows
      BY DEF Inv, TypeInv, RemoteType
    <3> QED
      BY <3>1, <3>2, ElsewhereKeeps
  <2> QED
    BY <2>1, <2>2
<1> QED
  BY <1>1, <1>2, PTL DEF Spec

(* The state keeps its types: the journal's rows and heads, the saved state,   *)
(* the provider's sessions and the workers' sessions.                          *)
THEOREM TypeCorrect == Spec => []TypeOK
<1>1. Inv => TypeOK
  BY DEF Inv, TypeInv, TypeOK, ControlType, SavedType, RemoteType, RemoteRows, WorkerType
<1> QED
  BY <1>1, Invariance, PTL

(* A batch is sent at most once and a session finished at most once, however   *)
(* many workers run, crash, lose answers and recover each other's runs:        *)
(* publish() admits one of the workers that know a head.                       *)
THEOREM CallsOnce == Spec => []NoBlindReplay
<1>1. Inv => NoBlindReplay
  BY DEF Inv, FinishInv, CallInv, NoBlindReplay
<1> QED
  BY <1>1, Invariance, PTL

(* A session is never both finished and aborted: prepareFinish() and           *)
(* prepareAbort() compare the phase, and neither side is ever left.            *)
THEOREM OneEnding == Spec => []FinishExcludesAbort
<1>1. Inv => FinishExcludesAbort
  <2> SUFFICES ASSUME Inv, NEW r \in Runs PROVE remote[r].finishes = 0 \/ remote[r].aborts = 0
    BY DEF FinishExcludesAbort
  <2>1. remote[r].finishes \in Nat /\ remote[r].aborts \in Nat
    BY DEF Inv, TypeInv, RemoteType, RemoteRows
  <2>2. ~(remote[r].finishes > 0 /\ remote[r].aborts > 0)
    BY DEF Inv, FinishInv, FinishSide, AbortSide
  <2> QED
    BY <2>1, <2>2
<1> QED
  BY <1>1, Invariance, PTL

-----------------------------------------------------------------------------
(* Receipts                                                                  *)

(* A worker that reads rows and sends batches; one with a batch under way. *)
Reading == {"read", "call", "ack", "mark", "checkpoint"}
Sending == {"call", "ack", "mark"}

(* Phases a run may be in while somebody reads: another worker may abort it. *)
Readable == {"running"} \cup AbortSide

(* Phases after the provider has confirmed the finish. *)
Confirmed == {"finish_resolving", "finish_accepted", "complete"}

(* What the journal says of a batch is true of its state at the provider, whose *)
(* session is s, and the batch is as far as the phase says; a: asynchronous.    *)
TrueBatch(a, b, phase, state, s) ==
    /\ Accepted(b) => state = "done"
    /\ Staged(b) /\ ~a => state \in {"staged", "done"} \/ s.aborts > 0
    /\ Staged(b) /\ phase \in Confirmed => state = "done"
    /\ b.status = "acknowledged" => b.out # "none"
    /\ b.status = "cancelled" => phase = "aborted"
    /\ phase \in FinishSide => b.status = "acknowledged" /\ ~Rejected(b) /\ (a => ~Staged(b))
    /\ phase \in {"finish_accepted", "complete"} => Accepted(b)

(* A control row of run r with a journal of its own is true. *)
TrueRow(a, r, row, s) ==
    row.head.run = r =>
        /\ DOMAIN row.head.batches \subseteq Rows
        /\ \A k \in DOMAIN row.head.batches : TrueBatch(a, row.head.batches[k], row.phase, s.batch[k], s)
        /\ row.phase \in {"new", "init_prepared"} => row.head.batches = <<>>

(* The answer a session is about to record is what the provider has. *)
TrueResult(a, x, s) ==
    /\ x.k \in DOMAIN x.row.head.batches
    /\ x.result \in {"accepted", "staged", "rejected"}
    /\ x.result = "accepted" => s.batch[x.k] = "done"
    /\ x.result = "staged" /\ ~a => s.batch[x.k] \in {"staged", "done"} \/ s.aborts > 0

(* A reader has settled all batches but the one under way, and has none rejected. *)
TrueReader(x) ==
    LET batches == x.row.head.batches IN
    /\ x.row.phase \in Readable /\ Len(batches) <= x.read
    /\ \A k \in DOMAIN batches : \/ x.pc \in Sending /\ k = x.k
                                 \/ Accepted(batches[k]) \/ (x.staged /\ Staged(batches[k]))
    /\ x.pc \in Sending => x.k \in DOMAIN batches /\ batches[x.k].status = "prepared"
    /\ x.pc = "checkpoint" => ~x.staged

(* What a session knows; all of it stays true whatever the other workers do. *)
TrueSession(a, x, s) ==
    LET batches == x.row.head.batches IN
    /\ TrueRow(a, x.run, x.row, s)
    /\ x.pc = "open" /\ ~x.recovered => x.row.phase = "new"
    /\ x.pc # "open" => x.row.head.run = x.run
    /\ x.pc \in {"ready", "start", "init", "ackInit"} => batches = <<>>
    /\ x.pc \in Reading => TrueReader(x)
    /\ x.pc = "prepareFinish" => x.row.phase = "batches_pending"
    /\ x.pc \in {"ack", "ackBatch"} => TrueResult(a, x, s)
    /\ x.pc = "ackBatch" =>
         /\ Unresolved(batches[x.k]) \/ Staged(batches[x.k])
         /\ x.row.phase \in {"running", "batches_pending"}
         /\ x.result = "rejected" /\ Staged(batches[x.k]) => a \/ s.aborts > 0
    /\ x.pc = "resolve" \/ (x.pc = "ackFinish" /\ x.result # "pending") =>
         \A k \in DOMAIN batches : Staged(batches[k]) => s.batch[k] = "done"

(* The provider has a batch only after a call, and a finish settles all. *)
TrueProvider(s) ==
    /\ \A k \in Rows : s.batch[k] # "absent" => s.calls[k] > 0
    /\ s.session \in {"finishing", "finished"} => s.finishes > 0
    /\ s.session = "finished" => \A k \in Rows : s.batch[k] # "staged"

RowInv ==
    \A r \in DOMAIN control :
        /\ TrueRow(stream.asynchronous, r, control[r], remote[r])
        /\ control[r].head.run <= r /\ (control[r].phase # "new" => control[r].head.run = r)

SessionInv ==
    \A w \in Workers : Working(w) => TrueSession(stream.asynchronous, worker[w], remote[worker[w].run])

(* A run has one reader, who keeps it from being finished by others. *)
ReaderInv ==
    /\ \A w \in Workers : worker[w].pc \in Reading => control[worker[w].run].phase \in Readable
    /\ \A v, w \in Workers :
         worker[v].pc \in Reading /\ worker[w].pc \in Reading /\ worker[v].run = worker[w].run => v = w

ProviderInv == \A r \in Runs : TrueProvider(remote[r])

TruthInv == RowInv /\ SessionInv /\ ReaderInv /\ ProviderInv

(* What the provider has taken it keeps, and what is staged stays so until a   *)
(* finish or an abort, unless jobs end on their own.                           *)
Grows(a, s, t) ==
    /\ \A k \in Rows : s.batch[k] = "done" => t.batch[k] = "done"
    /\ ~a => \A k \in Rows : s.batch[k] \in {"staged", "done"} => t.batch[k] \in {"staged", "done"} \/ t.aborts > 0
    /\ s.aborts > 0 => t.aborts > 0

(* A step of w changes only its session, its run's row and its run's provider session. *)
Frame(w) ==
    /\ stream' = stream /\ DOMAIN control' = DOMAIN control
    /\ \A v \in Workers \ {w} : worker'[v] = worker[v]
    /\ \A q \in DOMAIN control \ {worker[w].run} : control'[q] = control[q]
    /\ \A q \in Runs \ {worker[w].run} : remote'[q] = remote[q]

(* Nothing said of the provider is outdated by its growth. *)
LEMMA RowGrows ==
    ASSUME NEW a, NEW r, NEW row, NEW s, NEW t, TrueRow(a, r, row, s), Grows(a, s, t)
    PROVE  TrueRow(a, r, row, t)
<1> SUFFICES ASSUME row.head.run = r, NEW k \in DOMAIN row.head.batches
             PROVE  TrueBatch(a, row.head.batches[k], row.phase, t.batch[k], t)
  BY DEF TrueRow
<1>1. k \in Rows /\ TrueBatch(a, row.head.batches[k], row.phase, s.batch[k], s)
  BY DEF TrueRow
<1> QED
  BY <1>1 DEF TrueBatch, Grows

(* Nor what a session knows. *)
LEMMA SessionGrows ==
    ASSUME NEW a, NEW x, NEW s, NEW t, TrueSession(a, x, s), Grows(a, s, t)
    PROVE  TrueSession(a, x, t)
<1>1. TrueRow(a, x.run, x.row, s) /\ TrueRow(a, x.run, x.row, t)
  BY RowGrows DEF TrueSession
<1>2. x.pc # "open" => \A k \in DOMAIN x.row.head.batches : k \in Rows
  BY <1>1 DEF TrueSession, TrueRow
<1>3. TrueResult(a, x, s) /\ x.pc # "open" => TrueResult(a, x, t)
  BY <1>2 DEF TrueResult, Grows
<1>4. x.pc \in {"ack", "ackBatch"} => TrueResult(a, x, t)
  BY <1>3 DEF TrueSession
<1>5. x.pc = "resolve" \/ (x.pc = "ackFinish" /\ x.result # "pending") =>
         \A k \in DOMAIN x.row.head.batches : Staged(x.row.head.batches[k]) => t.batch[k] = "done"
  BY <1>2 DEF TrueSession, Grows
<1>6. x.pc = "ackBatch" =>
         /\ Unresolved(x.row.head.batches[x.k]) \/ Staged(x.row.head.batches[x.k])
         /\ x.row.phase \in {"running", "batches_pending"}
         /\ x.result = "rejected" /\ Staged(x.row.head.batches[x.k]) => a \/ t.aborts > 0
  BY DEF TrueSession, Grows
<1> QED
  BY <1>1, <1>4, <1>5, <1>6 DEF TrueSession

(* A worker's step keeps the truth if what it records is true. *)
LEMMA TruthStep ==
    ASSUME Inv, Inv', TruthInv, NEW w \in Workers, Working(w), Frame(w),
           NEW new, new = control'[worker[w].run], NEW s, s = remote'[worker[w].run],
           Grows(stream.asynchronous, remote[worker[w].run], s), TrueProvider(s),
           TrueRow(stream.asynchronous, worker[w].run, new, s),
           new.head.run <= worker[w].run, new.phase # "new" => new.head.run = worker[w].run,
           Working(w)' => worker'[w].run = worker[w].run /\ TrueSession(stream.asynchronous, worker'[w], s),
           worker'[w].pc \in Reading =>
               new.phase \in Readable /\ (worker[w].pc \in Reading \/ Stored(w).phase \notin Readable),
           worker[w].pc \notin Reading /\ Stored(w).phase \in Readable => new.phase \in Readable
    PROVE  TruthInv'
<1> DEFINE r == worker[w].run
           a == stream.asynchronous
<1>1. RowInv /\ SessionInv /\ ReaderInv /\ ProviderInv
  BY DEF TruthInv
<1>2. r \in DOMAIN control /\ r \in Runs
  BY Facts DEF Inv
<1>3. DOMAIN control \subseteq Runs /\ a' = a
  BY ConstantsAssumption DEF Inv, TypeInv, ControlType, Frame, Runs
<1>4. RowInv'
  <2> SUFFICES ASSUME NEW q \in DOMAIN control
               PROVE  /\ TrueRow(a, q, control'[q], remote'[q])
                      /\ control'[q].head.run <= q /\ (control'[q].phase # "new" => control'[q].head.run = q)
    BY <1>3 DEF RowInv, Frame
  <2>1. CASE q = r
    BY <2>1
  <2>2. CASE q # r
    <3>1. control'[q] = control[q] /\ remote'[q] = remote[q]
      BY <1>3, <2>2 DEF Frame
    <3> QED
      BY <1>1, <3>1 DEF RowInv
  <2> QED
    BY <2>1, <2>2
<1>5. SessionInv'
  <2> SUFFICES ASSUME NEW v \in Workers, Working(v)'
               PROVE  TrueSession(a, worker'[v], remote'[worker'[v].run])
    BY <1>3 DEF SessionInv
  <2>1. CASE v = w
    BY <2>1
  <2>2. CASE v # w
    <3>1. worker'[v] = worker[v] /\ Working(v)
      BY <2>2 DEF Frame, Working
    <3>2. worker[v].run \in Runs
      BY <3>1, Facts DEF Inv
    <3>3. TrueSession(a, worker[v], remote[worker[v].run])
      BY <1>1, <3>1 DEF SessionInv
    <3>4. CASE worker[v].run = r
      BY <3>1, <3>3, <3>4, SessionGrows
    <3>5. CASE worker[v].run # r
      BY <3>1, <3>2, <3>3, <3>5 DEF Frame
    <3> QED
      BY <3>4, <3>5
  <2> QED
    BY <2>1, <2>2
<1>6. ReaderInv'
  <2>1. ASSUME NEW v \in Workers \ {w}, worker'[v].pc \in Reading
        PROVE  /\ worker'[v] = worker[v] /\ worker[v].run \in DOMAIN control
               /\ control[worker[v].run].phase \in Readable
    <3>1. worker'[v] = worker[v] /\ Working(v)
      BY <2>1 DEF Frame, Working, Reading
    <3> QED
      BY <1>1, <2>1, <3>1, Facts DEF ReaderInv, Inv
  <2>2. worker'[w].pc \in Reading => worker'[w].run = r
    BY DEF Working, Reading
  <2>3. ASSUME NEW v \in Workers, worker'[v].pc \in Reading
        PROVE  control'[worker'[v].run].phase \in Readable
    <3>1. CASE v = w
      BY <2>2, <2>3, <3>1
    <3>2. CASE v # w /\ worker[v].run = r
      <4>1. worker[w].pc \notin Reading
        BY <1>1, <2>1, <2>3, <3>2 DEF ReaderInv
      <4> QED
        BY <2>1, <2>3, <3>2, <4>1 DEF Stored
    <3>3. CASE v # w /\ worker[v].run # r
      BY <2>1, <2>3, <3>3 DEF Frame
    <3> QED
      BY <3>1, <3>2, <3>3
  <2>4. ASSUME NEW u \in Workers, NEW v \in Workers, worker'[u].pc \in Reading, worker'[v].pc \in Reading,
               worker'[u].run = worker'[v].run
        PROVE  u = v
    <3>1. CASE u # w /\ v # w
      BY <1>1, <2>1, <2>4, <3>1 DEF ReaderInv
    <3>2. CASE u = w /\ v # w
      BY <1>1, <2>1, <2>2, <2>4, <3>2 DEF ReaderInv, Stored
    <3>3. CASE u # w /\ v = w
      BY <1>1, <2>1, <2>2, <2>4, <3>3 DEF ReaderInv, Stored
    <3> QED
      BY <3>1, <3>2, <3>3
  <2> QED
    BY <2>3, <2>4 DEF ReaderInv
<1>7. ProviderInv'
  BY <1>1, <1>2 DEF ProviderInv, Frame
<1> QED
  BY <1>4, <1>5, <1>6, <1>7 DEF TruthInv

(* What is true before a worker's step. *)
LEMMA TruthFacts ==
    ASSUME Inv, TruthInv, NEW w \in Workers, Working(w)
    PROVE  /\ TrueRow(stream.asynchronous, worker[w].run, Stored(w), remote[worker[w].run])
           /\ TrueSession(stream.asynchronous, worker[w], remote[worker[w].run])
           /\ TrueProvider(remote[worker[w].run])
           /\ Stored(w).head.run <= worker[w].run
           /\ Stored(w).phase # "new" => Stored(w).head.run = worker[w].run
           /\ worker[w].pc \in Reading => Stored(w).phase \in Readable
           /\ worker[w].pc # "open" => Known(w).head.run = worker[w].run /\ Stored(w).head.run = worker[w].run
           /\ TrueRow(stream.asynchronous, worker[w].run, Known(w), remote[worker[w].run])
<1>1. worker[w].run \in DOMAIN control /\ worker[w].run \in Runs
  BY Facts DEF Inv
<1>2. /\ TrueRow(stream.asynchronous, worker[w].run, Stored(w), remote[worker[w].run])
      /\ Stored(w).head.run <= worker[w].run
      /\ Stored(w).phase # "new" => Stored(w).head.run = worker[w].run
  BY <1>1 DEF TruthInv, RowInv, Stored
<1>3. TrueSession(stream.asynchronous, worker[w], remote[worker[w].run])
  BY DEF TruthInv, SessionInv
<1>4. TrueProvider(remote[worker[w].run])
  BY <1>1 DEF TruthInv, ProviderInv
<1>5. worker[w].pc \in Reading => Stored(w).phase \in Readable
  BY DEF TruthInv, ReaderInv, Stored
<1>6. worker[w].pc # "open" => Stored(w).head.run = worker[w].run
  BY OwnJournal DEF Working
<1>7. /\ worker[w].pc # "open" => Known(w).head.run = worker[w].run
      /\ TrueRow(stream.asynchronous, worker[w].run, Known(w), remote[worker[w].run])
  BY <1>3 DEF TrueSession, Known
<1> QED
  BY <1>2, <1>3, <1>4, <1>5, <1>6, <1>7

(* A session at a step that needs nothing but the journal. *)
LEMMA TrueGoesOn ==
    ASSUME NEW a, NEW x, NEW s, TrueRow(a, x.run, x.row, s), x.row.head.run = x.run,
           x.pc \in {"recover", "detach", "cleanup", "finish", "commit", "abort", "ackAbort"}
    PROVE  TrueSession(a, x, s)
  BY DEF TrueSession, Reading

(* A step that only changes the session. *)
LEMMA TruthLocal ==
    ASSUME Inv, Inv', TruthInv, NEW w \in Workers, Working(w), UNCHANGED <<stream, control, remote>>,
           NEW session, worker' = [worker EXCEPT ![w] = session],
           \/ session = Idle
           \/ /\ session.run = worker[w].run
              /\ TrueSession(stream.asynchronous, session, remote[worker[w].run])
              /\ session.pc \in Reading => worker[w].pc \in Reading
    PROVE  TruthInv'
<1>1. WorkerType
  BY DEF Inv, TypeInv
<1>2. worker'[w] = session /\ \A v \in Workers \ {w} : worker'[v] = worker[v]
  BY <1>1 DEF WorkerType
<1>3. Frame(w) /\ control'[worker[w].run] = Stored(w) /\ remote'[worker[w].run] = remote[worker[w].run]
  BY <1>2 DEF Frame, Stored
<1>4. Grows(stream.asynchronous, remote[worker[w].run], remote[worker[w].run])
  BY DEF Grows
<1>5. session = Idle => session.pc = "idle" /\ session.pc \notin Reading
  BY DEF Idle, Reading
<1>6. worker[w].pc \in Reading => Stored(w).phase \in Readable
  BY TruthFacts
<1>7. Working(w)' => /\ worker'[w].run = worker[w].run
                     /\ TrueSession(stream.asynchronous, worker'[w], remote[worker[w].run])
  BY <1>2, <1>5 DEF Working
<1>8. worker'[w].pc \in Reading => worker[w].pc \in Reading
  BY <1>2, <1>5
<1> QED
  BY <1>3, <1>4, <1>6, <1>7, <1>8, TruthFacts, TruthStep

(* A worker that stops. *)
LEMMA TruthStop ==
    ASSUME Inv, Inv', TruthInv, NEW w \in Workers, Working(w), UNCHANGED <<stream, control, remote>>, Stop(w)
    PROVE  TruthInv'
  BY TruthLocal DEF Stop

(* The catch block leaves the journal to the cleanup. *)
LEMMA TruthCleanup ==
    ASSUME Inv, Inv', TruthInv, NEW w \in Workers, worker[w].pc \notin {"idle", "open"}, NEW staged,
           UNCHANGED <<stream, control, remote>>, worker' = [worker EXCEPT ![w] = Cleanup(w, staged)]
    PROVE  TruthInv'
<1> DEFINE session == [worker[w] EXCEPT !.pc = "cleanup"]
<1>1. Working(w) /\ worker[w] \in Sessions
  BY Facts DEF Inv, Working
<1>2. session.run = worker[w].run /\ session.row = Known(w) /\ session.pc = "cleanup"
  BY <1>1 DEF Sessions, Known
<1>3. TrueSession(stream.asynchronous, session, remote[worker[w].run]) /\ session.pc \notin Reading
  <2> HIDE DEF session
  <2>1. /\ TrueRow(stream.asynchronous, worker[w].run, Known(w), remote[worker[w].run])
        /\ Known(w).head.run = worker[w].run
    BY <1>1, TruthFacts
  <2> QED
    BY <1>2, <2>1, TrueGoesOn DEF Reading
<1> HIDE DEF session
<1>4. worker' = [worker EXCEPT ![w] = Idle] \/ worker' = [worker EXCEPT ![w] = session]
  BY DEF Cleanup, session
<1> QED
  BY <1>1, <1>2, <1>3, <1>4, TruthLocal

(* A journal transition of a worker past the opening. *)
LEMMA TruthPublish ==
    ASSUME Inv, Inv', TruthInv, NEW w \in Workers, Working(w), UNCHANGED <<stream, remote>>,
           NEW new, control' = [control EXCEPT ![worker[w].run] = new], new.head.run = worker[w].run,
           TrueRow(stream.asynchronous, worker[w].run, new, remote[worker[w].run]),
           NEW session, worker' = [worker EXCEPT ![w] = session],
           \/ session = Idle
           \/ /\ session.run = worker[w].run
              /\ TrueSession(stream.asynchronous, session, remote[worker[w].run]),
           session.pc \in Reading =>
               new.phase \in Readable /\ (worker[w].pc \in Reading \/ Stored(w).phase \notin Readable),
           worker[w].pc \notin Reading /\ Stored(w).phase \in Readable => new.phase \in Readable
    PROVE  TruthInv'
<1>1. TypeInv /\ worker[w].run \in DOMAIN control /\ worker[w].run \in Runs
  BY Facts DEF Inv
<1>2. worker'[w] = session /\ \A v \in Workers \ {w} : worker'[v] = worker[v]
  BY <1>1 DEF TypeInv, WorkerType
<1>3. /\ DOMAIN control' = DOMAIN control /\ control'[worker[w].run] = new
      /\ \A q \in DOMAIN control \ {worker[w].run} : control'[q] = control[q]
  BY <1>1 DEF TypeInv, ControlType
<1>4. Frame(w) /\ remote'[worker[w].run] = remote[worker[w].run]
  BY <1>2, <1>3 DEF Frame
<1>5. Grows(stream.asynchronous, remote[worker[w].run], remote[worker[w].run])
  BY DEF Grows
<1>6. session = Idle => session.pc = "idle"
  BY DEF Idle
<1>7. Working(w)' => /\ worker'[w].run = worker[w].run
                     /\ TrueSession(stream.asynchronous, worker'[w], remote[worker[w].run])
  BY <1>2, <1>6 DEF Working
<1>8. TrueProvider(remote[worker[w].run]) /\ new.head.run <= worker[w].run
  BY <1>1, TruthFacts DEF Runs
<1> QED
  BY <1>2, <1>3, <1>4, <1>5, <1>7, <1>8, TruthStep

(* A provider call. *)
LEMMA TruthCall ==
    ASSUME Inv, Inv', TruthInv, NEW w \in Workers, Working(w), UNCHANGED <<stream, control>>,
           NEW s, remote' = [remote EXCEPT ![worker[w].run] = s],
           Grows(stream.asynchronous, remote[worker[w].run], s), TrueProvider(s),
           NEW session, worker' = [worker EXCEPT ![w] = session],
           \/ session = Idle
           \/ session.run = worker[w].run /\ TrueSession(stream.asynchronous, session, s),
           session.pc \in Reading => worker[w].pc \in Reading
    PROVE  TruthInv'
<1>1. TypeInv /\ worker[w].run \in DOMAIN control /\ worker[w].run \in Runs
  BY Facts DEF Inv
<1>2. worker'[w] = session /\ \A v \in Workers \ {w} : worker'[v] = worker[v]
  BY <1>1 DEF TypeInv, WorkerType
<1>3. remote'[worker[w].run] = s /\ \A q \in Runs \ {worker[w].run} : remote'[q] = remote[q]
  BY <1>1 DEF TypeInv, RemoteType
<1>4. Frame(w) /\ control'[worker[w].run] = Stored(w)
  BY <1>2, <1>3 DEF Frame, Stored
<1>5. session = Idle => session.pc = "idle"
  BY DEF Idle
<1>6. Working(w)' => worker'[w].run = worker[w].run /\ TrueSession(stream.asynchronous, worker'[w], s)
  BY <1>2, <1>5 DEF Working
<1>7. TrueRow(stream.asynchronous, worker[w].run, Stored(w), s)
  BY TruthFacts, RowGrows
<1> QED
  BY <1>2, <1>3, <1>4, <1>6, <1>7, TruthFacts, TruthStep

(* Failures, and reading the saved state. *)
LEMMA FailuresTrue ==
    ASSUME Inv, Inv', TruthInv, NEW w \in Workers, UNCHANGED stream,
           Crash(w) \/ Interrupt(w) \/ PublishRefused(w) \/ AssertReady(w)
    PROVE  TruthInv'
<1>1. CASE Crash(w) \/ PublishRefused(w)
  BY <1>1, TruthStop DEF Crash, PublishRefused, Working
<1>2. CASE Interrupt(w)
  BY <1>2, TruthCleanup DEF Interrupt
<1>3. CASE AssertReady(w)
  <2> DEFINE session == [worker[w] EXCEPT !.pc = "start",
                                          !.point = IF stream.cursor THEN saved.point ELSE NoPoint,
                                          !.read = IF stream.cursor THEN saved.point.cursor ELSE 0]
  <2>1. worker[w].pc = "ready" /\ Working(w) /\ TypeInv
    BY <1>3 DEF AssertReady, Working, Inv
  <2>2. worker[w] \in Sessions
    BY <2>1, Facts
  <2>3. session.run = worker[w].run /\ session.row = Known(w) /\ session.pc = "start"
    BY <2>2 DEF Sessions, Known
  <2>4. worker' = [worker EXCEPT ![w] = session]
    BY <1>3, <2>1 DEF AssertReady, TypeInv, WorkerType
  <2> HIDE DEF session
  <2>5. /\ TrueRow(stream.asynchronous, worker[w].run, Known(w), remote[worker[w].run])
        /\ Known(w).head.run = worker[w].run
    BY <2>1, TruthFacts
  <2>6. Known(w).head.batches = <<>>
    BY <2>1, TruthFacts DEF TrueSession, Known
  <2>7. TrueSession(stream.asynchronous, session, remote[worker[w].run]) /\ session.pc \notin Reading
    BY <2>3, <2>5, <2>6 DEF TrueSession, Reading
  <2> QED
    BY <1>3, <2>1, <2>3, <2>4, <2>7, TruthLocal DEF AssertReady
<1> QED
  BY <1>1, <1>2, <1>3

(* A row of a run that has no batches yet. *)
LEMMA EmptyRow ==
    ASSUME NEW a, NEW r, NEW row, row.head.batches = <<>>, NEW s
    PROVE  TrueRow(a, r, row, s)
  BY DEF TrueRow

(* ObjectJournal.open() *)
LEMMA OpenJournalTrue ==
    ASSUME Inv, Inv', TruthInv, NEW w \in Workers, UNCHANGED stream, OpenJournal(w)
    PROVE  TruthInv'
<1> DEFINE pc == IF worker[w].recovered THEN "recover" ELSE "ready"
           head == Known(w).head
           baseline == head.baseline \cup RowsOf(head.batches, Accepted) \cup RowsOf(head.batches, Staged)
           session == [worker[w] EXCEPT !.pc = pc]
           compact == [run |-> worker[w].run, baseline |-> baseline, batches |-> <<>>]
           new == [Stored(w) EXCEPT !.head = compact]
           next == [session EXCEPT !.row = new]
<1>1. worker[w].pc = "open" /\ Working(w) /\ TypeInv /\ UNCHANGED remote
  BY DEF OpenJournal, Working, Inv
<1>2. worker[w] \in Sessions /\ Stored(w) \in ControlRows
  BY <1>1, Facts
<1>3. \/ head.run = worker[w].run /\ worker' = [worker EXCEPT ![w] = session] /\ UNCHANGED control
      \/ control' = [control EXCEPT ![worker[w].run] = new] /\ worker' = [worker EXCEPT ![w] = next]
      \/ Stop(w) /\ UNCHANGED control
  BY DEF OpenJournal, Goto, Publish
<1>4. session.run = worker[w].run /\ session.row = Known(w) /\ session.pc = pc
  BY <1>2 DEF Sessions, Known
<1>5. /\ TrueRow(stream.asynchronous, worker[w].run, Known(w), remote[worker[w].run])
      /\ TrueSession(stream.asynchronous, worker[w], remote[worker[w].run])
  BY <1>1, TruthFacts
<1>6. CASE head.run = worker[w].run /\ worker' = [worker EXCEPT ![w] = session] /\ UNCHANGED control
  <2>1. pc \in {"recover", "ready"} /\ (pc = "ready" => ~worker[w].recovered)
    OBVIOUS
  <2>2. ~worker[w].recovered => Known(w).phase = "new"
    BY <1>1, <1>5 DEF TrueSession, Known
  <2>3. pc = "ready" => Known(w).head.batches = <<>>
    BY <1>5, <1>6, <2>1, <2>2 DEF TrueRow
  <2> HIDE DEF session, pc
  <2>4. TrueSession(stream.asynchronous, session, remote[worker[w].run]) /\ session.pc \notin Reading
    BY <1>4, <1>5, <1>6, <2>1, <2>3 DEF TrueSession, Reading
  <2> QED
    BY <1>1, <1>4, <1>6, <2>4, TruthLocal
<1>7. CASE control' = [control EXCEPT ![worker[w].run] = new] /\ worker' = [worker EXCEPT ![w] = next]
  <2>1. /\ new.head = compact /\ new.phase = Stored(w).phase
        /\ next.run = worker[w].run /\ next.row = new /\ next.pc = pc
    BY <1>2, <1>4 DEF Sessions, ControlRows
  <2>2. compact.run = worker[w].run /\ compact.batches = <<>> /\ pc \in {"recover", "ready"}
    OBVIOUS
  <2> HIDE DEF new, next, compact, pc
  <2>3. TrueRow(stream.asynchronous, worker[w].run, new, remote[worker[w].run])
    BY <2>1, <2>2, EmptyRow
  <2>4. TrueSession(stream.asynchronous, next, remote[worker[w].run]) /\ next.pc \notin Reading
    BY <2>1, <2>2, <2>3 DEF TrueSession, Reading
  <2> QED
    BY <1>1, <1>7, <2>1, <2>2, <2>3, <2>4, TruthPublish
<1>8. CASE Stop(w) /\ UNCHANGED control
  BY <1>1, <1>8, TruthStop
<1> QED
  BY <1>3, <1>6, <1>7, <1>8

(* The initialization, up to the first read. *)
LEMMA InitPhasesTrue ==
    ASSUME Inv, Inv', TruthInv, NEW w \in Workers, UNCHANGED stream,
           PrepareInit(w) \/ CallInit(w) \/ AcknowledgeInit(w)
    PROVE  TruthInv'
<1>1. worker[w].pc \in {"start", "init", "ackInit"} /\ Working(w) /\ TypeInv
  BY DEF PrepareInit, CallInit, AcknowledgeInit, Working, Inv
<1>2. /\ worker[w] \in Sessions /\ Stored(w) \in ControlRows /\ remote[worker[w].run] \in RemoteRows
      /\ worker[w].read \in Nat
  BY <1>1, Facts DEF Sessions
<1>3. /\ Known(w).head.batches = <<>> /\ Known(w).head.run = worker[w].run
      /\ Stored(w).head.run = worker[w].run
      /\ TrueRow(stream.asynchronous, worker[w].run, Known(w), remote[worker[w].run])
  BY <1>1, TruthFacts DEF TrueSession, Known
<1>4. CASE PrepareInit(w)
  <2> DEFINE new == [Stored(w) EXCEPT !.phase = "init_prepared"]
             next == [[worker[w] EXCEPT !.pc = "init"] EXCEPT !.row = new]
  <2>1. Stored(w).phase = "new" /\ Stored(w).head = Known(w).head
    BY <1>4 DEF PrepareInit, Publishable, Stored, Known
  <2>2. /\ new.head = Known(w).head /\ new.phase = "init_prepared"
        /\ next.run = worker[w].run /\ next.row = new /\ next.pc = "init"
    BY <1>2, <2>1 DEF Sessions, ControlRows
  <2>3. control' = [control EXCEPT ![worker[w].run] = new] /\ worker' = [worker EXCEPT ![w] = next]
    BY <1>4 DEF PrepareInit, Publish
  <2> HIDE DEF new, next
  <2>4. TrueRow(stream.asynchronous, worker[w].run, new, remote[worker[w].run])
    BY <1>3, <2>2, EmptyRow
  <2>5. TrueSession(stream.asynchronous, next, remote[worker[w].run]) /\ next.pc \notin Reading
    BY <1>3, <2>2, <2>4 DEF TrueSession, Reading
  <2>6. Stored(w).phase \notin Readable
    BY <2>1 DEF Readable, AbortSide
  <2> QED
    BY <1>1, <1>3, <1>4, <2>2, <2>3, <2>4, <2>5, <2>6, TruthPublish DEF PrepareInit
<1>5. CASE AcknowledgeInit(w)
  <2> DEFINE new == [Stored(w) EXCEPT !.phase = "running"]
             next == [[worker[w] EXCEPT !.pc = "read"] EXCEPT !.row = new]
  <2>1. Stored(w).phase = "init_prepared" /\ Stored(w).head = Known(w).head
    BY <1>5 DEF AcknowledgeInit, Publishable, Stored, Known
  <2>2. /\ new.head = Known(w).head /\ new.phase = "running"
        /\ next.run = worker[w].run /\ next.row = new /\ next.pc = "read" /\ next.read = worker[w].read
    BY <1>2, <2>1 DEF Sessions, ControlRows
  <2>3. control' = [control EXCEPT ![worker[w].run] = new] /\ worker' = [worker EXCEPT ![w] = next]
    BY <1>5 DEF AcknowledgeInit, Publish
  <2> HIDE DEF new, next
  <2>4. TrueRow(stream.asynchronous, worker[w].run, new, remote[worker[w].run])
    BY <1>3, <2>2, EmptyRow
  <2>5. TrueReader(next)
    BY <1>2, <1>3, <2>2 DEF TrueReader, Sending, Readable
  <2>6. TrueSession(stream.asynchronous, next, remote[worker[w].run])
    BY <1>3, <2>2, <2>4, <2>5 DEF TrueSession
  <2>7. Stored(w).phase \notin Readable /\ new.phase \in Readable
    BY <2>1, <2>2 DEF Readable, AbortSide
  <2> QED
    BY <1>1, <1>3, <1>5, <2>2, <2>3, <2>4, <2>6, <2>7, TruthPublish DEF AcknowledgeInit
<1>6. CASE CallInit(w)
  <2> DEFINE s(x) == [remote[worker[w].run] EXCEPT !.session = x]
             session == [worker[w] EXCEPT !.pc = "ackInit"]
  <2>1. PICK x \in {"none", "open"} : remote' = [remote EXCEPT ![worker[w].run] = s(x)]
    BY <1>6 DEF CallInit
  <2>2. /\ s(x).session = x /\ s(x).batch = remote[worker[w].run].batch
        /\ s(x).calls = remote[worker[w].run].calls /\ s(x).aborts = remote[worker[w].run].aborts
    BY <1>2 DEF RemoteRows
  <2>3. session.run = worker[w].run /\ session.row = Known(w) /\ session.pc = "ackInit"
    BY <1>2 DEF Sessions, Known
  <2>4. worker' = [worker EXCEPT ![w] = session] \/ worker' = [worker EXCEPT ![w] = Idle]
    BY <1>6 DEF CallInit, Goto, Stop
  <2> HIDE DEF s, session
  <2>5. Grows(stream.asynchronous, remote[worker[w].run], s(x)) /\ TrueProvider(s(x))
    BY <1>1, <2>1, <2>2, TruthFacts DEF Grows, TrueProvider
  <2>6. TrueSession(stream.asynchronous, session, s(x)) /\ session.pc \notin Reading
    BY <1>3, <2>3, EmptyRow DEF TrueSession, Reading
  <2>7. Idle.pc \notin Reading
    BY DEF Idle, Reading
  <2> QED
    BY <1>1, <1>6, <2>1, <2>3, <2>4, <2>5, <2>6, <2>7, TruthCall DEF CallInit
<1> QED
  BY <1>4, <1>5, <1>6

(* What a receipt changes. *)
LEMMA ReceiptBatch ==
    ASSUME NEW row \in ControlRows, NEW k \in DOMAIN row.head.batches,
           NEW out \in {"none", "accepted", "staged", "rejected"}
    PROVE  LET new == WithReceipt(row, k, out) IN
           /\ DOMAIN new.head.batches = DOMAIN row.head.batches
           /\ new.head.batches[k].status = "acknowledged" /\ new.head.batches[k].out = out
           /\ \A j \in DOMAIN row.head.batches \ {k} : new.head.batches[j] = row.head.batches[j]
<1> DEFINE old == row.head.batches
           batch == [old[k] EXCEPT !.status = "acknowledged", !.out = out]
           batches == [old EXCEPT ![k] = batch]
           head == [row.head EXCEPT !.batches = batches]
<1>1. row.head \in Heads /\ old \in Seq(Batches)
  BY DEF ControlRows, Heads
<1>2. batch.status = "acknowledged" /\ batch.out = out
  <2>1. old[k] \in Batches
    BY <1>1
  <2> QED
    BY <2>1 DEF Batches
<1>3. DOMAIN batches = DOMAIN old /\ batches[k] = batch /\ \A j \in DOMAIN old \ {k} : batches[j] = old[j]
  BY <1>1
<1>4. head.batches = batches
  BY <1>1 DEF Heads
<1>5. WithReceipt(row, k, out) = [row EXCEPT !.head = head]
  BY DEF WithReceipt
<1>6. [row EXCEPT !.head = head].head = head
  BY DEF ControlRows
<1> HIDE DEF batch, batches, head
<1> QED
  BY <1>2, <1>3, <1>4, <1>5, <1>6

(* A true receipt keeps the row true. *)
LEMMA ReceiptTrue ==
    ASSUME NEW a, NEW r, NEW row \in ControlRows, NEW s, TrueRow(a, r, row, s), row.head.run = r,
           NEW k \in DOMAIN row.head.batches, NEW out \in {"accepted", "staged", "rejected"},
           NEW b, b.status = "acknowledged", b.out = out, TrueBatch(a, b, row.phase, s.batch[k], s)
    PROVE  TrueRow(a, r, WithReceipt(row, k, out), s)
<1> DEFINE new == WithReceipt(row, k, out)
<1>1. /\ DOMAIN new.head.batches = DOMAIN row.head.batches
      /\ new.head.batches[k].status = "acknowledged" /\ new.head.batches[k].out = out
      /\ \A j \in DOMAIN row.head.batches \ {k} : new.head.batches[j] = row.head.batches[j]
  BY ReceiptBatch
<1>2. new.phase = row.phase
  BY ReceiptRow
<1>3. row.phase \notin {"new", "init_prepared"}
  BY DEF TrueRow
<1> HIDE DEF new
<1>4. TrueBatch(a, new.head.batches[k], row.phase, s.batch[k], s)
  BY <1>1 DEF TrueBatch, Accepted, Staged, Rejected
<1>5. \A j \in DOMAIN row.head.batches : TrueBatch(a, new.head.batches[j], row.phase, s.batch[j], s)
  BY <1>1, <1>4 DEF TrueRow
<1>6. DOMAIN row.head.batches \subseteq Rows
  BY DEF TrueRow
<1>7. TrueRow(a, r, new, s)
  BY <1>1, <1>2, <1>3, <1>5, <1>6 DEF TrueRow
<1> QED
  BY <1>7 DEF new

(* A run somebody reads is not being finished. *)
LEMMA ReadableSides ==
    ASSUME NEW phase \in Readable
    PROVE  phase \notin FinishSide /\ phase \notin Confirmed /\ phase \notin {"new", "init_prepared", "batches_pending"}
  BY DEF Readable, AbortSide, FinishSide, Confirmed

(* prepare(): a new batch has no receipt and a number within the rows read. *)
LEMMA PrepareTrue ==
    ASSUME Inv, Inv', TruthInv, NEW w \in Workers, UNCHANGED stream, Prepare(w)
    PROVE  TruthInv'
<1>1. worker[w].pc = "read" /\ Working(w) /\ TypeInv /\ UNCHANGED remote
  BY DEF Prepare, Working, Inv
<1>2. /\ worker[w] \in Sessions /\ Stored(w) \in ControlRows /\ Stored(w).head \in Heads
      /\ Stored(w).head.batches \in Seq(Batches) /\ worker[w].read \in Nat
  BY <1>1, Facts DEF Sessions
<1>3. /\ TrueRow(stream.asynchronous, worker[w].run, Stored(w), remote[worker[w].run])
      /\ Stored(w).phase \in Readable /\ Stored(w).head.run = worker[w].run
      /\ TrueReader(worker[w])
  BY <1>1, TruthFacts DEF TrueSession, Reading
<1>4. CASE worker' = [worker EXCEPT ![w] = Cleanup(w, worker[w].staged)] /\ UNCHANGED control
  BY <1>1, <1>4, TruthCleanup
<1> DEFINE b(to) == NextBatch(w, to)
           n(to) == Cardinality(b(to).rows)
           batches(to) == Append(Stored(w).head.batches, b(to))
           row(to) == [Stored(w) EXCEPT !.head.batches = batches(to), !.next = b(to).last]
           step(to) == [worker[w] EXCEPT !.pc = "call", !.read = to, !.k = Len(batches(to)),
                                         !.point = [seq |-> b(to).last, cursor |-> b(to).cursor],
                                         !.since = @ + n(to)]
<1>5. ASSUME NEW to \in Unread(w), Stored(w).head = Known(w).head, Publish(w, row(to), step(to))
      PROVE  TruthInv'
  <2> DEFINE old == Stored(w).head.batches
             head == [Stored(w).head EXCEPT !.batches = batches(to)]
             new == [Stored(w) EXCEPT !.head = head, !.next = b(to).last]
             next == [step(to) EXCEPT !.row = new]
  <2>1. b(to).status = "prepared" /\ b(to).out = "none"
    BY DEF NextBatch
  <2>2. to > worker[w].read /\ to \in 1 .. MaxRows
    BY <1>1, <1>2, ConstantsAssumption DEF Unread, TypeInv
  <2>3. /\ DOMAIN batches(to) = 1 .. (Len(old) + 1) /\ Len(batches(to)) = Len(old) + 1
        /\ batches(to)[Len(old) + 1] = b(to) /\ \A j \in DOMAIN old : batches(to)[j] = old[j]
        /\ DOMAIN old = 1 .. Len(old) /\ Len(old) \in Nat
    BY <1>2
  <2>4. head.run = worker[w].run /\ head.batches = batches(to)
    BY <1>2, <1>3 DEF Heads
  <2>5. new.head = head /\ new.phase = Stored(w).phase
    BY <1>2 DEF ControlRows
  <2>6. row(to) = new
    BY <1>2
  <2>7. /\ next.pc = "call" /\ next.run = worker[w].run /\ next.row = new /\ next.read = to
        /\ next.k = Len(old) + 1 /\ next.staged = worker[w].staged
    BY <1>2, <2>3 DEF Sessions
  <2>8. control' = [control EXCEPT ![worker[w].run] = new] /\ worker' = [worker EXCEPT ![w] = next]
    BY <1>5, <2>6 DEF Publish
  <2> HIDE DEF new, next, head, batches, b
  <2>9. Len(old) <= worker[w].read /\ \A j \in DOMAIN old : Accepted(old[j]) \/ (worker[w].staged /\ Staged(old[j]))
    BY <1>1, <1>3, <1>5 DEF TrueReader, Sending, Known
  <2>10. TrueRow(stream.asynchronous, worker[w].run, new, remote[worker[w].run])
    <3>1. DOMAIN batches(to) \subseteq Rows
      BY <2>2, <2>3, <2>9, <1>2, ConstantsAssumption DEF Rows
    <3>2. TrueBatch(stream.asynchronous, b(to), Stored(w).phase,
                    remote[worker[w].run].batch[Len(old) + 1], remote[worker[w].run])
      BY <1>3, <2>1, ReadableSides DEF TrueBatch, Accepted, Staged, Confirmed, FinishSide
    <3>3. \A j \in DOMAIN old : TrueBatch(stream.asynchronous, old[j], Stored(w).phase,
                    remote[worker[w].run].batch[j], remote[worker[w].run])
      BY <1>3 DEF TrueRow
    <3>4. \A j \in DOMAIN batches(to) : TrueBatch(stream.asynchronous, batches(to)[j], Stored(w).phase,
                    remote[worker[w].run].batch[j], remote[worker[w].run])
      <4> SUFFICES ASSUME NEW j \in DOMAIN batches(to)
                   PROVE  TrueBatch(stream.asynchronous, batches(to)[j], Stored(w).phase,
                                    remote[worker[w].run].batch[j], remote[worker[w].run])
        OBVIOUS
      <4>1. j = Len(old) + 1 \/ j \in DOMAIN old
        BY <2>3
      <4> QED
        BY <2>3, <3>2, <3>3, <4>1
    <3> QED
      BY <1>3, <2>4, <2>5, <3>1, <3>4, ReadableSides DEF TrueRow
  <2>11. TrueReader(next)
    <3>1. next.row.head.batches = batches(to) /\ next.row.phase \in Readable
      BY <1>3, <2>4, <2>5, <2>7
    <3>2. Len(batches(to)) <= next.read
      BY <1>2, <2>2, <2>3, <2>7, <2>9
    <3>3. \A j \in DOMAIN batches(to) :
             j = next.k \/ Accepted(batches(to)[j]) \/ (next.staged /\ Staged(batches(to)[j]))
      BY <2>3, <2>7, <2>9
    <3>4. next.k \in DOMAIN batches(to) /\ batches(to)[next.k].status = "prepared"
      BY <2>1, <2>3, <2>7
    <3> QED
      BY <2>7, <3>1, <3>2, <3>3, <3>4 DEF TrueReader, Sending
  <2>12. TrueSession(stream.asynchronous, next, remote[worker[w].run])
    BY <2>4, <2>5, <2>7, <2>10, <2>11 DEF TrueSession
  <2> QED
    BY <1>1, <1>3, <2>4, <2>5, <2>7, <2>8, <2>10, <2>12, TruthPublish DEF Reading
<1>6. \/ worker' = [worker EXCEPT ![w] = Cleanup(w, worker[w].staged)] /\ UNCHANGED control
      \/ \E to \in Unread(w) : Stored(w).head = Known(w).head /\ Publish(w, row(to), step(to))
  BY DEF Prepare, Publishable, Stored, Known
<1> QED
  BY <1>4, <1>5, <1>6

(* writer.upsert(): the batch was not at the provider before, and the answer is its state there. *)
LEMMA CallBatchTrue ==
    ASSUME Inv, Inv', TruthInv, NEW w \in Workers, UNCHANGED stream, CallBatch(w)
    PROVE  TruthInv'
<1> DEFINE r == worker[w].run
           k == worker[w].k
           S == remote[r]
           t(state) == [S EXCEPT !.batch[k] = state, !.calls[k] = @ + 1]
           answered(result) == [worker[w] EXCEPT !.pc = "ack", !.result = result]
           marked == [worker[w] EXCEPT !.pc = "mark"]
           States == {"absent", "staged", "done", "refused"}
           Truthful(state, result) == /\ result \in {"accepted", "staged", "rejected"}
                                      /\ result = "accepted" => state = "done"
                                      /\ result = "staged" => state = "staged"
<1>1. worker[w].pc = "call" /\ Working(w) /\ TypeInv /\ UNCHANGED control
  BY DEF CallBatch, Working, Inv
<1>2. /\ worker[w] \in Sessions /\ r \in Runs /\ r \in DOMAIN control /\ S \in RemoteRows
  BY <1>1, Facts
<1>3. /\ TrueReader(worker[w]) /\ TrueProvider(S) /\ Known(w).head.run = r
      /\ TrueRow(stream.asynchronous, r, Known(w), S) /\ Stored(w).phase \in Readable
  BY <1>1, TruthFacts DEF TrueSession, Reading
<1>4. k \in DOMAIN Known(w).head.batches /\ k \in Rows
  BY <1>1, <1>3 DEF TrueReader, TrueRow, Sending, Known
<1>5. S.calls[k] = 0 /\ S.batch[k] = "absent"
  BY <1>1, <1>3, <1>4 DEF Inv, CallInv, TrueProvider
<1>6. S.finishes = 0 /\ S.session # "finished"
  <2>1. S.finishes \in Nat /\ ~(S.finishes > 0)
    BY <1>2, <1>3, ReadableSides DEF Inv, FinishInv, Stored, RemoteRows
  <2> QED
    BY <1>3, <2>1 DEF TrueProvider
<1>7. \/ \E state \in States : \E result \in {"accepted", "staged", "rejected"} :
            /\ Truthful(state, result)
            /\ remote' = [remote EXCEPT ![r] = t(state)]
            /\ worker' = [worker EXCEPT ![w] = answered(result)]
      \/ /\ \E state \in States : remote' = [remote EXCEPT ![r] = t(state)]
         /\ worker' = [worker EXCEPT ![w] = marked]
  <2>1. \A x : [remote EXCEPT ![r].batch[k] = x, ![r].calls[k] = @ + 1] = [remote EXCEPT ![r] = t(x)]
    BY <1>1, <1>2 DEF TypeInv, RemoteType
  <2>2. \A a \in Answers : a[1] \in States /\ Truthful(a[1], a[2])
    BY DEF Answers
  <2>3. CASE \E a \in Answers : /\ remote' = [remote EXCEPT ![r].batch[k] = a[1], ![r].calls[k] = @ + 1]
                               /\ worker' = [worker EXCEPT ![w].pc = "ack", ![w].result = a[2]]
    <3>1. PICK a \in Answers : /\ remote' = [remote EXCEPT ![r].batch[k] = a[1], ![r].calls[k] = @ + 1]
                               /\ worker' = [worker EXCEPT ![w].pc = "ack", ![w].result = a[2]]
      BY <2>3
    <3>2. worker' = [worker EXCEPT ![w] = answered(a[2])]
      BY <1>1, <3>1 DEF TypeInv, WorkerType
    <3>3. remote' = [remote EXCEPT ![r] = t(a[1])]
      BY <2>1, <3>1
    <3> HIDE DEF t, answered
    <3> QED
      BY <2>2, <3>2, <3>3
  <2>4. CASE /\ \E a \in Answers \cup {<<"absent", "none">>} :
                    remote' = [remote EXCEPT ![r].batch[k] = a[1], ![r].calls[k] = @ + 1]
             /\ Goto(w, "mark")
    <3>1. PICK a \in Answers \cup {<<"absent", "none">>} :
                    remote' = [remote EXCEPT ![r].batch[k] = a[1], ![r].calls[k] = @ + 1]
      BY <2>4
    <3>2. a[1] \in States
      BY <2>2
    <3> HIDE DEF t
    <3> QED
      BY <2>1, <2>4, <3>1, <3>2 DEF Goto
  <2> QED
    BY <2>3, <2>4 DEF CallBatch
<1>8. ASSUME NEW state \in States
      PROVE  /\ Grows(stream.asynchronous, S, t(state)) /\ TrueProvider(t(state))
             /\ t(state).batch[k] = state
  <2>1. /\ t(state).batch[k] = state /\ \A j \in Rows \ {k} : t(state).batch[j] = S.batch[j]
        /\ t(state).calls[k] = 1 /\ \A j \in Rows \ {k} : t(state).calls[j] = S.calls[j]
    BY <1>2, <1>4, <1>5 DEF RemoteRows
  <2>2. t(state).session = S.session /\ t(state).finishes = S.finishes /\ t(state).aborts = S.aborts
    BY <1>2 DEF RemoteRows
  <2> HIDE DEF t
  <2>3. Grows(stream.asynchronous, S, t(state))
    BY <1>5, <2>1, <2>2 DEF Grows
  <2>4. TrueProvider(t(state))
    BY <1>3, <1>6, <2>1, <2>2 DEF TrueProvider
  <2> QED
    BY <2>1, <2>3, <2>4
<1>9. ASSUME NEW session, session.pc \in {"ack", "mark"}, session.run = r, session.row = Known(w),
             session.k = k, session.read = worker[w].read, session.staged = worker[w].staged
      PROVE  TrueReader(session)
  BY <1>1, <1>3, <1>9 DEF TrueReader, Sending, Known
<1>10. ASSUME NEW state \in States, NEW session, session.pc \in {"ack", "mark"}, session.run = r,
              session.row = Known(w), session.k = k, TrueReader(session),
              session.pc = "ack" => Truthful(state, session.result)
       PROVE  TrueSession(stream.asynchronous, session, t(state))
  <2> HIDE DEF t
  <2>1. TrueRow(stream.asynchronous, r, Known(w), t(state))
    BY <1>3, <1>8, RowGrows
  <2>2. session.pc = "ack" => TrueResult(stream.asynchronous, session, t(state))
    BY <1>4, <1>8, <1>10 DEF TrueResult
  <2> QED
    BY <1>3, <1>10, <2>1, <2>2 DEF TrueSession
<1>11. /\ \A x : /\ answered(x).pc = "ack" /\ answered(x).run = r /\ answered(x).row = Known(w)
                 /\ answered(x).k = k /\ answered(x).read = worker[w].read
                 /\ answered(x).staged = worker[w].staged /\ answered(x).result = x
       /\ marked.pc = "mark" /\ marked.run = r /\ marked.row = Known(w)
       /\ marked.k = k /\ marked.read = worker[w].read /\ marked.staged = worker[w].staged
  BY <1>2 DEF Sessions, Known
<1> HIDE DEF t, answered, marked
<1>12. CASE \E state \in States : \E result \in {"accepted", "staged", "rejected"} :
            /\ Truthful(state, result)
            /\ remote' = [remote EXCEPT ![r] = t(state)]
            /\ worker' = [worker EXCEPT ![w] = answered(result)]
  <2>1. PICK state \in States, result \in {"accepted", "staged", "rejected"} :
            /\ Truthful(state, result)
            /\ remote' = [remote EXCEPT ![r] = t(state)]
            /\ worker' = [worker EXCEPT ![w] = answered(result)]
    BY <1>12
  <2>2. TrueSession(stream.asynchronous, answered(result), t(state))
    BY <1>9, <1>10, <1>11, <2>1
  <2>3. Grows(stream.asynchronous, S, t(state)) /\ TrueProvider(t(state))
    BY <1>8
  <2> QED
    BY <1>1, <1>11, <2>1, <2>2, <2>3, TruthCall DEF Reading
<1>13. CASE /\ \E state \in States : remote' = [remote EXCEPT ![r] = t(state)]
            /\ worker' = [worker EXCEPT ![w] = marked]
  <2>1. PICK state \in States : remote' = [remote EXCEPT ![r] = t(state)]
    BY <1>13
  <2>2. TrueSession(stream.asynchronous, marked, t(state))
    BY <1>9, <1>10, <1>11
  <2>3. Grows(stream.asynchronous, S, t(state)) /\ TrueProvider(t(state))
    BY <1>8
  <2> QED
    BY <1>1, <1>11, <1>13, <2>1, <2>2, <2>3, TruthCall DEF Reading
<1> QED
  BY <1>7, <1>12, <1>13

(* markUnknown() *)
LEMMA MarkUnknownTrue ==
    ASSUME Inv, Inv', TruthInv, NEW w \in Workers, UNCHANGED stream, MarkUnknown(w)
    PROVE  TruthInv'
<1> DEFINE r == worker[w].run
           k == worker[w].k
           row == Stored(w)
           old == row.head.batches
           batch == [old[k] EXCEPT !.status = "unknown"]
           batches == [old EXCEPT ![k] = batch]
           head == [row.head EXCEPT !.batches = batches]
           new == [row EXCEPT !.head = head]
<1>1. worker[w].pc = "mark" /\ Working(w) /\ TypeInv /\ UNCHANGED remote
  BY DEF MarkUnknown, Working, Inv
<1>2. /\ row \in ControlRows /\ row.head \in Heads /\ old \in Seq(Batches) /\ r \in DOMAIN control
  BY <1>1, Facts
<1>3. /\ TrueReader(worker[w]) /\ TrueRow(stream.asynchronous, r, row, remote[r])
      /\ row.phase \in Readable /\ row.head.run = r
  BY <1>1, TruthFacts DEF TrueSession, Reading
<1>4. CASE /\ row.head = Known(w).head
           /\ control' = [control EXCEPT ![r].head.batches[k].status = "unknown"] /\ Stop(w)
  <2>1. k \in DOMAIN old /\ old[k].status = "prepared"
    BY <1>1, <1>3, <1>4 DEF TrueReader, Sending, Known
  <2>2. batch.status = "unknown" /\ batch.out = old[k].out
    <3>1. old[k] \in Batches
      BY <1>2, <2>1
    <3> QED
      BY <3>1 DEF Batches
  <2>3. DOMAIN batches = DOMAIN old /\ batches[k] = batch /\ \A j \in DOMAIN old \ {k} : batches[j] = old[j]
    BY <1>2, <2>1
  <2>4. head.batches = batches /\ head.run = r
    BY <1>2, <1>3 DEF Heads
  <2>5. new.head = head /\ new.phase = row.phase
    BY <1>2 DEF ControlRows
  <2>6. control' = [control EXCEPT ![r] = new]
    BY <1>1, <1>2, <1>4 DEF TypeInv, ControlType, Stored
  <2> HIDE DEF batch, batches, head, new
  <2>7. TrueBatch(stream.asynchronous, batch, row.phase, remote[r].batch[k], remote[r])
    <3>1. TrueBatch(stream.asynchronous, old[k], row.phase, remote[r].batch[k], remote[r])
      BY <1>3, <2>1 DEF TrueRow
    <3> QED
      BY <1>3, <2>1, <2>2, <3>1, ReadableSides DEF TrueBatch, Accepted, Staged, FinishSide, Confirmed
  <2>8. \A j \in DOMAIN old : TrueBatch(stream.asynchronous, batches[j], row.phase, remote[r].batch[j], remote[r])
    BY <1>3, <2>3, <2>7 DEF TrueRow
  <2>9. TrueRow(stream.asynchronous, r, new, remote[r])
    BY <1>3, <2>3, <2>4, <2>5, <2>8, ReadableSides DEF TrueRow
  <2>10. Idle.pc \notin Reading
    BY DEF Idle, Reading
  <2> QED
    BY <1>1, <1>3, <1>4, <2>4, <2>5, <2>6, <2>9, <2>10, TruthPublish DEF Stop
<1>5. CASE UNCHANGED control /\ Stop(w)
  BY <1>1, <1>5, TruthStop
<1> QED
  BY <1>4, <1>5 DEF MarkUnknown, Publishable, Stored, Known

(* acknowledge(): the receipt is the answer of the call. *)
LEMMA AcknowledgeTrue ==
    ASSUME Inv, Inv', TruthInv, NEW w \in Workers, UNCHANGED stream, Acknowledge(w)
    PROVE  TruthInv'
<1> DEFINE r == worker[w].run
           k == worker[w].k
           out == worker[w].result
           staged == worker[w].staged \/ out = "staged"
           receipt == WithReceipt(Stored(w), k, out)
           due == worker[w].since >= CheckpointEvery
           pc == IF due /\ stream.cursor /\ ~staged THEN "checkpoint" ELSE "read"
           failed(new) == [worker[w] EXCEPT !.pc = "cleanup", !.row = new]
           goes(new) == [worker[w] EXCEPT !.pc = pc, !.row = new, !.staged = staged,
                                          !.since = IF due /\ pc = "read" THEN 0 ELSE @]
<1>1. worker[w].pc = "ack" /\ Working(w) /\ TypeInv /\ UNCHANGED remote
  BY DEF Acknowledge, Working, Inv
<1>2. worker[w] \in Sessions /\ Stored(w) \in ControlRows /\ staged \in BOOLEAN
  BY <1>1, Facts DEF Sessions
<1>3. /\ TrueReader(worker[w]) /\ TrueRow(stream.asynchronous, r, Stored(w), remote[r])
      /\ Stored(w).phase \in Readable /\ Stored(w).head.run = r
      /\ TrueResult(stream.asynchronous, worker[w], remote[r])
  BY <1>1, TruthFacts DEF TrueSession, Reading
<1>4. ASSUME Stored(w).head = Known(w).head, NEW new, new = receipt,
             control' = [control EXCEPT ![r] = new],
             \/ out = "rejected" /\ worker' = [worker EXCEPT ![w] = Idle]
             \/ out = "rejected" /\ worker' = [worker EXCEPT ![w] = failed(new)]
             \/ out # "rejected" /\ worker' = [worker EXCEPT ![w] = goes(new)]
      PROVE  TruthInv'
  <2>0. new = WithReceipt(Stored(w), k, out)
    BY <1>4
  <2>1. /\ k \in DOMAIN Stored(w).head.batches /\ out \in {"accepted", "staged", "rejected"}
        /\ out = "accepted" => remote[r].batch[k] = "done"
        /\ out = "staged" /\ ~stream.asynchronous =>
              remote[r].batch[k] \in {"staged", "done"} \/ remote[r].aborts > 0
    BY <1>3, <1>4 DEF TrueResult, Known
  <2> DEFINE b == [status |-> "acknowledged", out |-> out]
  <2>2. TrueBatch(stream.asynchronous, b, Stored(w).phase, remote[r].batch[k], remote[r])
    BY <1>3, <2>1, ReadableSides DEF TrueBatch, Accepted, Staged, Confirmed, FinishSide
  <2>3. TrueRow(stream.asynchronous, r, new, remote[r])
    <3>1. b.status = "acknowledged" /\ b.out = out
      OBVIOUS
    <3> HIDE DEF b, k, out
    <3> QED
      BY <1>2, <1>3, <2>0, <2>1, <2>2, <3>1, ReceiptTrue
  <2>4. /\ new.head.run = r /\ new.phase = Stored(w).phase
    BY <1>2, <1>3, <1>4, <2>1, ReceiptRow
  <2>5. /\ DOMAIN new.head.batches = DOMAIN Stored(w).head.batches
        /\ Len(new.head.batches) = Len(Stored(w).head.batches)
        /\ new.head.batches[k].status = "acknowledged" /\ new.head.batches[k].out = out
        /\ \A j \in DOMAIN Stored(w).head.batches \ {k} : new.head.batches[j] = Stored(w).head.batches[j]
    <3> HIDE DEF k, out
    <3> QED
      BY <1>2, <2>0, <2>1, ReceiptBatch, ReceiptRow
  <2>6. CASE out = "rejected" /\ worker' = [worker EXCEPT ![w] = Idle]
    <3>1. Idle.pc \notin Reading
      BY DEF Idle, Reading
    <3> QED
      BY <1>1, <1>3, <1>4, <2>3, <2>4, <2>6, <3>1, TruthPublish
  <2>7. CASE out = "rejected" /\ worker' = [worker EXCEPT ![w] = failed(new)]
    <3>1. failed(new).run = r /\ failed(new).row = new /\ failed(new).pc = "cleanup"
      BY <1>2 DEF Sessions
    <3> HIDE DEF failed
    <3>2. TrueSession(stream.asynchronous, failed(new), remote[r]) /\ failed(new).pc \notin Reading
      BY <2>3, <2>4, <3>1, TrueGoesOn DEF Reading
    <3> QED
      BY <1>1, <1>3, <1>4, <2>3, <2>4, <2>7, <3>1, <3>2, TruthPublish
  <2>8. CASE out # "rejected" /\ worker' = [worker EXCEPT ![w] = goes(new)]
    <3> DEFINE next == goes(new)
    <3>1. /\ next.run = r /\ next.row = new /\ next.pc = pc /\ next.staged = staged /\ next.read = worker[w].read
      BY <1>2 DEF Sessions
    <3>2. pc \in {"read", "checkpoint"} /\ (pc = "checkpoint" => ~staged)
      OBVIOUS
    <3> HIDE DEF next, pc
    <3>3. \A j \in DOMAIN new.head.batches : Accepted(new.head.batches[j]) \/ (staged /\ Staged(new.head.batches[j]))
      <4>1. Accepted(new.head.batches[k]) \/ (staged /\ Staged(new.head.batches[k]))
        BY <2>1, <2>5, <2>8 DEF Accepted, Staged
      <4>2. \A j \in DOMAIN Stored(w).head.batches \ {k} :
               Accepted(Stored(w).head.batches[j]) \/ (worker[w].staged /\ Staged(Stored(w).head.batches[j]))
        BY <1>3, <1>4 DEF TrueReader, Known
      <4> QED
        BY <2>5, <4>1, <4>2
    <3>4. Len(new.head.batches) <= worker[w].read
      BY <1>3, <1>4, <2>5 DEF TrueReader, Known
    <3>5. TrueReader(next)
      BY <1>3, <2>4, <3>1, <3>2, <3>3, <3>4 DEF TrueReader, Sending
    <3>6. TrueSession(stream.asynchronous, next, remote[r])
      BY <2>3, <2>4, <3>1, <3>2, <3>5 DEF TrueSession
    <3> QED
      BY <1>1, <1>3, <1>4, <2>3, <2>4, <2>8, <3>1, <3>6, TruthPublish DEF Reading, next
  <2> QED
    BY <1>4, <2>6, <2>7, <2>8
<1>5. CASE Stop(w) /\ UNCHANGED control
  BY <1>1, <1>5, TruthStop
<1>6. \/ Stop(w) /\ UNCHANGED control
      \/ /\ Stored(w).head = Known(w).head /\ control' = [control EXCEPT ![r] = receipt]
         /\ \/ out = "rejected" /\ worker' = [worker EXCEPT ![w] = Idle]
            \/ out = "rejected" /\ worker' = [worker EXCEPT ![w] = failed(receipt)]
            \/ out # "rejected" /\ worker' = [worker EXCEPT ![w] = goes(receipt)]
  <2>1. CASE Stop(w) /\ UNCHANGED control
    BY <2>1
  <2>2. CASE /\ Publishable(w, "any") /\ control' = [control EXCEPT ![r] = receipt]
             /\ worker' = [worker EXCEPT ![w] =
                  IF out = "rejected"
                  THEN IF stream.asynchronous /\ worker[w].staged THEN Idle ELSE failed(receipt)
                  ELSE goes(receipt)]
    <3> HIDE DEF failed, goes, receipt
    <3>1. Stored(w).head = Known(w).head
      BY <2>2 DEF Publishable, Stored, Known
    <3>2. CASE out # "rejected"
      BY <2>2, <3>1, <3>2
    <3>3. CASE out = "rejected" /\ stream.asynchronous /\ worker[w].staged
      BY <2>2, <3>1, <3>3
    <3>4. CASE out = "rejected" /\ ~(stream.asynchronous /\ worker[w].staged)
      BY <2>2, <3>1, <3>4
    <3> QED
      BY <3>2, <3>3, <3>4
  <2> QED
    BY <2>1, <2>2 DEF Acknowledge
<1> HIDE DEF failed, goes, receipt
<1> QED
  BY <1>4, <1>5, <1>6

(* A row that keeps its head and its phase, or leaves the phase "running" or     *)
(* "batches_pending" for one that is not on the side of the finish.              *)
LEMMA PhaseTrue ==
    ASSUME NEW a, NEW r, NEW row, NEW new, NEW s, TrueRow(a, r, row, s), new.head = row.head,
           \/ new.phase = row.phase
           \/ /\ row.phase \in {"running", "batches_pending"}
              /\ new.phase \in {"batches_pending", "abort_prepared"}
    PROVE  TrueRow(a, r, new, s)
<1>1. CASE new.phase = row.phase
  BY <1>1 DEF TrueRow
<1>2. CASE row.phase \in {"running", "batches_pending"} /\ new.phase \in {"batches_pending", "abort_prepared"}
  <2> SUFFICES ASSUME row.head.run = r, NEW k \in DOMAIN row.head.batches
               PROVE  TrueBatch(a, row.head.batches[k], new.phase, s.batch[k], s)
    BY <1>2 DEF TrueRow
  <2>1. TrueBatch(a, row.head.batches[k], row.phase, s.batch[k], s)
    BY DEF TrueRow
  <2> QED
    BY <1>2, <2>1 DEF TrueBatch, Confirmed, FinishSide
<1> QED
  BY <1>1, <1>2

(* commitCheckpoint() between batches *)
LEMMA CheckpointTrue ==
    ASSUME Inv, Inv', TruthInv, NEW w \in Workers, UNCHANGED stream, Checkpoint(w)
    PROVE  TruthInv'
<1> DEFINE r == worker[w].run
           new == [Stored(w) EXCEPT !.checkpoint = worker[w].point.seq]
           next == [[worker[w] EXCEPT !.pc = "read", !.since = 0] EXCEPT !.row = new]
<1>1. worker[w].pc = "checkpoint" /\ Working(w) /\ TypeInv /\ UNCHANGED remote
  BY DEF Checkpoint, Working, Inv
<1>2. worker[w] \in Sessions /\ Stored(w) \in ControlRows
  BY <1>1, Facts
<1>3. /\ TrueReader(worker[w]) /\ TrueRow(stream.asynchronous, r, Stored(w), remote[r])
      /\ Stored(w).phase \in Readable /\ Stored(w).head.run = r
  BY <1>1, TruthFacts DEF TrueSession, Reading
<1>4. CASE worker' = [worker EXCEPT ![w] = Cleanup(w, worker[w].staged)] /\ UNCHANGED control
  BY <1>1, <1>4, TruthCleanup
<1>5. CASE /\ Stored(w).head = Known(w).head
           /\ control' = [control EXCEPT ![r] = new] /\ worker' = [worker EXCEPT ![w] = next]
  <2>1. new.head = Stored(w).head /\ new.phase = Stored(w).phase
    BY <1>2 DEF ControlRows
  <2>2. /\ next.pc = "read" /\ next.run = r /\ next.row = new /\ next.staged = worker[w].staged
        /\ next.read = worker[w].read
    BY <1>2 DEF Sessions
  <2> HIDE DEF new, next
  <2>3. TrueRow(stream.asynchronous, r, new, remote[r])
    BY <1>3, <2>1, PhaseTrue
  <2>4. TrueReader(next)
    BY <1>1, <1>3, <1>5, <2>1, <2>2 DEF TrueReader, Sending, Known
  <2>5. TrueSession(stream.asynchronous, next, remote[r])
    BY <1>3, <2>1, <2>2, <2>3, <2>4 DEF TrueSession
  <2> QED
    BY <1>1, <1>3, <1>5, <2>1, <2>2, <2>3, <2>5, TruthPublish DEF Reading
<1> QED
  BY <1>4, <1>5 DEF Checkpoint, Publish, Publishable, Stored, Known

(* sealExtraction() *)
LEMMA SealTrue ==
    ASSUME Inv, Inv', TruthInv, NEW w \in Workers, UNCHANGED stream, SealExtraction(w)
    PROVE  TruthInv'
<1> DEFINE r == worker[w].run
           pc == IF worker[w].staged THEN "detach" ELSE "prepareFinish"
           new == [Stored(w) EXCEPT !.phase = "batches_pending"]
           next == [[worker[w] EXCEPT !.pc = pc] EXCEPT !.row = new]
<1>1. worker[w].pc = "read" /\ Working(w) /\ TypeInv /\ UNCHANGED remote
  BY DEF SealExtraction, Working, Inv
<1>2. worker[w] \in Sessions /\ Stored(w) \in ControlRows
  BY <1>1, Facts
<1>3. TrueRow(stream.asynchronous, r, Stored(w), remote[r]) /\ Stored(w).head.run = r
  BY <1>1, TruthFacts
<1>4. CASE worker' = [worker EXCEPT ![w] = Cleanup(w, worker[w].staged)] /\ UNCHANGED control
  BY <1>1, <1>4, TruthCleanup
<1>5. CASE /\ Stored(w).phase = "running"
           /\ control' = [control EXCEPT ![r] = new] /\ worker' = [worker EXCEPT ![w] = next]
  <2>1. new.head = Stored(w).head /\ new.phase = "batches_pending"
    BY <1>2 DEF ControlRows
  <2>2. next.pc \in {"detach", "prepareFinish"} /\ next.run = r /\ next.row = new
    BY <1>2 DEF Sessions
  <2> HIDE DEF new, next
  <2>3. TrueRow(stream.asynchronous, r, new, remote[r])
    BY <1>3, <1>5, <2>1, PhaseTrue
  <2>4. TrueSession(stream.asynchronous, next, remote[r]) /\ next.pc \notin Reading
    BY <1>3, <2>1, <2>2, <2>3 DEF TrueSession, Reading
  <2> QED
    BY <1>1, <1>3, <1>5, <2>1, <2>2, <2>3, <2>4, TruthPublish DEF Reading
<1> QED
  BY <1>4, <1>5 DEF SealExtraction, Publish, Publishable, Stored

(* prepareFinish(): only a run whose batches all have a good receipt is finished. *)
LEMMA PrepareFinishTrue ==
    ASSUME Inv, Inv', TruthInv, NEW w \in Workers, UNCHANGED stream, PrepareFinish(w)
    PROVE  TruthInv'
<1> DEFINE r == worker[w].run
           new == [Stored(w) EXCEPT !.phase = "finish_prepared", !.finish = worker[w].point.seq]
           next == [[worker[w] EXCEPT !.pc = "finish"] EXCEPT !.row = new]
<1>1. /\ worker[w].pc \in {"read", "prepareFinish"} /\ Working(w) /\ TypeInv /\ UNCHANGED remote
      /\ worker[w].pc = "read" => ~stream.asynchronous
  BY DEF PrepareFinish, Working, Inv
<1>2. /\ worker[w] \in Sessions /\ Stored(w) \in ControlRows
      /\ Stored(w).head.batches \in Seq(Batches)
  BY <1>1, Facts
<1>3. /\ TrueRow(stream.asynchronous, r, Stored(w), remote[r]) /\ Stored(w).head.run = r
      /\ worker[w].pc = "prepareFinish" => Known(w).phase = "batches_pending"
  BY <1>1, TruthFacts DEF TrueSession, Known
<1>4. CASE /\ worker' = [worker EXCEPT ![w] = IF worker[w].recovered THEN Idle ELSE Cleanup(w, worker[w].staged)]
           /\ UNCHANGED control
  <2>1. \/ worker' = [worker EXCEPT ![w] = Idle]
        \/ worker' = [worker EXCEPT ![w] = Cleanup(w, worker[w].staged)]
    BY <1>4
  <2> QED
    BY <1>1, <1>4, <2>1, TruthCleanup, TruthStop DEF Stop
<1>5. CASE /\ Finishable(w) /\ Stored(w).head = Known(w).head /\ Stored(w).phase = Known(w).phase
           /\ control' = [control EXCEPT ![r] = new] /\ worker' = [worker EXCEPT ![w] = next]
  <2>1. new.head = Stored(w).head /\ new.phase = "finish_prepared"
    BY <1>2 DEF ControlRows
  <2>2. next.pc = "finish" /\ next.run = r /\ next.row = new
    BY <1>2 DEF Sessions
  <2> HIDE DEF new, next
  <2>3. Stored(w).phase \in {"running", "batches_pending"}
    BY <1>5 DEF Finishable
  <2>4. ASSUME NEW k \in DOMAIN Stored(w).head.batches
        PROVE  TrueBatch(stream.asynchronous, Stored(w).head.batches[k], "finish_prepared", remote[r].batch[k], remote[r])
    <3> DEFINE b == Stored(w).head.batches[k]
    <3>1. b \in Batches
      BY <1>2
    <3>2. TrueBatch(stream.asynchronous, b, Stored(w).phase, remote[r].batch[k], remote[r])
      BY <1>3 DEF TrueRow
    <3>3. ~Unresolved(b) /\ ~Rejected(b) /\ (Stored(w).phase = "batches_pending" => ~Staged(b))
      BY <1>5 DEF Finishable, Batch
    <3>4. stream.asynchronous => ~Staged(b)
      BY <1>1, <1>3, <1>5, <3>3
    <3> HIDE DEF b
    <3>5. b.status = "acknowledged"
      BY <2>3, <3>1, <3>2, <3>3 DEF Batches, Unresolved, TrueBatch
    <3>6. TrueBatch(stream.asynchronous, b, "finish_prepared", remote[r].batch[k], remote[r])
      BY <3>2, <3>3, <3>4, <3>5 DEF TrueBatch, Confirmed
    <3> QED
      BY <3>6 DEF b
  <2>5. TrueRow(stream.asynchronous, r, new, remote[r])
    BY <1>3, <2>1, <2>4 DEF TrueRow
  <2>6. TrueSession(stream.asynchronous, next, remote[r]) /\ next.pc \notin Reading
    BY <1>3, <2>1, <2>2, <2>5, TrueGoesOn DEF Reading
  <2>7. worker[w].pc \notin Reading => Stored(w).phase \notin Readable
    BY <1>1, <1>3, <1>5 DEF Reading, Readable, AbortSide
  <2> QED
    BY <1>1, <1>3, <1>5, <2>1, <2>2, <2>5, <2>6, <2>7, TruthPublish
<1> QED
  BY <1>4, <1>5 DEF PrepareFinish, Publish, Publishable, Stored, Known, Finishable

(* A session that finishes: its run was never aborted. *)
LEMMA FinishFacts ==
    ASSUME Inv, TruthInv, NEW w \in Workers, Working(w), Known(w).phase \in FinishSide
    PROVE  /\ Stored(w).phase \in FinishSide /\ Stored(w).phase \notin Readable
           /\ remote[worker[w].run].aborts = 0
           /\ worker[w].pc \notin Reading
<1>1. Stored(w).phase \in FinishSide
  BY DEF Inv, SideInv, Known, Stored
<1>2. Stored(w).phase \notin AbortSide /\ Stored(w).phase \notin Readable
  BY <1>1 DEF FinishSide, AbortSide, Readable
<1>3. worker[w].run \in Runs /\ remote[worker[w].run].aborts \in 0 .. 1
  BY Facts DEF Inv, RemoteRows
<1>4. ~(remote[worker[w].run].aborts > 0)
  BY <1>2, <1>3 DEF Inv, FinishInv, Stored
<1>5. worker[w].pc \notin Reading
  BY <1>2, TruthFacts
<1> QED
  BY <1>1, <1>2, <1>3, <1>4, <1>5

(* Staged batches of a run that is being finished are done once none is staged *)
(* at the provider.                                                            *)
LEMMA StagedAreDone ==
    ASSUME NEW a, NEW r, NEW row, NEW s, TrueRow(a, r, row, s), row.head.run = r, row.phase \in FinishSide,
           s.aborts = 0, NEW t, \A k \in Rows : s.batch[k] \in {"staged", "done"} => t.batch[k] = "done"
    PROVE  \A k \in DOMAIN row.head.batches : Staged(row.head.batches[k]) => t.batch[k] = "done"
<1> SUFFICES ASSUME NEW k \in DOMAIN row.head.batches, Staged(row.head.batches[k]) PROVE t.batch[k] = "done"
  OBVIOUS
<1>1. k \in Rows /\ TrueBatch(a, row.head.batches[k], row.phase, s.batch[k], s)
  BY DEF TrueRow
<1> QED
  BY <1>1 DEF TrueBatch

(* A session that ends: what was staged is done. *)
LEMMA SessionFinished ==
    ASSUME NEW s \in RemoteRows, TrueProvider(s), s.finishes > 0
    PROVE  /\ Grows(TRUE, s, FinishedSession(s)) /\ Grows(FALSE, s, FinishedSession(s))
           /\ TrueProvider(FinishedSession(s))
           /\ \A k \in Rows : s.batch[k] \in {"staged", "done"} => FinishedSession(s).batch[k] = "done"
<1> DEFINE t == FinishedSession(s)
<1>1. /\ t.session = "finished" /\ t.finishes = s.finishes /\ t.calls = s.calls /\ t.aborts = s.aborts
      /\ \A k \in Rows : t.batch[k] = IF s.batch[k] = "staged" THEN "done" ELSE s.batch[k]
  BY DEF FinishedSession, RemoteRows
<1> HIDE DEF t
<1>2. Grows(TRUE, s, t) /\ Grows(FALSE, s, t)
  BY <1>1 DEF Grows
<1>3. TrueProvider(t)
  BY <1>1 DEF TrueProvider
<1>4. \A k \in Rows : s.batch[k] \in {"staged", "done"} => t.batch[k] = "done"
  BY <1>1
<1> QED
  BY <1>2, <1>3, <1>4 DEF t

(* Growth composes. *)
LEMMA GrowsOn ==
    ASSUME NEW a, NEW s, NEW t, NEW u, Grows(a, s, t), Grows(a, t, u), s.aborts = 0, t.aborts = 0
    PROVE  Grows(a, s, u)
  BY DEF Grows

(* writer.finish() *)
LEMMA CallFinishTrue ==
    ASSUME Inv, Inv', TruthInv, NEW w \in Workers, UNCHANGED stream, CallFinish(w)
    PROVE  TruthInv'
<1> DEFINE r == worker[w].run
           a == stream.asynchronous
           S == remote[r]
           now == [S EXCEPT !.finishes = @ + 1]
           later == [now EXCEPT !.session = "finishing"]
           answered(x) == [worker[w] EXCEPT !.pc = "ackFinish", !.result = x]
<1>1. worker[w].pc = "finish" /\ Working(w) /\ TypeInv /\ UNCHANGED control
  BY DEF CallFinish, Working, Inv
<1>2. /\ worker[w] \in Sessions /\ S \in RemoteRows /\ a \in BOOLEAN
  BY <1>1, Facts DEF TypeInv, StreamType, StreamKinds
<1>3. Known(w).phase \in FinishSide /\ S.aborts = 0 /\ Idle.pc \notin Reading
  BY <1>1, FinishFacts DEF Inv, SideInv, Known, Idle, Reading
<1>4. TrueProvider(S) /\ TrueRow(a, r, Known(w), S) /\ Known(w).head.run = r
  BY <1>1, TruthFacts
<1>5. /\ now \in RemoteRows /\ now.session = S.session /\ now.finishes > 0 /\ now.batch = S.batch
      /\ now.calls = S.calls /\ now.aborts = S.aborts
  BY <1>2 DEF RemoteRows
<1>6. /\ later.session = "finishing" /\ later.finishes > 0 /\ later.batch = S.batch
      /\ later.calls = S.calls /\ later.aborts = S.aborts
  BY <1>2 DEF RemoteRows
<1>7. \A x : answered(x).pc = "ackFinish" /\ answered(x).run = r /\ answered(x).row = Known(w) /\ answered(x).result = x
  BY <1>2 DEF Sessions, Known
<1>8. \/ /\ remote' = [remote EXCEPT ![r] = FinishedSession(now)]
         /\ worker' = [worker EXCEPT ![w] = answered("accepted")]
      \/ /\ remote' = [remote EXCEPT ![r] = later]
         /\ worker' = [worker EXCEPT ![w] = answered("pending")]
      \/ /\ \E s \in {now, later, FinishedSession(now)} : remote' = [remote EXCEPT ![r] = s]
         /\ worker' = [worker EXCEPT ![w] = Idle]
  <2>1. \A x : [worker EXCEPT ![w].pc = "ackFinish", ![w].result = x] = [worker EXCEPT ![w] = answered(x)]
    BY <1>1 DEF TypeInv, WorkerType
  <2> HIDE DEF now, later, answered
  <2> QED
    BY <2>1 DEF CallFinish, Stop, now, later
<1> HIDE DEF now, later, answered
<1>9. Grows(a, S, now) /\ TrueProvider(now) /\ Grows(a, S, later) /\ TrueProvider(later)
  BY <1>4, <1>5, <1>6 DEF Grows, TrueProvider
<1>10. /\ Grows(a, now, FinishedSession(now)) /\ TrueProvider(FinishedSession(now))
       /\ \A k \in Rows : S.batch[k] \in {"staged", "done"} => FinishedSession(now).batch[k] = "done"
  BY <1>2, <1>5, <1>9, SessionFinished
<1>11. Grows(a, S, FinishedSession(now))
  BY <1>3, <1>5, <1>9, <1>10, GrowsOn
<1>12. CASE /\ remote' = [remote EXCEPT ![r] = FinishedSession(now)]
            /\ worker' = [worker EXCEPT ![w] = answered("accepted")]
  <2>1. TrueRow(a, r, Known(w), FinishedSession(now))
    BY <1>4, <1>11, RowGrows
  <2>2. \A k \in DOMAIN Known(w).head.batches : Staged(Known(w).head.batches[k]) => FinishedSession(now).batch[k] = "done"
    BY <1>3, <1>4, <1>10, StagedAreDone
  <2>3. TrueSession(a, answered("accepted"), FinishedSession(now)) /\ answered("accepted").pc \notin Reading
    BY <1>4, <1>7, <2>1, <2>2 DEF TrueSession, Reading
  <2> QED
    BY <1>1, <1>7, <1>10, <1>11, <1>12, <2>3, TruthCall
<1>13. CASE /\ remote' = [remote EXCEPT ![r] = later]
            /\ worker' = [worker EXCEPT ![w] = answered("pending")]
  <2>1. TrueRow(a, r, Known(w), later)
    BY <1>4, <1>9, RowGrows
  <2>2. TrueSession(a, answered("pending"), later) /\ answered("pending").pc \notin Reading
    BY <1>4, <1>7, <2>1 DEF TrueSession, Reading
  <2> QED
    BY <1>1, <1>7, <1>9, <1>13, <2>2, TruthCall
<1>14. CASE /\ \E s \in {now, later, FinishedSession(now)} : remote' = [remote EXCEPT ![r] = s]
            /\ worker' = [worker EXCEPT ![w] = Idle]
  <2>1. PICK s \in {now, later, FinishedSession(now)} : remote' = [remote EXCEPT ![r] = s]
    BY <1>14
  <2>2. Grows(a, S, s) /\ TrueProvider(s)
    BY <1>9, <1>10, <1>11
  <2> QED
    BY <1>1, <1>3, <1>14, <2>1, <2>2, TruthCall
<1> QED
  BY <1>8, <1>12, <1>13, <1>14

(* finish(): the receipt of the finish, and the staged batches one by one. *)
LEMMA FinishReceiptsTrue ==
    ASSUME Inv, Inv', TruthInv, NEW w \in Workers, UNCHANGED stream, AcknowledgeFinish(w) \/ ResolveFinish(w)
    PROVE  TruthInv'
<1> DEFINE r == worker[w].run
           a == stream.asynchronous
           S == remote[r]
           K == Known(w).head.batches
<1>1. worker[w].pc \in {"ackFinish", "resolve"} /\ Working(w) /\ TypeInv /\ UNCHANGED remote
  BY DEF AcknowledgeFinish, ResolveFinish, Working, Inv
<1>2. /\ worker[w] \in Sessions /\ Stored(w) \in ControlRows /\ Stored(w).head.batches \in Seq(Batches)
  BY <1>1, Facts
<1>3. Known(w).phase \in FinishSide /\ Stored(w).phase \in FinishSide /\ Stored(w).phase \notin Readable
  BY <1>1, FinishFacts DEF Inv, SideInv, Known
<1>4. /\ TrueRow(a, r, Known(w), S) /\ Known(w).head.run = r
      /\ TrueRow(a, r, Stored(w), S) /\ Stored(w).head.run = r
  BY <1>1, TruthFacts
<1>5. worker[w].pc = "resolve" \/ worker[w].result # "pending" =>
         \A k \in DOMAIN K : Staged(K[k]) => S.batch[k] = "done"
  BY <1>1, TruthFacts DEF TrueSession, Known
<1>6. ASSUME Stored(w).head = Known(w).head, NEW new, new.head = Stored(w).head,
             \/ new.phase = "finish_pending"
             \/ /\ new.phase \in {"finish_resolving", "finish_accepted"}
                /\ \A k \in DOMAIN K : Staged(K[k]) => S.batch[k] = "done"
                /\ new.phase = "finish_accepted" => \A k \in DOMAIN K : ~Staged(K[k])
      PROVE  TrueRow(a, r, new, S)
  <2> SUFFICES ASSUME NEW k \in DOMAIN K PROVE TrueBatch(a, K[k], new.phase, S.batch[k], S)
    BY <1>4, <1>6 DEF TrueRow
  <2>1. TrueBatch(a, K[k], Stored(w).phase, S.batch[k], S)
    BY <1>4, <1>6 DEF TrueRow
  <2>2. K[k] \in Batches
    BY <1>2, <1>6
  <2>3. new.phase = "finish_accepted" => Accepted(K[k])
    BY <1>3, <1>6, <2>1, <2>2 DEF TrueBatch, Batches, Accepted, Staged, Rejected
  <2> QED
    BY <1>3, <1>6, <2>1, <2>3 DEF TrueBatch, Confirmed
<1>7. CASE AcknowledgeFinish(w)
  <2> DEFINE pending == worker[w].result = "pending"
             pc == IF pending THEN "detach" ELSE "resolve"
             session == [worker[w] EXCEPT !.pc = pc]
             new == [Stored(w) EXCEPT !.phase = IF pending THEN "finish_pending" ELSE "finish_resolving"]
             next == [session EXCEPT !.row = new]
  <2>1. session.run = r /\ session.row = Known(w) /\ session.pc = pc
    BY <1>2 DEF Sessions, Known
  <2>2. next.run = r /\ next.row = new /\ next.pc = pc
    BY <1>2 DEF Sessions
  <2>3. new.head = Stored(w).head /\ new.phase = IF pending THEN "finish_pending" ELSE "finish_resolving"
    BY <1>2 DEF ControlRows
  <2>4. \/ worker' = [worker EXCEPT ![w] = session] /\ UNCHANGED control
        \/ /\ Stored(w).head = Known(w).head
           /\ control' = [control EXCEPT ![r] = new] /\ worker' = [worker EXCEPT ![w] = next]
    BY <1>7 DEF AcknowledgeFinish, Goto, Publish, Publishable, Stored, Known
  <2> HIDE DEF session, new, next
  <2>5. pc \in {"detach", "resolve"} /\ (pc = "resolve" => worker[w].result # "pending")
    OBVIOUS
  <2>6. CASE worker' = [worker EXCEPT ![w] = session] /\ UNCHANGED control
    <3> HIDE DEF pc
    <3>1. TrueSession(a, session, S) /\ session.pc \notin Reading
      BY <1>4, <1>5, <2>1, <2>5 DEF TrueSession, Reading
    <3> QED
      BY <1>1, <2>1, <2>6, <3>1, TruthLocal
  <2>7. CASE /\ Stored(w).head = Known(w).head
             /\ control' = [control EXCEPT ![r] = new] /\ worker' = [worker EXCEPT ![w] = next]
    <3>1. TrueRow(a, r, new, S)
      BY <1>5, <1>6, <2>3, <2>7
    <3> HIDE DEF pc
    <3>2. TrueSession(a, next, S) /\ next.pc \notin Reading
      BY <1>4, <1>5, <2>2, <2>3, <2>5, <2>7, <3>1 DEF TrueSession, Reading
    <3> QED
      BY <1>1, <1>3, <1>4, <2>2, <2>3, <2>7, <3>1, <3>2, TruthPublish
  <2> QED
    BY <2>4, <2>6, <2>7
<1>8. CASE ResolveFinish(w)
  <2> DEFINE staged == {k \in DOMAIN K : Staged(K[k])}
             accepted == [Stored(w) EXCEPT !.phase = "finish_accepted"]
             session == [worker[w] EXCEPT !.pc = "commit",
                                          !.point = IF worker[w].recovered
                                                    THEN FinalPoint(Known(w), Known(w).next) ELSE @]
  <2>1. /\ worker[w].pc = "resolve" /\ Stored(w).head = Known(w).head
        /\ \/ \E k \in staged : Publish(w, WithReceipt(Stored(w), k, "accepted"), worker[w])
           \/ staged = {} /\ Publish(w, accepted, session)
    BY <1>8 DEF ResolveFinish, Publishable, Stored, Known
  <2>2. \A k \in DOMAIN K : Staged(K[k]) => S.batch[k] = "done"
    BY <1>5, <2>1
  <2>3. ASSUME NEW k \in staged, NEW new, new = WithReceipt(Stored(w), k, "accepted"), Publish(w, new, worker[w])
        PROVE  TruthInv'
    <3> DEFINE next == [worker[w] EXCEPT !.row = new]
               b == [status |-> "acknowledged", out |-> "accepted"]
    <3>1. k \in DOMAIN Stored(w).head.batches /\ S.batch[k] = "done"
      BY <2>1, <2>2
    <3>2. /\ DOMAIN new.head.batches = DOMAIN K
          /\ new.head.batches[k].status = "acknowledged" /\ new.head.batches[k].out = "accepted"
          /\ \A j \in DOMAIN K \ {k} : new.head.batches[j] = K[j]
      BY <1>2, <2>1, <2>3, <3>1, ReceiptBatch
    <3>3. new.head.run = r /\ new.phase = Stored(w).phase
      BY <1>2, <1>4, <2>3, <3>1, ReceiptRow
    <3>4. TrueBatch(a, b, Stored(w).phase, S.batch[k], S)
      BY <3>1 DEF TrueBatch, Accepted, Staged, Rejected
    <3>5. b.status = "acknowledged" /\ b.out = "accepted"
      OBVIOUS
    <3> HIDE DEF b
    <3>6. TrueRow(a, r, new, S)
      BY <1>2, <1>4, <2>3, <3>1, <3>4, <3>5, ReceiptTrue
    <3>7. next.run = r /\ next.row = new /\ next.pc = "resolve"
      BY <1>2, <2>1 DEF Sessions
    <3> HIDE DEF next
    <3>8. \A j \in DOMAIN new.head.batches : Staged(new.head.batches[j]) => S.batch[j] = "done"
      BY <2>2, <3>1, <3>2
    <3>9. TrueSession(a, next, S) /\ next.pc \notin Reading
      BY <3>3, <3>6, <3>7, <3>8 DEF TrueSession, Reading
    <3>10. control' = [control EXCEPT ![r] = new] /\ worker' = [worker EXCEPT ![w] = next]
      BY <2>3 DEF Publish, next
    <3> QED
      BY <1>1, <1>3, <3>3, <3>6, <3>7, <3>9, <3>10, TruthPublish
  <2>4. CASE staged = {} /\ Publish(w, accepted, session)
    <3> DEFINE next == [session EXCEPT !.row = accepted]
    <3>1. accepted.head = Stored(w).head /\ accepted.phase = "finish_accepted"
      BY <1>2 DEF ControlRows
    <3>2. next.run = r /\ next.row = accepted /\ next.pc = "commit"
      BY <1>2 DEF Sessions
    <3>3. control' = [control EXCEPT ![r] = accepted] /\ worker' = [worker EXCEPT ![w] = next]
      BY <2>4 DEF Publish
    <3> HIDE DEF next, accepted, session
    <3>4. TrueRow(a, r, accepted, S)
      BY <1>6, <2>1, <2>2, <2>4, <3>1
    <3>5. TrueSession(a, next, S) /\ next.pc \notin Reading
      BY <1>4, <3>1, <3>2, <3>4, TrueGoesOn DEF Reading
    <3> QED
      BY <1>1, <1>3, <1>4, <3>1, <3>2, <3>3, <3>4, <3>5, TruthPublish
  <2> QED
    BY <2>1, <2>3, <2>4
<1> QED
  BY <1>7, <1>8

(* The end of an attempt: the run is committed, or left to the provider. *)
LEMMA AttemptEndsTrue ==
    ASSUME Inv, Inv', TruthInv, NEW w \in Workers, UNCHANGED stream, CommitComplete(w) \/ Detach(w)
    PROVE  TruthInv'
<1> DEFINE r == worker[w].run
           a == stream.asynchronous
           S == remote[r]
<1>1. /\ worker[w].pc \in {"commit", "detach"} /\ Working(w) /\ TypeInv /\ UNCHANGED remote
      /\ worker' = [worker EXCEPT ![w] = Idle]
  BY DEF CommitComplete, Detach, Stop, Working, Inv
<1>2. Stored(w) \in ControlRows /\ r \in DOMAIN control /\ Idle.pc \notin Reading
  BY <1>1, Facts DEF Idle, Reading
<1>3. /\ TrueRow(a, r, Known(w), S) /\ Known(w).head.run = r
      /\ TrueRow(a, r, Stored(w), S) /\ Stored(w).head.run = r
  BY <1>1, TruthFacts
<1>4. CASE UNCHANGED control
  BY <1>1, <1>4, TruthStop DEF Stop
<1>5. CASE Detach(w) /\ control' = [control EXCEPT ![r].detached = TRUE]
  <2> DEFINE new == [Stored(w) EXCEPT !.detached = TRUE]
  <2>1. new.head = Stored(w).head /\ new.phase = Stored(w).phase
    BY <1>2 DEF ControlRows
  <2>2. control' = [control EXCEPT ![r] = new]
    BY <1>2, <1>5 DEF Stored
  <2> HIDE DEF new
  <2>3. TrueRow(a, r, new, S)
    BY <1>3, <2>1, PhaseTrue
  <2> QED
    BY <1>1, <1>2, <1>3, <2>1, <2>2, <2>3, TruthPublish
<1>6. CASE /\ CommitComplete(w) /\ Checkpointable(w, worker[w].point, TRUE) /\ Stored(w).head = Known(w).head
           /\ control' = [control EXCEPT ![r].checkpoint = worker[w].point.seq, ![r].phase = "complete"]
  <2> DEFINE new == [Stored(w) EXCEPT !.checkpoint = worker[w].point.seq, !.phase = "complete"]
  <2>1. new.head = Stored(w).head /\ new.phase = "complete"
    BY <1>2 DEF ControlRows
  <2>2. control' = [control EXCEPT ![r] = new]
    BY <1>1, <1>2, <1>6 DEF Stored, TypeInv, ControlType
  <2> HIDE DEF new
  <2>3. Known(w).phase = "finish_accepted"
    BY <1>6 DEF Checkpointable
  <2>4. Stored(w).phase \in FinishSide /\ Stored(w).phase \notin Readable
    BY <1>1, <2>3, FinishFacts DEF FinishSide
  <2>5. TrueRow(a, r, new, S)
    <3> SUFFICES ASSUME NEW k \in DOMAIN Stored(w).head.batches
                 PROVE  TrueBatch(a, Stored(w).head.batches[k], "complete", S.batch[k], S)
      BY <1>3, <2>1 DEF TrueRow
    <3>1. TrueBatch(a, Stored(w).head.batches[k], Stored(w).phase, S.batch[k], S)
      BY <1>3 DEF TrueRow
    <3>2. TrueBatch(a, Stored(w).head.batches[k], "finish_accepted", S.batch[k], S)
      BY <1>3, <1>6, <2>3 DEF TrueRow
    <3> QED
      BY <2>4, <3>1, <3>2 DEF TrueBatch, Confirmed
  <2> QED
    BY <1>1, <1>2, <1>3, <2>1, <2>2, <2>4, <2>5, TruthPublish
<1> QED
  BY <1>1, <1>4, <1>5, <1>6 DEF CommitComplete, Detach, Publishable, Stored, Known

(* The cleanup of a run that will not finish. *)
LEMMA CleanupTrue ==
    ASSUME Inv, Inv', TruthInv, NEW w \in Workers, UNCHANGED stream,
           PrepareAbort(w) \/ CallAbort(w) \/ AcknowledgeAbort(w)
    PROVE  TruthInv'
<1> DEFINE r == worker[w].run
           a == stream.asynchronous
           S == remote[r]
<1>1. worker[w].pc \in {"cleanup", "abort", "ackAbort"} /\ Working(w) /\ TypeInv
  BY DEF PrepareAbort, CallAbort, AcknowledgeAbort, Working, Inv
<1>2. /\ worker[w] \in Sessions /\ Stored(w) \in ControlRows /\ Stored(w).head \in Heads
      /\ Stored(w).head.batches \in Seq(Batches) /\ r \in DOMAIN control /\ S \in RemoteRows
  BY <1>1, Facts
<1>3. /\ TrueRow(a, r, Known(w), S) /\ Known(w).head.run = r
      /\ TrueRow(a, r, Stored(w), S) /\ Stored(w).head.run = r /\ TrueProvider(S)
  BY <1>1, TruthFacts
<1>4. Idle.pc \notin Reading
  BY DEF Idle, Reading
<1>5. CASE PrepareAbort(w)
  <2> DEFINE new == [Stored(w) EXCEPT !.phase = "abort_prepared"]
             next == [[worker[w] EXCEPT !.pc = "abort"] EXCEPT !.row = new]
  <2>1. CASE Stop(w) /\ UNCHANGED control
    BY <1>1, <1>5, <2>1, TruthStop DEF PrepareAbort
  <2>2. CASE /\ Stored(w).phase \in {"running", "batches_pending"}
             /\ control' = [control EXCEPT ![r] = new] /\ worker' = [worker EXCEPT ![w] = next]
    <3>1. new.head = Stored(w).head /\ new.phase = "abort_prepared"
      BY <1>2 DEF ControlRows
    <3>2. next.pc = "abort" /\ next.run = r /\ next.row = new
      BY <1>2 DEF Sessions
    <3> HIDE DEF new, next
    <3>3. TrueRow(a, r, new, S)
      BY <1>3, <2>2, <3>1, PhaseTrue
    <3>4. TrueSession(a, next, S) /\ next.pc \notin Reading
      BY <1>3, <3>1, <3>2, <3>3, TrueGoesOn DEF Reading
    <3>5. new.phase \in Readable
      BY <3>1 DEF Readable, AbortSide
    <3> QED
      BY <1>1, <1>3, <1>5, <2>2, <3>1, <3>2, <3>3, <3>4, <3>5, TruthPublish DEF PrepareAbort
  <2> QED
    BY <1>5, <2>1, <2>2 DEF PrepareAbort, Publish, Publishable, Stored, Known
<1>6. CASE CallAbort(w)
  <2> DEFINE gone == [S EXCEPT !.session = "aborted", !.aborts = 1,
                               !.batch = [k \in Rows |-> IF @[k] = "staged" THEN "absent" ELSE @[k]]]
             next == [worker[w] EXCEPT !.pc = "ackAbort"]
  <2>1. /\ gone.session = "aborted" /\ gone.aborts = 1 /\ gone.calls = S.calls
        /\ \A k \in Rows : gone.batch[k] = IF S.batch[k] = "staged" THEN "absent" ELSE S.batch[k]
    BY <1>2 DEF RemoteRows
  <2>2. next.pc = "ackAbort" /\ next.run = r /\ next.row = Known(w)
    BY <1>2 DEF Sessions, Known
  <2>3. \/ remote' = [remote EXCEPT ![r] = gone] /\ worker' = [worker EXCEPT ![w] = next]
        \/ (\E s \in {S, gone} : remote' = [remote EXCEPT ![r] = s]) /\ worker' = [worker EXCEPT ![w] = Idle]
    BY <1>6 DEF CallAbort, Goto, Stop
  <2> HIDE DEF gone, next
  <2>4. Grows(a, S, gone) /\ TrueProvider(gone) /\ Grows(a, S, S)
    BY <1>3, <2>1 DEF Grows, TrueProvider
  <2>5. TrueSession(a, next, gone) /\ next.pc \notin Reading
    BY <1>3, <2>2, <2>4, RowGrows, TrueGoesOn DEF Reading
  <2>6. CASE remote' = [remote EXCEPT ![r] = gone] /\ worker' = [worker EXCEPT ![w] = next]
    BY <1>1, <1>6, <2>2, <2>4, <2>5, <2>6, TruthCall DEF CallAbort
  <2>7. CASE (\E s \in {S, gone} : remote' = [remote EXCEPT ![r] = s]) /\ worker' = [worker EXCEPT ![w] = Idle]
    <3>1. PICK s \in {S, gone} : remote' = [remote EXCEPT ![r] = s]
      BY <2>7
    <3>2. Grows(a, S, s) /\ TrueProvider(s)
      BY <1>3, <2>4
    <3> QED
      BY <1>1, <1>4, <1>6, <2>7, <3>1, <3>2, TruthCall DEF CallAbort
  <2> QED
    BY <2>3, <2>6, <2>7
<1>7. CASE AcknowledgeAbort(w)
  <2> DEFINE old == Stored(w).head.batches
             cancelled == [k \in DOMAIN old |->
                              IF Staged(old[k]) THEN [old[k] EXCEPT !.status = "cancelled"] ELSE old[k]]
             head == [Stored(w).head EXCEPT !.batches = cancelled]
             new == [Stored(w) EXCEPT !.phase = "aborted", !.head = head]
  <2>1. Stored(w).phase = "abort_prepared" /\ UNCHANGED remote /\ worker' = [worker EXCEPT ![w] = Idle]
    BY <1>7 DEF AcknowledgeAbort, Publishable, Stored, Stop
  <2>2. head.run = r /\ head.batches = cancelled
    BY <1>2, <1>3 DEF Heads
  <2>3. new.head = head /\ new.phase = "aborted"
    BY <1>2 DEF ControlRows
  <2>4. control' = [control EXCEPT ![r] = new]
    BY <1>7 DEF AcknowledgeAbort
  <2>5. ASSUME NEW k \in DOMAIN old
        PROVE  TrueBatch(a, cancelled[k], "aborted", S.batch[k], S)
    <3>1. old[k] \in Batches /\ TrueBatch(a, old[k], "abort_prepared", S.batch[k], S)
      BY <1>2, <1>3, <2>1 DEF TrueRow
    <3>2. CASE Staged(old[k])
      <4> DEFINE b == [old[k] EXCEPT !.status = "cancelled"]
      <4>1. b.status = "cancelled" /\ b.out = "staged"
        BY <3>1, <3>2 DEF Batches, Staged
      <4> HIDE DEF b
      <4>2. TrueBatch(a, b, "aborted", S.batch[k], S)
        BY <4>1 DEF TrueBatch, Accepted, Staged, Confirmed, FinishSide
      <4> QED
        BY <3>2, <4>2 DEF b
    <3>3. CASE ~Staged(old[k])
      BY <3>1, <3>3 DEF TrueBatch, Confirmed, FinishSide
    <3> QED
      BY <3>2, <3>3
  <2>6. DOMAIN cancelled = DOMAIN old
    OBVIOUS
  <2> HIDE DEF cancelled, head, new
  <2>7. TrueRow(a, r, new, S)
    BY <1>3, <2>2, <2>3, <2>5, <2>6 DEF TrueRow
  <2>8. new.phase \in Readable
    BY <2>3 DEF Readable, AbortSide
  <2> QED
    BY <1>1, <1>4, <2>1, <2>2, <2>3, <2>4, <2>7, <2>8, TruthPublish
<1> QED
  BY <1>5, <1>6, <1>7

(* recoverRun() of an initialization, and of a finish. *)
LEMMA RecoverEndsTrue ==
    ASSUME Inv, Inv', TruthInv, NEW w \in Workers, UNCHANGED stream, RecoverInit(w) \/ RecoverFinish(w)
    PROVE  TruthInv'
<1> DEFINE r == worker[w].run
           a == stream.asynchronous
           S == remote[r]
           K == Known(w).head.batches
<1>1. worker[w].pc = "recover" /\ Working(w) /\ TypeInv
  BY DEF RecoverInit, RecoverFinish, Working, Inv
<1>2. /\ worker[w] \in Sessions /\ Stored(w) \in ControlRows /\ r \in DOMAIN control /\ r \in Runs
      /\ S \in RemoteRows
  BY <1>1, Facts
<1>3. /\ TrueRow(a, r, Known(w), S) /\ Known(w).head.run = r
      /\ TrueRow(a, r, Stored(w), S) /\ Stored(w).head.run = r /\ TrueProvider(S)
  BY <1>1, TruthFacts
<1>4. CASE RecoverInit(w)
  <2> DEFINE t == [S EXCEPT !.session = "none"]
             new == [Stored(w) EXCEPT !.phase = "new"]
  <2>1. Stored(w).phase = "init_prepared" /\ worker' = [worker EXCEPT ![w] = Idle]
    BY <1>4 DEF RecoverInit, Publishable, Stored, Stop
  <2>2. /\ t.session = "none" /\ t.batch = S.batch /\ t.calls = S.calls /\ t.aborts = S.aborts
    BY <1>2 DEF RemoteRows
  <2>3. new.head = Stored(w).head /\ new.phase = "new"
    BY <1>2 DEF ControlRows
  <2>4. remote' = [remote EXCEPT ![r] = t] /\ control' = [control EXCEPT ![r] = new]
    BY <1>4 DEF RecoverInit, Stored
  <2> HIDE DEF t, new
  <2>5. /\ remote'[r] = t /\ \A q \in Runs \ {r} : remote'[q] = remote[q]
        /\ DOMAIN control' = DOMAIN control /\ control'[r] = new
        /\ \A q \in DOMAIN control \ {r} : control'[q] = control[q]
    BY <1>1, <1>2, <2>4 DEF TypeInv, RemoteType, ControlType
  <2>6. worker'[w] = Idle /\ \A v \in Workers \ {w} : worker'[v] = worker[v]
    BY <1>1, <2>1 DEF TypeInv, WorkerType
  <2>7. Frame(w)
    BY <2>5, <2>6 DEF Frame
  <2>8. Grows(a, S, t) /\ TrueProvider(t)
    BY <1>3, <2>2 DEF Grows, TrueProvider
  <2>9. TrueRow(a, r, new, t)
    BY <1>3, <2>1, <2>3, EmptyRow DEF TrueRow
  <2>10. worker'[w].pc \notin Reading /\ ~Working(w)'
    BY <2>6 DEF Idle, Reading, Working
  <2>11. new.head.run <= r /\ Stored(w).phase \notin Readable
    BY <1>2, <1>3, <2>1, <2>3 DEF Runs, Readable, AbortSide
  <2> QED
    BY <1>1, <1>3, <2>3, <2>5, <2>7, <2>8, <2>9, <2>10, <2>11, TruthStep
<1>5. CASE RecoverFinish(w)
  <2> DEFINE evidence == FinishEvidence(S)
             answered(x) == [worker[w] EXCEPT !.pc = "ackFinish", !.result = x]
             commits == [worker[w] EXCEPT !.pc = "commit", !.point = FinalPoint(Known(w), Known(w).next)]
  <2>1. /\ \A x : /\ answered(x).pc = "ackFinish" /\ answered(x).run = r /\ answered(x).row = Known(w)
                  /\ answered(x).result = x
        /\ commits.pc = "commit" /\ commits.run = r /\ commits.row = Known(w)
    BY <1>2 DEF Sessions, Known
  <2>2. \/ /\ Known(w).phase \in {"finish_prepared", "finish_pending"}
           /\ worker' = [worker EXCEPT ![w] = IF evidence = "none" THEN Idle ELSE answered(evidence)]
        \/ /\ Known(w).phase = "finish_resolving"
           /\ worker' = [worker EXCEPT ![w] = answered("accepted")]
        \/ worker' = [worker EXCEPT ![w] = commits]
    <3>1. /\ [worker EXCEPT ![w].pc = "ackFinish", ![w].result = "accepted"] = [worker EXCEPT ![w] = answered("accepted")]
          /\ [worker EXCEPT ![w].pc = "commit", ![w].point = FinalPoint(Known(w), Known(w).next)]
                 = [worker EXCEPT ![w] = commits]
      BY <1>1 DEF TypeInv, WorkerType
    <3> QED
      BY <1>5, <3>1 DEF RecoverFinish
  <2>3. UNCHANGED <<control, remote>>
    BY <1>5 DEF RecoverFinish
  <2> HIDE DEF answered, commits, evidence
  <2>4. ASSUME NEW x, x # "pending" => \A k \in DOMAIN K : Staged(K[k]) => S.batch[k] = "done",
               worker' = [worker EXCEPT ![w] = answered(x)]
        PROVE  TruthInv'
    <3>1. TrueSession(a, answered(x), S) /\ answered(x).pc \notin Reading
      BY <1>3, <2>1, <2>4 DEF TrueSession, Reading
    <3> QED
      BY <1>1, <2>1, <2>3, <2>4, <3>1, TruthLocal
  <2>5. CASE /\ Known(w).phase \in {"finish_prepared", "finish_pending"}
             /\ worker' = [worker EXCEPT ![w] = IF evidence = "none" THEN Idle ELSE answered(evidence)]
    <3>1. CASE evidence = "none"
      BY <1>1, <2>3, <2>5, <3>1, TruthStop DEF Stop
    <3>2. CASE evidence # "none"
      <4>1. Known(w).phase \in FinishSide
        BY <2>5 DEF FinishSide
      <4>2. S.aborts = 0
        BY <1>1, <4>1, FinishFacts
      <4>3. evidence # "pending" => \A k \in Rows : S.batch[k] # "staged"
        BY <1>3, <3>2 DEF FinishEvidence, TrueProvider, evidence
      <4>4. evidence # "pending" => \A k \in DOMAIN K : Staged(K[k]) => S.batch[k] = "done"
        <5> SUFFICES ASSUME evidence # "pending", NEW k \in DOMAIN K, Staged(K[k]) PROVE S.batch[k] = "done"
          OBVIOUS
        <5>1. k \in Rows /\ TrueBatch(a, K[k], Known(w).phase, S.batch[k], S)
          BY <1>3 DEF TrueRow
        <5> QED
          BY <4>1, <4>2, <4>3, <5>1 DEF TrueBatch
      <4> QED
        BY <2>4, <2>5, <3>2, <4>4
    <3> QED
      BY <3>1, <3>2
  <2>6. CASE Known(w).phase = "finish_resolving" /\ worker' = [worker EXCEPT ![w] = answered("accepted")]
    <3>1. \A k \in DOMAIN K : Staged(K[k]) => S.batch[k] = "done"
      BY <1>3, <2>6 DEF TrueRow, TrueBatch, Confirmed
    <3> QED
      BY <2>4, <2>6, <3>1
  <2>7. CASE worker' = [worker EXCEPT ![w] = commits]
    <3>1. TrueSession(a, commits, S) /\ commits.pc \notin Reading
      BY <1>3, <2>1, TrueGoesOn DEF Reading
    <3> QED
      BY <1>1, <2>1, <2>3, <2>7, <3>1, TruthLocal
  <2> QED
    BY <2>2, <2>5, <2>6, <2>7
<1> QED
  BY <1>4, <1>5

(* recoverRun() of the batches: what is recorded is the provider's evidence. *)
LEMMA RecoverBatchTrue ==
    ASSUME Inv, Inv', TruthInv, NEW w \in Workers, UNCHANGED stream, RecoverBatch(w)
    PROVE  TruthInv'
<1> DEFINE r == worker[w].run
           a == stream.asynchronous
           S == remote[r]
           K == Known(w).head.batches
           evidence(k) == BatchEvidence(S.batch[k])
           visited(k) == [worker[w] EXCEPT !.seen = @ \cup {k}, !.rejected = @ \/ Rejected(K[k])]
           asks(k) == [visited(k) EXCEPT !.pc = "ackBatch", !.k = k, !.result = evidence(k)]
<1>1. /\ worker[w].pc = "recover" /\ Working(w) /\ TypeInv /\ UNCHANGED <<control, remote>>
      /\ Known(w).phase \in {"running", "batches_pending"}
  BY DEF RecoverBatch, Working, Inv
<1>2. /\ worker[w] \in Sessions /\ S \in RemoteRows
  BY <1>1, Facts
<1>3. TrueRow(a, r, Known(w), S) /\ Known(w).head.run = r
  BY <1>1, TruthFacts
<1>4. ASSUME NEW k \in DOMAIN K, worker' = [worker EXCEPT ![w] = visited(k)]
      PROVE  TruthInv'
  <2>1. visited(k).pc = "recover" /\ visited(k).run = r /\ visited(k).row = Known(w)
    BY <1>1, <1>2 DEF Sessions, Known
  <2> HIDE DEF visited
  <2>2. TrueSession(a, visited(k), S) /\ visited(k).pc \notin Reading
    BY <1>3, <2>1, TrueGoesOn DEF Reading
  <2> QED
    BY <1>1, <1>4, <2>1, <2>2, TruthLocal
<1>5. ASSUME NEW k \in DOMAIN K, Unresolved(K[k]) \/ Staged(K[k]), evidence(k) # "none",
             worker' = [worker EXCEPT ![w] = asks(k)]
      PROVE  TruthInv'
  <2>1. /\ asks(k).pc = "ackBatch" /\ asks(k).run = r /\ asks(k).row = Known(w)
        /\ asks(k).k = k /\ asks(k).result = evidence(k)
    BY <1>2 DEF Sessions, Known
  <2>2. k \in Rows /\ TrueBatch(a, K[k], Known(w).phase, S.batch[k], S)
    BY <1>3 DEF TrueRow
  <2>3. S.batch[k] \in {"absent", "staged", "done", "refused"}
    BY <1>2, <2>2 DEF RemoteRows
  <2>4. /\ evidence(k) \in {"accepted", "staged", "rejected"}
        /\ evidence(k) = "accepted" => S.batch[k] = "done"
        /\ evidence(k) = "staged" => S.batch[k] = "staged"
        /\ evidence(k) = "rejected" => S.batch[k] = "refused"
    BY <1>5, <2>3 DEF BatchEvidence
  <2> HIDE DEF asks, evidence
  <2>5. TrueResult(a, asks(k), S)
    BY <2>1, <2>4 DEF TrueResult
  <2>6. asks(k).result = "rejected" /\ Staged(K[k]) => a \/ S.aborts > 0
    BY <2>1, <2>2, <2>4 DEF TrueBatch
  <2>7. TrueSession(a, asks(k), S) /\ asks(k).pc \notin Reading
    BY <1>1, <1>3, <1>5, <2>1, <2>5, <2>6 DEF TrueSession, Reading
  <2> QED
    BY <1>1, <1>5, <2>1, <2>7, TruthLocal
<1>6. CASE Stop(w)
  BY <1>1, <1>6, TruthStop
<1>7. \/ Stop(w)
      \/ \E k \in DOMAIN K : worker' = [worker EXCEPT ![w] = visited(k)]
      \/ \E k \in DOMAIN K : /\ Unresolved(K[k]) \/ Staged(K[k]) 
                             /\ evidence(k) # "none" /\ worker' = [worker EXCEPT ![w] = asks(k)]
  BY DEF RecoverBatch
<1> HIDE DEF visited, asks
<1> QED
  BY <1>4, <1>5, <1>6, <1>7

(* acknowledgeRecovered() *)
LEMMA AcknowledgeRecoveredTrue ==
    ASSUME Inv, Inv', TruthInv, NEW w \in Workers, UNCHANGED stream, AcknowledgeRecovered(w)
    PROVE  TruthInv'
<1> DEFINE r == worker[w].run
           a == stream.asynchronous
           S == remote[r]
           k == worker[w].k
           out == worker[w].result
           session == [worker[w] EXCEPT !.pc = "recover", !.pending = @ \/ out = "staged"]
<1>1. worker[w].pc = "ackBatch" /\ Working(w) /\ TypeInv /\ UNCHANGED remote
  BY DEF AcknowledgeRecovered, Working, Inv
<1>2. /\ worker[w] \in Sessions /\ Stored(w) \in ControlRows /\ r \in Runs /\ r \in DOMAIN control
      /\ S \in RemoteRows
  BY <1>1, Facts
<1>3. /\ TrueRow(a, r, Known(w), S) /\ Known(w).head.run = r
      /\ TrueRow(a, r, Stored(w), S) /\ Stored(w).head.run = r
      /\ TrueSession(a, worker[w], S)
  BY <1>1, TruthFacts
<1>4. /\ k \in DOMAIN Known(w).head.batches /\ out \in {"accepted", "staged", "rejected"}
      /\ out = "accepted" => S.batch[k] = "done"
      /\ out = "staged" /\ ~a => S.batch[k] \in {"staged", "done"} \/ S.aborts > 0
      /\ Unresolved(Known(w).head.batches[k]) \/ Staged(Known(w).head.batches[k])
      /\ out = "rejected" /\ Staged(Known(w).head.batches[k]) => a \/ S.aborts > 0
  BY <1>1, <1>3 DEF TrueSession, TrueResult, Known
<1>5. session.pc = "recover" /\ session.run = r /\ session.row = Known(w)
  BY <1>2 DEF Sessions, Known
<1>6. CASE worker' = [worker EXCEPT ![w] = session] /\ UNCHANGED control
  <2> HIDE DEF session
  <2>1. TrueSession(a, session, S) /\ session.pc \notin Reading
    BY <1>3, <1>5, TrueGoesOn DEF Reading
  <2> QED
    BY <1>1, <1>5, <1>6, <2>1, TruthLocal
<1>7. ASSUME Stored(w).head = Known(w).head, NEW new, new = WithReceipt(Stored(w), k, out),
             control' = [control EXCEPT ![r] = new],
             \/ worker' = [worker EXCEPT ![w] = Idle]
             \/ worker' = [worker EXCEPT ![w] = [session EXCEPT !.row = new]]
      PROVE  TruthInv'
  <2> DEFINE next == [session EXCEPT !.row = new]
             b == [status |-> "acknowledged", out |-> out]
             old == Stored(w).head.batches[k]
  <2>1. next.pc = "recover" /\ next.run = r /\ next.row = new
    BY <1>2 DEF Sessions
  <2>2. b.status = "acknowledged" /\ b.out = out
    OBVIOUS
  <2> HIDE DEF next, session, b, k, out
  <2>3. new.head.run = r /\ new.phase = Stored(w).phase
    BY <1>2, <1>3, <1>4, <1>7, ReceiptRow
  <2>4. TrueBatch(a, b, Stored(w).phase, S.batch[k], S)
    <3>1. TrueBatch(a, old, Stored(w).phase, S.batch[k], S) /\ (Unresolved(old) \/ Staged(old))
      BY <1>3, <1>4, <1>7 DEF TrueRow
    <3>2. out = "rejected" /\ Staged(old) => a \/ S.aborts > 0
      BY <1>4, <1>7
    <3> HIDE DEF old
    <3>3. CASE Stored(w).phase \notin FinishSide
      <4>1. Stored(w).phase \notin Confirmed /\ Stored(w).phase \notin {"finish_accepted", "complete"}
        BY <3>3 DEF Confirmed, FinishSide
      <4> QED
        BY <1>4, <2>2, <3>3, <4>1 DEF TrueBatch, Accepted, Staged
    <3>4. CASE Stored(w).phase \in FinishSide
      <4>1. ~(S.aborts > 0)
        <5>1. Stored(w).phase \notin AbortSide
          BY <3>4 DEF FinishSide, AbortSide
        <5> QED
          BY <1>2, <5>1 DEF Inv, FinishInv, Stored
      <4>2. Staged(old) /\ ~a /\ out # "rejected"
        BY <3>1, <3>2, <3>4, <4>1 DEF TrueBatch, Unresolved
      <4>3. Stored(w).phase \notin {"finish_accepted", "complete"}
        BY <3>1, <4>2 DEF TrueBatch, Staged, Accepted
      <4>4. Stored(w).phase \in Confirmed => S.batch[k] = "done"
        BY <3>1, <4>2 DEF TrueBatch
      <4> QED
        BY <1>4, <2>2, <4>2, <4>3, <4>4 DEF TrueBatch, Accepted, Staged, Rejected
    <3> QED
      BY <3>3, <3>4
  <2>5. TrueRow(a, r, new, S)
    BY <1>2, <1>3, <1>4, <1>7, <2>2, <2>4, ReceiptTrue
  <2>6. TrueSession(a, next, S) /\ next.pc \notin Reading /\ Idle.pc \notin Reading
    BY <2>1, <2>3, <2>5, TrueGoesOn DEF Reading, Idle
  <2>7. CASE worker' = [worker EXCEPT ![w] = Idle]
    BY <1>1, <1>7, <2>3, <2>5, <2>6, <2>7, TruthPublish
  <2>8. CASE worker' = [worker EXCEPT ![w] = next]
    BY <1>1, <1>7, <2>1, <2>3, <2>5, <2>6, <2>8, TruthPublish
  <2> QED
    BY <1>7, <2>7, <2>8 DEF next
<1>8. \/ worker' = [worker EXCEPT ![w] = session] /\ UNCHANGED control
      \/ /\ Stored(w).head = Known(w).head /\ control' = [control EXCEPT ![r] = WithReceipt(Stored(w), k, out)]
         /\ \/ worker' = [worker EXCEPT ![w] = Idle]
            \/ worker' = [worker EXCEPT ![w] = [session EXCEPT !.row = WithReceipt(Stored(w), k, out)]]
  BY DEF AcknowledgeRecovered, Publishable, Stored, Known
<1> HIDE DEF session
<1> QED
  BY <1>6, <1>7, <1>8

(* What recoverRun() does when every batch is known. *)
LEMMA RecoverDecideTrue ==
    ASSUME Inv, Inv', TruthInv, NEW w \in Workers, UNCHANGED stream, RecoverDecide(w)
    PROVE  TruthInv'
<1> DEFINE r == worker[w].run
           a == stream.asynchronous
           S == remote[r]
           sealed == Known(w).phase = "batches_pending"
           pc == IF Known(w).phase = "abort_prepared" THEN "abort"
                 ELSE IF worker[w].pending /\ (stream.asynchronous \/ sealed) THEN "detach"
                 ELSE IF sealed /\ ~worker[w].rejected THEN "prepareFinish"
                 ELSE "cleanup"
           point == IF pc = "prepareFinish" THEN FinalPoint(Known(w), Known(w).next) ELSE worker[w].point
           session == [worker[w] EXCEPT !.pc = pc, !.point = point]
<1>1. worker[w].pc = "recover" /\ Working(w) /\ TypeInv /\ UNCHANGED <<control, remote>>
  BY DEF RecoverDecide, Working, Inv
<1>2. worker[w] \in Sessions
  BY <1>1, Facts
<1>3. TrueRow(a, r, Known(w), S) /\ Known(w).head.run = r
  BY <1>1, TruthFacts
<1>4. pc \in {"abort", "detach", "prepareFinish", "cleanup"} /\ (pc = "prepareFinish" => Known(w).phase = "batches_pending")
  OBVIOUS
<1>5. worker' = [worker EXCEPT ![w] = session]
  BY <1>1, <1>2 DEF RecoverDecide, TypeInv, WorkerType
<1> HIDE DEF pc, point
<1>6. session.pc = pc /\ session.run = r /\ session.row = Known(w)
  BY <1>2 DEF Sessions, Known
<1> HIDE DEF session
<1>7. TrueSession(a, session, S) /\ session.pc \notin Reading
  BY <1>3, <1>4, <1>6 DEF TrueSession, Reading
<1> QED
  BY <1>1, <1>5, <1>6, <1>7, TruthLocal

(* A worker that takes a run, old or new. *)
LEMMA TruthOpen ==
    ASSUME Inv, Inv', TruthInv, NEW w \in Workers, worker[w].pc = "idle", UNCHANGED <<stream, remote>>,
           NEW r, NEW row, DOMAIN control' = DOMAIN control \cup {r}, control'[r] = row,
           \A q \in DOMAIN control \ {r} : control'[q] = control[q],
           r \in DOMAIN control => row.phase = control[r].phase,
           NEW recovered, worker' = [worker EXCEPT ![w] = Session(r, row, recovered)],
           ~recovered => row.phase = "new", TrueRow(stream.asynchronous, r, row, remote[r]),
           row.head.run <= r, row.phase # "new" => row.head.run = r
    PROVE  TruthInv'
<1> DEFINE session == Session(r, row, recovered)
<1>1. /\ session.pc = "open" /\ session.run = r /\ session.row = row /\ session.recovered = recovered
  BY DEF Session
<1> HIDE DEF session
<1>2. worker'[w] = session /\ \A v \in Workers \ {w} : worker'[v] = worker[v]
  BY DEF Inv, TypeInv, WorkerType, session
<1>3. RowInv'
  BY DEF TruthInv, RowInv
<1>4. TrueSession(stream.asynchronous, session, remote[r]) /\ session.pc \notin Reading
  BY <1>1 DEF TrueSession, Reading
<1>5. SessionInv'
  <2> SUFFICES ASSUME NEW v \in Workers, Working(v)'
               PROVE  TrueSession(stream.asynchronous, worker'[v], remote[worker'[v].run])
    BY DEF SessionInv
  <2>1. CASE v = w
    BY <1>1, <1>2, <1>4, <2>1
  <2>2. CASE v # w
    BY <1>2, <2>2 DEF TruthInv, SessionInv, Working
  <2> QED
    BY <2>1, <2>2
<1>6. ReaderInv'
  <2>1. ASSUME NEW v \in Workers, worker'[v].pc \in Reading
        PROVE  v # w /\ worker'[v] = worker[v] /\ worker[v].run \in DOMAIN control
    <3>1. v # w /\ worker'[v] = worker[v]
      BY <1>2, <1>4, <2>1
    <3>2. Working(v)
      BY <2>1, <3>1 DEF Working, Reading
    <3> QED
      BY <3>1, <3>2, Facts DEF Inv
  <2>2. ASSUME NEW v \in Workers, worker'[v].pc \in Reading
        PROVE  control'[worker'[v].run].phase \in Readable
    <3>1. control[worker[v].run].phase \in Readable
      BY <2>1, <2>2 DEF TruthInv, ReaderInv
    <3> QED
      BY <2>1, <2>2, <3>1
  <2>3. ASSUME NEW u \in Workers, NEW v \in Workers, worker'[u].pc \in Reading, worker'[v].pc \in Reading,
               worker'[u].run = worker'[v].run
        PROVE  u = v
    BY <2>1, <2>3 DEF TruthInv, ReaderInv
  <2> QED
    BY <2>2, <2>3 DEF ReaderInv
<1>7. ProviderInv'
  BY DEF TruthInv, ProviderInv
<1> QED
  BY <1>3, <1>5, <1>6, <1>7 DEF TruthInv

(* openRun() of a run that exists. *)
LEMMA ReopenTrue ==
    ASSUME Inv, Inv', TruthInv, NEW w \in Workers, worker[w].pc = "idle", UNCHANGED <<stream, remote>>,
           NEW r \in DOMAIN control, ReopenRun(w, r)
    PROVE  TruthInv'
<1> DEFINE row == IF control[r].phase = "new" THEN Rebased(control[r]) ELSE control[r]
<1>1. control \in Seq(ControlRows) /\ control[r] \in ControlRows
  BY DEF Inv, TypeInv, ControlType
<1>2. row.head = control[r].head /\ row.phase = control[r].phase
  BY <1>1 DEF Rebased, ControlRows
<1>3. control' = [control EXCEPT ![r] = row] /\ worker' = [worker EXCEPT ![w] = Session(r, row, control[r].phase # "new")]
  BY DEF ReopenRun
<1> HIDE DEF row
<1>4. /\ DOMAIN control' = DOMAIN control \cup {r} /\ control'[r] = row
      /\ \A q \in DOMAIN control \ {r} : control'[q] = control[q]
  BY <1>1, <1>3
<1>5. /\ TrueRow(stream.asynchronous, r, control[r], remote[r]) /\ control[r].head.run <= r
      /\ control[r].phase # "new" => control[r].head.run = r
  BY DEF TruthInv, RowInv
<1>6. TrueRow(stream.asynchronous, r, row, remote[r])
  BY <1>2, <1>5, PhaseTrue
<1> QED
  BY <1>2, <1>3, <1>4, <1>5, <1>6, TruthOpen

(* openRun() of a new run: the head it inherits belongs to another one. *)
LEMMA OpenNewTrue ==
    ASSUME Inv, Inv', TruthInv, NEW w \in Workers, worker[w].pc = "idle", UNCHANGED <<stream, remote>>,
           OpenNewRun(w)
    PROVE  TruthInv'
<1> DEFINE r == Len(control) + 1
           head == IF r = 1 THEN NewRow.head ELSE control[r - 1].head
           row == [Rebased(NewRow) EXCEPT !.head = head]
<1>1. control \in Seq(ControlRows) /\ Len(control) \in Nat /\ DOMAIN control = 1 .. Len(control)
  BY DEF Inv, TypeInv, ControlType
<1>2. control' = Append(control, row) /\ worker' = [worker EXCEPT ![w] = Session(r, row, FALSE)]
  BY DEF OpenNewRun
<1>3. row.head = head /\ row.phase = "new"
  BY DEF Rebased, NewRow
<1>4. r = 1 => head.run = 1 /\ head.batches = <<>>
  BY DEF NewRow
<1>5. r # 1 => head.run < r /\ head.run \in Nat
  <2> SUFFICES ASSUME r # 1 PROVE head.run < r /\ head.run \in Nat
    OBVIOUS
  <2>1. r - 1 \in DOMAIN control /\ head = control[r - 1].head
    BY <1>1
  <2>2. control[r - 1].head.run <= r - 1 /\ control[r - 1].head.run \in Nat
    <3>1. control[r - 1].head.run <= r - 1
      BY <2>1 DEF TruthInv, RowInv
    <3>2. control[r - 1] \in ControlRows
      BY <1>1, <2>1
    <3>3. control[r - 1].head \in Heads
      BY <3>2 DEF ControlRows
    <3>4. control[r - 1].head.run \in Nat
      BY <3>3, ConstantsAssumption DEF Heads, Runs
    <3> QED
      BY <3>1, <3>4
  <2> QED
    BY <1>1, <2>1, <2>2
<1> HIDE DEF row, head
<1>6. /\ DOMAIN control' = DOMAIN control \cup {r} /\ control'[r] = row
      /\ \A q \in DOMAIN control \ {r} : control'[q] = control[q]
      /\ r \notin DOMAIN control /\ r \in Nat
  BY <1>1, <1>2
<1>7. row.head.run <= r
  BY <1>1, <1>3, <1>4, <1>5
<1>8. TrueRow(stream.asynchronous, r, row, remote[r])
  <2>1. CASE r = 1
    BY <1>3, <1>4, <2>1, EmptyRow
  <2>2. CASE r # 1
    <3>1. row.head.run # r
      BY <1>1, <1>3, <1>5, <2>2
    <3> QED
      BY <3>1 DEF TrueRow
  <2> QED
    BY <2>1, <2>2
<1> HIDE DEF r
<1> QED
  BY <1>2, <1>3, <1>6, <1>7, <1>8, TruthOpen

(* Attempts and recoveries start. *)
LEMMA StartsTrue ==
    ASSUME Inv, Inv', TruthInv, NEW w \in Workers, UNCHANGED stream, StartAttempt(w) \/ StartRecovery(w)
    PROVE  TruthInv'
<1>1. worker[w].pc = "idle" /\ UNCHANGED remote
  BY DEF StartAttempt, StartRecovery
<1>2. CASE \E r \in DOMAIN control : ReopenRun(w, r)
  BY <1>1, <1>2, ReopenTrue
<1>3. CASE OpenNewRun(w)
  BY <1>1, <1>3, OpenNewTrue
<1> QED
  BY <1>2, <1>3 DEF StartAttempt, StartRecovery, Attached

(* The provider works on its own. *)
LEMMA TruthElsewhere ==
    ASSUME Inv, TruthInv, UNCHANGED <<stream, control, worker>>, NEW r \in Runs, NEW s,
           remote' = [remote EXCEPT ![r] = s], Grows(stream.asynchronous, remote[r], s), TrueProvider(s)
    PROVE  TruthInv'
<1> DEFINE a == stream.asynchronous
<1>1. remote'[r] = s /\ \A q \in Runs \ {r} : remote'[q] = remote[q]
  BY DEF Inv, TypeInv, RemoteType
<1>2. \A q \in Runs : Grows(a, remote[q], remote'[q])
  BY <1>1 DEF Grows
<1>3. DOMAIN control \subseteq Runs
  BY ConstantsAssumption DEF Inv, TypeInv, ControlType, Runs
<1>4. RowInv'
  BY <1>2, <1>3, RowGrows DEF TruthInv, RowInv
<1>5. SessionInv'
  <2> SUFFICES ASSUME NEW v \in Workers, Working(v)
               PROVE  TrueSession(a, worker[v], remote'[worker[v].run])
    BY DEF SessionInv, Working
  <2>1. worker[v].run \in Runs /\ TrueSession(a, worker[v], remote[worker[v].run])
    BY Facts DEF TruthInv, SessionInv, Inv
  <2> QED
    BY <1>2, <2>1, SessionGrows
<1>6. ReaderInv'
  BY DEF TruthInv, ReaderInv
<1>7. ProviderInv'
  BY <1>1 DEF TruthInv, ProviderInv
<1> QED
  BY <1>4, <1>5, <1>6, <1>7 DEF TruthInv

(* New rows, and jobs and finishes that end. *)
LEMMA EnvironmentTrue ==
    ASSUME Inv, TruthInv, UNCHANGED stream, NewSourceRow \/ Provider
    PROVE  TruthInv'
<1>1. CASE NewSourceRow
  BY <1>1 DEF NewSourceRow, TruthInv, RowInv, SessionInv, ReaderInv, ProviderInv, Working
<1>2. ASSUME NEW r \in Runs, SettleFinish(r) PROVE TruthInv'
  <2>1. remote[r] \in RemoteRows /\ TrueProvider(remote[r])
    BY DEF Inv, TypeInv, RemoteType, TruthInv, ProviderInv
  <2>2. remote[r].finishes > 0
    BY <1>2, <2>1 DEF SettleFinish, TrueProvider
  <2>3. stream.asynchronous \in BOOLEAN
    BY DEF Inv, TypeInv, StreamType, StreamKinds
  <2>4. Grows(stream.asynchronous, remote[r], FinishedSession(remote[r])) /\ TrueProvider(FinishedSession(remote[r]))
    BY <2>1, <2>2, <2>3, SessionFinished
  <2> QED
    BY <1>2, <2>4, TruthElsewhere DEF SettleFinish
<1>3. ASSUME NEW r \in Runs, NEW k \in Rows, SettleBatch(r, k) PROVE TruthInv'
  <2> DEFINE t(x) == [remote[r] EXCEPT !.batch[k] = x]
  <2>1. remote[r] \in RemoteRows /\ TrueProvider(remote[r])
    BY DEF Inv, TypeInv, RemoteType, TruthInv, ProviderInv
  <2>2. PICK x : remote' = [remote EXCEPT ![r] = t(x)]
    BY <1>3 DEF SettleBatch
  <2>3. /\ t(x).batch[k] = x /\ \A j \in Rows \ {k} : t(x).batch[j] = remote[r].batch[j]
        /\ t(x).calls = remote[r].calls /\ t(x).session = remote[r].session
        /\ t(x).finishes = remote[r].finishes /\ t(x).aborts = remote[r].aborts
    BY <2>1 DEF RemoteRows
  <2> HIDE DEF t
  <2>4. stream.asynchronous /\ remote[r].batch[k] = "staged"
    BY <1>3 DEF SettleBatch
  <2>5. Grows(stream.asynchronous, remote[r], t(x)) /\ TrueProvider(t(x))
    BY <2>1, <2>3, <2>4 DEF Grows, TrueProvider
  <2> QED
    BY <1>3, <2>2, <2>5, TruthElsewhere DEF SettleBatch
<1> QED
  BY <1>1, <1>2, <1>3 DEF Provider

(* The journal is true to the provider in every reachable state. *)
LEMMA Truth == Spec => []TruthInv
<1>1. Init => TruthInv
  <2> SUFFICES ASSUME Init PROVE TruthInv
    OBVIOUS
  <2>1. \A w \in Workers : ~Working(w) /\ worker[w].pc \notin Reading
    BY DEF Init, Idle, Working, Reading
  <2>2. DOMAIN control = {}
    BY DEF Init
  <2>3. \A r \in Runs : TrueProvider(remote[r])
    BY DEF Init, TrueProvider
  <2> QED
    BY <2>1, <2>2, <2>3 DEF TruthInv, RowInv, SessionInv, ReaderInv, ProviderInv
<1>2. Inv /\ Inv' /\ TruthInv /\ [Next]_vars => TruthInv'
  <2> SUFFICES ASSUME Inv, Inv', TruthInv, [Next]_vars PROVE TruthInv'
    OBVIOUS
  <2>1. CASE UNCHANGED vars
    BY <2>1 DEF vars, progress, TruthInv, RowInv, SessionInv, ReaderInv, ProviderInv, Working
  <2>2. CASE Next
    <3>1. UNCHANGED stream
      BY <2>2 DEF Next
    <3>2. CASE NewSourceRow \/ Provider
      BY <3>1, <3>2, EnvironmentTrue
    <3>3. ASSUME NEW w \in Workers, Deliver(w) PROVE TruthInv'
      BY <3>1, <3>3, OpenJournalTrue, FailuresTrue, InitPhasesTrue, PrepareTrue, CallBatchTrue, MarkUnknownTrue,
         AcknowledgeTrue, CheckpointTrue, SealTrue, PrepareFinishTrue, CallFinishTrue, FinishReceiptsTrue,
         AttemptEndsTrue, CleanupTrue DEF Deliver
    <3>4. ASSUME NEW w \in Workers, Recover(w) PROVE TruthInv'
      BY <3>1, <3>4, RecoverEndsTrue, RecoverBatchTrue, AcknowledgeRecoveredTrue, RecoverDecideTrue DEF Recover
    <3>5. ASSUME NEW w \in Workers, StartAttempt(w) \/ StartRecovery(w) PROVE TruthInv'
      BY <3>1, <3>5, StartsTrue
    <3>6. ASSUME NEW w \in Workers, Crash(w) \/ Interrupt(w) \/ PublishRefused(w) PROVE TruthInv'
      BY <3>1, <3>6, FailuresTrue
    <3> QED
      BY <2>2, <3>2, <3>3, <3>4, <3>5, <3>6 DEF Next
  <2> QED
    BY <2>1, <2>2
<1> QED
  BY <1>1, <1>2, Invariance, PTL DEF Spec

(* A receipt that says "accepted" is true at the provider (acknowledge, finish *)
(* and acknowledgeRecovered, journal.ts), also when workers overlap.            *)
THEOREM TrueReceipts == Spec => []ReceiptsAreTrue
<1>1. TruthInv => ReceiptsAreTrue
  BY DEF TruthInv, RowInv, TrueRow, TrueBatch, ReceiptsAreTrue
<1> QED
  BY <1>1, Truth, PTL

(* A run that is recorded as complete (commitCheckpoint, journal.ts) has every *)
(* batch it extracted at the provider, also when workers overlap.              *)
THEOREM CompleteRuns == Spec => []CompleteIsDelivered
<1>1. TruthInv => CompleteIsDelivered
  <2> SUFFICES ASSUME TruthInv, NEW r \in DOMAIN control, control[r].phase = "complete",
                      NEW k \in DOMAIN control[r].head.batches
               PROVE  remote[r].batch[k] = "done"
    BY DEF CompleteIsDelivered
  <2>1. control[r].head.run = r /\ TrueRow(stream.asynchronous, r, control[r], remote[r])
    BY DEF TruthInv, RowInv
  <2> QED
    BY <2>1 DEF TrueRow, TrueBatch
<1> QED
  BY <1>1, Truth, PTL
=============================================================================
