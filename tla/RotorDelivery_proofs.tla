------------------------ MODULE RotorDelivery_proofs ------------------------
(***************************************************************************)
(* Proofs about RotorDelivery, for any number of messages, connections,      *)
(* partitions, slots and retries, any retry policies of the users' functions,  *)
(* and whatever crashes, shutdowns, exceptions, failing sends and              *)
(* configuration changes meet: the type invariant; that no event    *)
(* disappears for a connection; that an event is dead-lettered after all of    *)
(* its attempts only; and that connections are retried independently.         *)
(***************************************************************************)
EXTENDS RotorDelivery, SequenceTheorems, TLAPS

-----------------------------------------------------------------------------
(* The inductive invariant.                                                  *)

(* The types of the variables. *)
LogType == log \in [Partitions -> Seq(Records)] /\ retryLog \in Seq(Records)
OffsetType ==
    /\ position \in [Partitions -> Nat] /\ stored \in [Partitions -> Nat]
    /\ committed \in [Partitions -> Nat]
FeedType == feed \in [Partitions -> Feeds \cup {None}]
QueueType == queue \in Seq(QueueTasks)
SlotType ==
    /\ slots \in [Slots -> RunningTasks \cup {None}]
    /\ \A s \in Slots : slots[s] # None => slots[s].chains \in [slots[s].rec.conns -> Chains]
SmallType ==
    /\ status \in {"running", "disconnected"}
    /\ config \in [Connections -> {"absent", "missing", "empty", "functions"}]
    /\ tries \in [Messages \X Connections -> 0 .. (RetryCount + 1)]
    /\ budget \in [failures : Nat, faults : Nat, crashed : BOOLEAN]
TypeInv == LogType /\ OffsetType /\ FeedType /\ QueueType /\ SlotType /\ SmallType

(* Offsets: a callback under way has the last record read of its partition,   *)
(* all the others are over; a consumer that left has committed everything.    *)
OffsetInv ==
    /\ \A p \in Partitions :
         /\ committed[p] <= stored[p] /\ stored[p] <= position[p] /\ position[p] <= Len(log[p])
         /\ feed[p] = None => stored[p] = position[p]
         /\ feed[p] # None => feed[p].offset = position[p] /\ position[p] = stored[p] + 1
         /\ status = "disconnected" => feed[p] = None /\ committed[p] = stored[p]

(* A task is about the record it was made from. *)
InLog(records, at, rec) == at[2] \in 1 .. Len(records[at[1]]) /\ records[at[1]][at[2]] = rec
TaskInv ==
    /\ \A i \in DOMAIN queue : InLog(log, queue[i].at, queue[i].rec)
    /\ \A s \in Slots : slots[s] # None => InLog(log, slots[s].at, slots[s].rec)

(* A chain: while it runs there is an event for the next function, and the    *)
(* destination is the last one; one that ended without an error is settled;   *)
(* one that failed has an error to tell.                                       *)
Sound(chain) ==
    /\ chain.pc = "run" => /\ chain.events # <<>> /\ chain.funcs # <<>>
                           /\ chain.funcs[Len(chain.funcs)] = "destination"
    /\ chain.pc = "failed" => chain.errors # <<>>

ChainInv ==
    \A s \in Slots : slots[s] # None => \A c \in slots[s].rec.conns :
        /\ Sound(slots[s].chains[c])
        /\ slots[s].chains[c].pc = "check" /\ slots[s].chains[c].errors = <<>>
              => Settled(Pair(slots[s].rec, c))

(* Every retry was preceded by an attempt; what waits for a retry may have one. *)
Tried(count, rec, n) == \A c \in rec.conns : count[Pair(rec, c)] >= n
TriesInv ==
    /\ \A p \in Partitions : \A i \in DOMAIN log[p] : Tried(tries, log[p][i], log[p][i].retries)
    /\ \A s \in Slots : slots[s] # None => Tried(tries, slots[s].rec, slots[s].rec.retries + 1)
    /\ \A i \in DOMAIN retryLog :
         Tried(tries, retryLog[i], retryLog[i].retries + 1) /\ retryLog[i].retries + 1 <= RetryCount

DeadTyped == \A d \in dead : d.rec.msg \in Messages /\ d.conn \in Connections /\ d.attempts \in Nat
AllTries == TriesInv /\ DeadAfterAllAttempts /\ DeadTyped

(* Who still holds an event x = <<message, connection>>: a record no callback  *)
(* is done with, a waiting task, a chain at work, a record of the retry topic.  *)
Covers(rec, x) == rec.msg = x[1] /\ x[2] \in rec.conns
LogHolds(p, i, x) == i \in (stored[p] + 1) .. Len(log[p]) /\ Covers(log[p][i], x)
QueueHolds(i, x) == i \in DOMAIN queue /\ Covers(queue[i].rec, x)
SlotHolds(s, x) ==
    slots[s] # None /\ Covers(slots[s].rec, x) /\ slots[s].chains[x[2]].pc # "done"
RetryHolds(i, x) == i \in DOMAIN retryLog /\ Covers(retryLog[i], x)
Held(x) ==
    \/ \E p \in Partitions, i \in Nat : LogHolds(p, i, x)
    \/ \E i \in Nat : QueueHolds(i, x)
    \/ \E s \in Slots : SlotHolds(s, x)
    \/ \E i \in Nat : RetryHolds(i, x)

KeptInv == \A x \in Produced \X Connections : Held(x) \/ Settled(x)

(* ... and it is the only one. *)
Single(x) ==
    /\ \A p, q \in Partitions, i, j \in Nat : LogHolds(p, i, x) /\ LogHolds(q, j, x) => p = q /\ i = j
    /\ \A i, j \in Nat : QueueHolds(i, x) /\ QueueHolds(j, x) => i = j
    /\ \A s, t \in Slots : SlotHolds(s, x) /\ SlotHolds(t, x) => s = t
    /\ \A i, j \in Nat : RetryHolds(i, x) /\ RetryHolds(j, x) => i = j
    /\ \A p \in Partitions, i, j \in Nat : ~(LogHolds(p, i, x) /\ QueueHolds(j, x))
    /\ \A p \in Partitions, i \in Nat, s \in Slots : ~(LogHolds(p, i, x) /\ SlotHolds(s, x))
    /\ \A p \in Partitions, i, j \in Nat : ~(LogHolds(p, i, x) /\ RetryHolds(j, x))
    /\ \A i \in Nat, s \in Slots : ~(QueueHolds(i, x) /\ SlotHolds(s, x))
    /\ \A i, j \in Nat : ~(QueueHolds(i, x) /\ RetryHolds(j, x))
    /\ \A i \in Nat, s \in Slots : ~(SlotHolds(s, x) /\ RetryHolds(i, x))

SingleInv ==
    /\ \A i \in DOMAIN retryLog : retryLog[i].msg \in Produced
    /\ \A x \in clean : x \in Messages \X Connections /\ x[1] \in Produced
    /\ ~budget.crashed => \A x \in Messages \X Connections : Single(x) /\ (x \in clean => ~Held(x))

Inv ==
    /\ TypeInv /\ OffsetInv /\ TaskInv /\ ChainInv
    /\ TriesInv /\ DeadAfterAllAttempts /\ DeadTyped
    /\ KeptInv /\ SingleInv

-----------------------------------------------------------------------------
(* Data.                                                                     *)

(* A sequence without its i-th element, as Redeliver leaves the retry topic. *)
LEMMA WithoutOne ==
    ASSUME NEW S, NEW q \in Seq(S), NEW i \in 1 .. Len(q)
    PROVE  LET r == SubSeq(q, 1, i - 1) \o SubSeq(q, i + 1, Len(q)) IN
           /\ r \in Seq(S) /\ Len(r) = Len(q) - 1
           /\ \A j \in 1 .. Len(r) : r[j] = IF j < i THEN q[j] ELSE q[j + 1]
<1> DEFINE a == SubSeq(q, 1, i - 1)
           b == SubSeq(q, i + 1, Len(q))
           r == a \o b
<1>1. a \in Seq(S) /\ Len(a) = i - 1 /\ \A j \in 1 .. (i - 1) : a[j] = q[j]
  <2>1. 1 \in Int /\ i - 1 \in Int /\ \A j \in 1 .. (i - 1) : q[j] \in S
    OBVIOUS
  <2>2. QED
    BY <2>1, SubSeqProperties
<1>2. b \in Seq(S) /\ Len(b) = Len(q) - i /\ \A j \in 1 .. (Len(q) - i) : b[j] = q[j + i]
  <2>1. i + 1 \in Int /\ Len(q) \in Int /\ \A j \in (i + 1) .. Len(q) : q[j] \in S
    OBVIOUS
  <2>2. /\ b \in Seq(S) /\ Len(b) = IF i + 1 <= Len(q) THEN Len(q) - (i + 1) + 1 ELSE 0
        /\ \A j \in 1 .. (Len(q) - (i + 1) + 1) : b[j] = q[(i + 1) + j - 1]
    BY <2>1, SubSeqProperties
  <2> HIDE DEF b
  <2>3. QED
    BY <2>2
<1> HIDE DEF a, b, r
<1>3. /\ a \o b \in Seq(S) /\ Len(a \o b) = Len(a) + Len(b)
      /\ \A j \in 1 .. (Len(a) + Len(b)) : (a \o b)[j] = IF j <= Len(a) THEN a[j] ELSE b[j - Len(a)]
  <2>1. a \in Seq(S) /\ b \in Seq(S)
    BY <1>1, <1>2
  <2>2. QED
    BY ONLY <2>1, ConcatProperties
<1>5. /\ r \in Seq(S) /\ Len(r) = Len(a) + Len(b)
      /\ \A j \in 1 .. (Len(a) + Len(b)) : r[j] = IF j <= Len(a) THEN a[j] ELSE b[j - Len(a)]
  BY <1>3 DEF r
<1>6. ASSUME NEW j \in 1 .. Len(r)
      PROVE  r[j] = IF j < i THEN q[j] ELSE q[j + 1]
  <2>1. Len(a) \in Nat /\ Len(b) \in Nat /\ Len(q) \in Nat /\ j \in 1 .. (Len(a) + Len(b)) /\ i \in Nat
    BY <1>1, <1>2, <1>5
  <2>2. CASE j < i
    <3>1. j <= Len(a) /\ j \in 1 .. (i - 1)
      BY <1>1, <2>1, <2>2
    <3>2. QED
      BY <1>1, <1>5, <2>1, <2>2, <3>1
  <2>3. CASE ~(j < i)
    <3> DEFINE k == j - Len(a)
    <3>1. ~(j <= Len(a)) /\ k \in 1 .. (Len(q) - i) /\ k + i = j + 1
      BY <1>1, <1>2, <2>1, <2>3
    <3>2. r[j] = b[k]
      BY <1>5, <2>1, <3>1
    <3> HIDE DEF k
    <3>3. b[k] = q[k + i]
      BY <1>2, <3>1
    <3>4. QED
      BY <2>3, <3>1, <3>2, <3>3
  <2>4. QED
    BY <2>2, <2>3
<1>7. Len(r) = Len(q) - 1
  <2>1. Len(a) = i - 1 /\ Len(b) = Len(q) - i /\ Len(r) = Len(a) + Len(b) /\ Len(q) \in Nat /\ i \in Nat
    BY <1>1, <1>2, <1>5
  <2>2. QED
    BY ONLY <2>1
<1>8. QED
  BY <1>5, <1>6, <1>7 DEF a, b, r

(* What Append and Tail do to the elements of a sequence. *)
LEMMA Appended ==
    ASSUME NEW S, NEW q \in Seq(S), NEW e \in S
    PROVE  /\ Append(q, e) \in Seq(S) /\ Len(Append(q, e)) = Len(q) + 1
           /\ \A j \in 1 .. Len(q) : Append(q, e)[j] = q[j]
           /\ Append(q, e)[Len(q) + 1] = e
OBVIOUS

(* What Head and Tail leave of a sequence. *)
LEMMA Tailed ==
    ASSUME NEW S, NEW q \in Seq(S), q # <<>>
    PROVE  /\ Tail(q) \in Seq(S) /\ Len(Tail(q)) = Len(q) - 1 /\ Head(q) = q[1] /\ Head(q) \in S
           /\ \A j \in 1 .. (Len(q) - 1) : Tail(q)[j] = q[j + 1]
           /\ Len(q) # 1 => Tail(q) # <<>> /\ Tail(q)[Len(Tail(q))] = q[Len(q)]
<1>1. /\ Tail(q) \in Seq(S) /\ Len(Tail(q)) = Len(q) - 1 /\ Head(q) = q[1] /\ Head(q) \in S
      /\ \A j \in 1 .. (Len(q) - 1) : Tail(q)[j] = q[j + 1]
  OBVIOUS
<1> DEFINE t == Tail(q)
<1> HIDE DEF t
<1>2. t \in Seq(S) /\ Len(t) = Len(q) - 1 /\ \A j \in 1 .. (Len(q) - 1) : t[j] = q[j + 1]
  BY <1>1 DEF t
<1>3. ASSUME Len(q) # 1
      PROVE  t # <<>> /\ t[Len(t)] = q[Len(q)]
  <2>1. Len(q) \in Nat /\ Len(q) - 1 \in 1 .. (Len(q) - 1) /\ (Len(q) - 1) + 1 = Len(q)
    <3> DEFINE n == Len(q)
    <3>1. n \in Nat /\ n # 0 /\ n # 1
      BY <1>3, EmptySeq
    <3> HIDE DEF n
    <3>2. n \in Nat /\ n - 1 \in 1 .. (n - 1) /\ (n - 1) + 1 = n
      BY <3>1
    <3>3. QED
      BY <3>2 DEF n
  <2>2. t[Len(q) - 1] = q[(Len(q) - 1) + 1]
    BY <1>2, <2>1
  <2>3. QED
    BY <1>2, <1>3, <2>1, <2>2
<1>4. QED
  BY <1>1, <1>3 DEF t

(* A message is produced when a record of some partition is about it. *)
LEMMA ProducedIff ==
    ASSUME NEW m
    PROVE  m \in Produced <=> \E p \in Partitions : \E i \in DOMAIN log[p] : log[p][i].msg = m
BY DEF Produced

(* buildFunctionChain() ends with the destination. *)
LEMMA FunctionsFacts ==
    ASSUME NEW rec \in Records, NEW c \in Connections
    PROVE  /\ Functions(rec, c) \in Seq(Funcs) /\ Functions(rec, c) # <<>>
           /\ Functions(rec, c)[Len(Functions(rec, c))] = "destination"
<1> DEFINE last == <<"destination">>
<1>1. last \in Seq(Funcs) /\ Len(last) = 1 /\ last[1] = "destination"
  BY DEF Funcs
<1>2. /\ <<"transformation">> \in Seq(Funcs) /\ <<"udf">> \in Seq(Funcs) /\ <<>> \in Seq(Funcs)
  BY DEF Funcs
<1> HIDE DEF last
<1>3. ASSUME NEW a \in Seq(Funcs), NEW b \in Seq(Funcs)
      PROVE  /\ (a \o b) \o last \in Seq(Funcs) /\ (a \o b) \o last # <<>>
             /\ ((a \o b) \o last)[Len((a \o b) \o last)] = "destination"
  <2> DEFINE d == a \o b
  <2>1. d \in Seq(Funcs)
    BY ConcatProperties
  <2> HIDE DEF d
  <2>2. /\ d \o last \in Seq(Funcs) /\ Len(d \o last) = Len(d) + Len(last)
        /\ \A j \in 1 .. (Len(d) + Len(last)) :
             (d \o last)[j] = IF j <= Len(d) THEN d[j] ELSE last[j - Len(d)]
    <3>1. last \in Seq(Funcs)
      BY <1>1
    <3>2. QED
      BY ONLY <2>1, <3>1, ConcatProperties
  <2> DEFINE e == d \o last
  <2> HIDE DEF e
  <2>3. e \in Seq(Funcs) /\ Len(e) = Len(d) + 1 /\ e[Len(d) + 1] = "destination"
    BY <1>1, <2>1, <2>2 DEF e
  <2>4. e # <<>> /\ e[Len(e)] = "destination"
    BY <2>1, <2>3
  <2>5. (a \o b) \o last = e
    BY DEF d, e
  <2>6. QED
    BY <2>3, <2>4, <2>5
<1>4. \E a, b \in Seq(Funcs) : Functions(rec, c) = (a \o b) \o last
  <2> DEFINE configured == Steps[c] \ (IF config[c] = "empty" THEN {"udf"} ELSE {})
             In(f) == IF f \in configured \cap Filter(rec.func) THEN <<f>> ELSE <<>>
  <2>1. Functions(rec, c) = (In("transformation") \o In("udf")) \o last
    BY DEF Functions, last
  <2>2. In("transformation") \in Seq(Funcs) /\ In("udf") \in Seq(Funcs)
    BY <1>2
  <2>3. QED
    BY <2>1, <2>2
<1>5. QED
  BY <1>3, <1>4

(* A chain that has just been made. *)
LEMMA ChainFacts ==
    ASSUME NEW rec \in Records, NEW c \in Connections, SmallType
    PROVE  /\ Chain(rec, c) \in Chains /\ Sound(Chain(rec, c))
           /\ Chain(rec, c).pc # "check"
           /\ Chain(rec, c).pc = "done" <=> config[c] = "missing"
<1> DEFINE pc == CASE config[c] = "absent" -> "failed" [] config[c] = "missing" -> "done" [] OTHER -> "run"
           errors == IF config[c] = "absent" THEN <<Err("Error", "none", rec.event, RetryCount)>> ELSE <<>>
           funcs == Functions(rec, c)
           events == <<rec.event>>
<1>1. /\ pc \in {"run", "failed", "done"}
      /\ pc = "done" <=> config[c] = "missing"
      /\ pc = "failed" => errors # <<>>
  BY DEF SmallType
<1>2. rec.event \in Events
  BY DEF Records
<1>3. Err("Error", "none", rec.event, RetryCount) \in Errs
  BY <1>2, ConstantsAssumption DEF Err, Errs, Names
<1>4. errors \in Seq(Errs) /\ events \in Seq(Events) /\ events # <<>> /\ <<>> \in Seq(Events)
  BY <1>2, <1>3
<1>5. funcs \in Seq(Funcs) /\ funcs # <<>> /\ funcs[Len(funcs)] = "destination"
  BY FunctionsFacts
<1>6. Chain(rec, c) = [pc |-> pc, funcs |-> funcs, events |-> events, out |-> <<>>, errors |-> errors]
  BY DEF Chain
<1> HIDE DEF pc, errors, funcs, events
<1>7. QED
  BY <1>1, <1>4, <1>5, <1>6 DEF Chains, Sound

(* Tasks, waiting and started. *)
LEMMA StartedFacts ==
    ASSUME NEW task \in QueueTasks, SmallType
    PROVE  /\ Started(task) \in RunningTasks /\ Started(task) # None
           /\ Started(task).at = task.at /\ Started(task).rec = task.rec
           /\ Started(task).chains \in [task.rec.conns -> Chains]
           /\ \A c \in task.rec.conns : Started(task).chains[c] = Chain(task.rec, c)
<1>1. task.rec \in Records /\ task.rec.conns \in SUBSET Connections /\ task.at \in Partitions \X Nat
  BY DEF QueueTasks, Records
<1>2. \A c \in task.rec.conns : Chain(task.rec, c) \in Chains
  BY <1>1, ChainFacts
<1>3. [c \in task.rec.conns |-> Chain(task.rec, c)] \in [task.rec.conns -> Chains]
  BY <1>2
<1>4. Started(task) \in RunningTasks
  <2>1. [c \in task.rec.conns |-> Chain(task.rec, c)] \in UNION {[conns -> Chains] : conns \in SUBSET Connections}
    BY <1>1, <1>3
  <2>2. QED
    BY <1>1, <2>1 DEF Started, RunningTasks
<1>5. QED
  BY <1>3, <1>4, NoneAssumption DEF Started

(* The task that is made of a record. *)
LEMMA TaskFacts ==
    ASSUME TypeInv, NEW p \in Partitions, NEW i \in 1 .. Len(log[p])
    PROVE  /\ log[p][i] \in Records
           /\ Task(p, i) \in QueueTasks /\ Task(p, i).at = <<p, i>> /\ Task(p, i).rec = log[p][i]
<1>1. log[p][i] \in Records /\ i \in Nat
  BY DEF TypeInv, LogType
<1>2. QED
  BY <1>1 DEF Task, QueueTasks

(* One call: what goes on and what is reported.  A call that leaves neither an  *)
(* event nor an error has dropped the event, and a destination that reports no   *)
(* error has taken it.                                                           *)
LEMMA CallFacts ==
    ASSUME NEW f \in Funcs, NEW e \in Events, NEW outcome \in Outcomes(f), NEW attempts \in Nat
    PROVE  /\ Result(f, outcome, e) \in Seq(Events) /\ Errors(f, outcome, e, attempts) \in Seq(Errs)
           /\ Result(f, outcome, e) = <<>> /\ Errors(f, outcome, e, attempts) = <<>> => outcome = "drop"
           /\ f = "destination" /\ Errors(f, outcome, e, attempts) = <<>> => outcome = "ok"
<1>1. /\ [e EXCEPT !.transformed = @ + 1] \in Events
      /\ [e EXCEPT !.processed = @ + 1] \in Events
      /\ [e EXCEPT !.processed = @ + 1, !.part = 1] \in Events
      /\ [e EXCEPT !.processed = @ + 1, !.part = 2] \in Events
  <2>1. e.transformed + 1 \in Nat /\ e.processed + 1 \in Nat /\ 1 \in 0 .. 2 /\ 2 \in 0 .. 2
    BY DEF Events
  <2>2. QED
    BY <2>1 DEF Events
<1>2. Result(f, outcome, e) \in Seq(Events)
  <2>1. \A a, b \in Events : <<a>> \in Seq(Events) /\ <<a, b>> \in Seq(Events) /\ <<>> \in Seq(Events)
    OBVIOUS
  <2>2. Processed(f, e) \in Seq(Events)
    BY <1>1, <2>1 DEF Processed
  <2>3. QED
    BY <1>1, <2>1, <2>2 DEF Result
<1>3. Errors(f, outcome, e, attempts) \in Seq(Errs)
  <2>1. \A name \in Names, func \in Funcs \cup {"pipeline"}, n \in Nat : Err(name, func, e, n) \in Errs
    BY DEF Err, Errs
  <2>2. CASE f # "udf"
    BY <2>1, <2>2 DEF Errors, Outcomes, Funcs, Names
  <2>3. CASE f = "udf"
    BY <2>1, <2>3, ConstantsAssumption DEF Errors, Outcomes, Funcs, Names
  <2>4. QED
    BY <2>2, <2>3
<1>4. Result(f, outcome, e) = <<>> => outcome \in {"drop", "DropRetryError", "NoRetryError", "unreachable"}
  BY DEF Result, Processed, Outcomes, Funcs
<1>5. outcome \in {"DropRetryError", "NoRetryError", "unreachable"} => Errors(f, outcome, e, attempts) # <<>>
  BY DEF Errors
<1>6. f = "destination" /\ outcome # "ok" => Errors(f, outcome, e, attempts) # <<>>
  BY DEF Errors, Outcomes
<1>7. QED
  BY <1>2, <1>3, <1>4, <1>5, <1>6

(* Advance(): a chain runs on soundly, or has nothing left to do. *)
LEMMA AdvanceFacts ==
    ASSUME NEW chain \in Chains, chain.pc = "run", Sound(chain), NEW out \in Seq(Events), NEW errors \in Seq(Errs)
    PROVE  /\ Advance(chain, out, errors) \in Chains /\ Sound(Advance(chain, out, errors))
           /\ Advance(chain, out, errors).errors = errors
           /\ Advance(chain, out, errors).pc \in {"run", "check"}
           /\ Advance(chain, out, errors).pc = "check" => out = <<>> \/ Len(chain.funcs) = 1
<1>1. chain.events \in Seq(Events) /\ chain.funcs \in Seq(Funcs) /\ <<>> \in Seq(Events) /\ <<>> \in Seq(Funcs)
  BY DEF Chains
<1>2. CASE Len(chain.events) > 1
  <2>1. Tail(chain.events) \in Seq(Events) /\ Tail(chain.events) # <<>>
    <3>1. chain.events # <<>> /\ Len(chain.events) # 1
      <4> DEFINE n == Len(chain.events)
      <4>1. n \in Nat /\ n > 1
        BY <1>1, <1>2
      <4> HIDE DEF n
      <4>2. n # 0 /\ n # 1
        BY <4>1
      <4>3. QED
        BY <4>2, EmptySeq DEF n
    <3>2. QED
      BY <1>1, <1>2, <3>1, Tailed
  <2>2. Advance(chain, out, errors) = [chain EXCEPT !.events = Tail(@), !.out = out, !.errors = errors]
    BY <1>2 DEF Advance
  <2>3. QED
    BY <1>1, <2>1, <2>2 DEF Chains, Sound
<1>3. CASE ~(Len(chain.events) > 1) /\ (out = <<>> \/ Len(chain.funcs) = 1)
  <2>1. Advance(chain, out, errors) =
           [chain EXCEPT !.pc = "check", !.events = <<>>, !.out = <<>>, !.funcs = <<>>, !.errors = errors]
    BY <1>3 DEF Advance
  <2>2. QED
    BY <1>1, <1>3, <2>1 DEF Chains, Sound
<1>4. CASE ~(Len(chain.events) > 1) /\ ~(out = <<>> \/ Len(chain.funcs) = 1)
  <2>1. Advance(chain, out, errors) = [chain EXCEPT !.funcs = Tail(@), !.events = out, !.out = <<>>, !.errors = errors]
    BY <1>4 DEF Advance
  <2>2. /\ Tail(chain.funcs) \in Seq(Funcs) /\ Tail(chain.funcs) # <<>>
        /\ Tail(chain.funcs)[Len(Tail(chain.funcs))] = "destination"
    <3>1. chain.funcs # <<>> /\ chain.funcs[Len(chain.funcs)] = "destination" /\ Len(chain.funcs) # 1
      BY <1>4 DEF Sound
    <3>2. QED
      BY <1>1, <3>1, Tailed
  <2>3. QED
    BY <1>1, <1>4, <2>1, <2>2 DEF Chains, Sound
<1>5. QED
  BY <1>2, <1>3, <1>4

-----------------------------------------------------------------------------
(* What the parts of actions do, field by field.                             *)

(* A part of the state that a step leaves alone keeps its type. *)
LEMMA KeptTypes ==
    ASSUME TypeInv
    PROVE  /\ UNCHANGED <<log, retryLog>> => LogType'
           /\ UNCHANGED <<position, stored, committed>> => OffsetType'
           /\ UNCHANGED feed => FeedType'
           /\ UNCHANGED queue => QueueType'
           /\ UNCHANGED slots => SlotType'
           /\ UNCHANGED <<status, config, tries, budget>> => SmallType'
BY DEF TypeInv, LogType, OffsetType, FeedType, QueueType, SlotType, SmallType

(* A record is appended to a partition. *)
Grown(p, rec) ==
    /\ \A q \in Partitions : q # p => log'[q] = log[q]
    /\ Len(log'[p]) = Len(log[p]) + 1
    /\ \A j \in 1 .. Len(log[p]) : log'[p][j] = log[p][j]
    /\ log'[p][Len(log[p]) + 1] = rec

(* Appending keeps the type of the topic and does just that. *)
LEMMA GrownFacts ==
    ASSUME TypeInv, NEW p \in Partitions, NEW rec \in Records, log' = [log EXCEPT ![p] = Append(@, rec)]
    PROVE  log' \in [Partitions -> Seq(Records)] /\ Grown(p, rec)
<1>1. log[p] \in Seq(Records) /\ log \in [Partitions -> Seq(Records)]
  BY DEF TypeInv, LogType
<1>2. /\ Append(log[p], rec) \in Seq(Records) /\ Len(Append(log[p], rec)) = Len(log[p]) + 1
      /\ \A j \in 1 .. Len(log[p]) : Append(log[p], rec)[j] = log[p][j]
      /\ Append(log[p], rec)[Len(log[p]) + 1] = rec
  BY <1>1, Appended
<1>3. log'[p] = Append(log[p], rec) /\ \A q \in Partitions : q # p => log'[q] = log[q]
  BY <1>1
<1>4. log' \in [Partitions -> Seq(Records)]
  BY <1>1, <1>2
<1>5. QED
  BY <1>2, <1>3, <1>4 DEF Grown

(* One chain of a task at work changes. *)
Moved(s, c, chain) ==
    /\ slots'[s] # None /\ slots'[s].at = slots[s].at /\ slots'[s].rec = slots[s].rec
    /\ slots'[s].chains[c] = chain
    /\ \A d \in slots[s].rec.conns : d # c => slots'[s].chains[d] = slots[s].chains[d]
    /\ \A t \in Slots : t # s => slots'[t] = slots[t]

(* Changing one chain keeps the type of the slots and does just that. *)
LEMMA MovedFacts ==
    ASSUME TypeInv, NEW s \in Slots, slots[s] # None, NEW c \in slots[s].rec.conns, NEW chain \in Chains,
           slots' = [slots EXCEPT ![s].chains[c] = chain]
    PROVE  SlotType' /\ Moved(s, c, chain)
<1>1. /\ slots[s] \in RunningTasks /\ slots[s].chains \in [slots[s].rec.conns -> Chains]
      /\ slots \in [Slots -> RunningTasks \cup {None}]
  BY DEF TypeInv, SlotType
<1>2. slots[s].rec.conns \in SUBSET Connections
  BY <1>1 DEF RunningTasks, Records
<1> DEFINE chains == [slots[s].chains EXCEPT ![c] = chain]
           new == [slots[s] EXCEPT !.chains = chains]
<1>3. /\ chains \in [slots[s].rec.conns -> Chains] /\ chains[c] = chain
      /\ \A d \in slots[s].rec.conns : d # c => chains[d] = slots[s].chains[d]
  BY <1>1
<1>4. slots' = [slots EXCEPT ![s] = new]
  OBVIOUS
<1>5. chains \in UNION {[conns -> Chains] : conns \in SUBSET Connections}
  BY <1>2, <1>3
<1> HIDE DEF chains
<1>6. new \in RunningTasks /\ new.at = slots[s].at /\ new.rec = slots[s].rec /\ new.chains = chains
  BY <1>1, <1>5 DEF RunningTasks
<1> HIDE DEF new
<1>7. slots'[s] = new /\ (\A t \in Slots : t # s => slots'[t] = slots[t]) /\ slots' \in [Slots -> RunningTasks \cup {None}]
  BY <1>1, <1>4, <1>6
<1>8. slots'[s] # None
  BY <1>6, <1>7, NoneAssumption
<1>9. SlotType'
  BY <1>3, <1>6, <1>7 DEF TypeInv, SlotType
<1>10. QED
  BY <1>3, <1>6, <1>7, <1>8, <1>9 DEF Moved

(* Another task, or none, takes a slot. *)
Placed(s, new) ==
    /\ slots'[s] = new
    /\ \A t \in Slots : t # s => slots'[t] = slots[t]

(* So does taking a slot. *)
LEMMA PlacedFacts ==
    ASSUME TypeInv, NEW s \in Slots, NEW new, slots' = [slots EXCEPT ![s] = new],
           \/ new = None
           \/ new \in RunningTasks /\ new.chains \in [new.rec.conns -> Chains]
    PROVE  SlotType' /\ Placed(s, new)
BY DEF TypeInv, SlotType, Placed

(* Begin(): a chain is counted for every connection of the task, and what the  *)
(* functions server does not know is dropped.                                  *)
LEMMA BeginFacts ==
    ASSUME SmallType, NEW task \in QueueTasks, Begin(task)
    PROVE  /\ tries' \in [Messages \X Connections -> 0 .. (RetryCount + 1)]
           /\ \A x \in Messages \X Connections : tries'[x] >= tries[x]
           /\ \A c \in task.rec.conns, n \in 0 .. RetryCount :
                tries[Pair(task.rec, c)] >= n => tries'[Pair(task.rec, c)] >= n + 1
           /\ dropped \subseteq dropped'
           /\ \A c \in task.rec.conns : config[c] = "missing" => Pair(task.rec, c) \in dropped'
<1>1. /\ RetryCount \in Nat /\ DOMAIN tries = Messages \X Connections
      /\ tries \in [Messages \X Connections -> 0 .. (RetryCount + 1)]
  BY ConstantsAssumption DEF SmallType
<1>2. /\ tries' = [x \in Messages \X Connections |->
                    IF \E c \in task.rec.conns : x = Pair(task.rec, c) /\ tries[x] <= RetryCount
                    THEN tries[x] + 1 ELSE tries[x]]
      /\ dropped' = dropped \cup Missing(task)
  BY <1>1 DEF Begin
<1>3. \A c \in task.rec.conns : Pair(task.rec, c) \in Messages \X Connections
  BY DEF QueueTasks, Records, Pair
<1>4. tries' \in [Messages \X Connections -> 0 .. (RetryCount + 1)]
  BY <1>1, <1>2
<1>5. \A x \in Messages \X Connections : tries'[x] >= tries[x]
  BY <1>1, <1>2
<1>6. ASSUME NEW c \in task.rec.conns, NEW n \in 0 .. RetryCount, tries[Pair(task.rec, c)] >= n
      PROVE  tries'[Pair(task.rec, c)] >= n + 1
  <2> DEFINE x == Pair(task.rec, c)
  <2>1. x \in Messages \X Connections /\ x = Pair(task.rec, c)
    BY <1>3
  <2> HIDE DEF x
  <2>2. tries[x] >= n /\ tries[x] \in 0 .. (RetryCount + 1)
    BY <1>1, <1>6, <2>1
  <2>3. tries'[x] = IF tries[x] <= RetryCount THEN tries[x] + 1 ELSE tries[x]
    BY <1>2, <2>1
  <2>4. tries'[x] >= n + 1
    BY <1>1, <2>2, <2>3
  <2>5. QED
    BY <2>1, <2>4
<1>7. \A c \in task.rec.conns : config[c] = "missing" => Pair(task.rec, c) \in dropped'
  BY <1>2 DEF Missing
<1>8. QED
  BY <1>2, <1>4, <1>5, <1>6, <1>7

(* Spend() notes a crash and nothing else. *)
LEMMA SpendFacts ==
    ASSUME SmallType, NEW kind, Spend(kind)
    PROVE  /\ budget' \in [failures : Nat, faults : Nat, crashed : BOOLEAN]
           /\ kind = "crash" => budget'.crashed
           /\ ~budget'.crashed => ~budget.crashed
<1>1. /\ budget \in [failures : Nat, faults : Nat, crashed : BOOLEAN]
      /\ budget' = [budget EXCEPT !.faults = @ + 1, !.crashed = @ \/ kind = "crash"]
  BY DEF Spend, SmallType
<1>2. (budget.crashed \/ kind = "crash") \in BOOLEAN
  OBVIOUS
<1>3. budget.faults + 1 \in Nat
  BY <1>1
<1>4. budget' \in [failures : Nat, faults : Nat, crashed : BOOLEAN]
  BY <1>1, <1>2, <1>3
<1>5. budget'.crashed = (budget.crashed \/ kind = "crash")
  BY <1>1
<1>6. QED
  BY <1>4, <1>5

(* Throws(): the event is lost for all connections of the task. *)
LEMMA ThrowsFacts ==
    ASSUME SmallType, NEW task \in QueueTasks, Throws(task)
    PROVE  /\ budget' \in [failures : Nat, faults : Nat, crashed : BOOLEAN]
           /\ ~budget'.crashed => ~budget.crashed
           /\ lost \subseteq lost' /\ \A c \in task.rec.conns : Pair(task.rec, c) \in lost'
           /\ UNCHANGED <<slots, dropped, tries>>
<1>1. Spend("throw") /\ lost' = lost \cup {Pair(task.rec, c) : c \in task.rec.conns} /\ UNCHANGED <<slots, dropped, tries>>
  BY DEF Throws
<1>2. QED
  BY <1>1, SpendFacts

-----------------------------------------------------------------------------
(* What the actions do, field by field.                                      *)

(* The history that tells what became of events. *)
fates == <<delivered, dropped, lost, dead>>
FatesGrow == delivered \subseteq delivered' /\ dropped \subseteq dropped' /\ lost \subseteq lost' /\ dead \subseteq dead'

(* Ingest: a new event, for all connections. *)
LEMMA ProduceStep ==
    ASSUME TypeInv, NEW m \in Messages, Produce(m)
    PROVE  /\ TypeInv' /\ m \notin Produced
           /\ \E p \in Partitions, rec \in Records :
                Grown(p, rec) /\ rec.msg = m /\ rec.conns = Connections /\ rec.retries = 0
           /\ UNCHANGED <<position, stored, committed, retryLog, work, config, fates, clean, tries, budget>>
<1> DEFINE rec == [msg |-> m, conns |-> Connections, func |-> "none", retries |-> 0, event |-> Raw]
<1>1. PICK p \in Partitions : log' = [log EXCEPT ![p] = Append(@, rec)]
  BY DEF Produce
<1>2. rec \in Records /\ rec.msg = m /\ rec.conns = Connections /\ rec.retries = 0
  <2>1. Raw \in Events
    BY DEF Raw, Events
  <2>2. 0 \in 0 .. RetryCount /\ Connections \in (SUBSET Connections) \ {{}}
    BY ConstantsAssumption
  <2>3. QED
    BY <2>1, <2>2 DEF Records
<1> HIDE DEF rec
<1>3. log' \in [Partitions -> Seq(Records)] /\ Grown(p, rec)
  BY <1>1, <1>2, GrownFacts
<1>4. /\ UNCHANGED <<position, stored, committed, retryLog, work, config, fates, clean, tries, budget>>
      /\ m \notin Produced
  BY DEF Produce, fates, history
<1>5. TypeInv'
  BY <1>3, <1>4, KeptTypes DEF TypeInv, LogType, work
<1>6. QED
  BY <1>2, <1>3, <1>4, <1>5

(* The retry consumer: a record goes back with one more retry. *)
LEMMA RedeliverStep ==
    ASSUME TypeInv, TriesInv, Redeliver
    PROVE  /\ TypeInv'
           /\ \E i \in 1 .. Len(retryLog), p \in Partitions, rec \in Records :
                /\ Grown(p, rec) /\ rec.msg = retryLog[i].msg /\ rec.conns = retryLog[i].conns
                /\ rec.retries = retryLog[i].retries + 1
                /\ Len(retryLog') = Len(retryLog) - 1
                /\ \A j \in 1 .. Len(retryLog') : retryLog'[j] = IF j < i THEN retryLog[j] ELSE retryLog[j + 1]
           /\ UNCHANGED <<position, stored, committed, work, config, fates, clean, tries, budget>>
<1>1. retryLog \in Seq(Records) /\ DOMAIN retryLog = 1 .. Len(retryLog)
  BY DEF TypeInv, LogType
<1>2. PICK i \in 1 .. Len(retryLog), p \in Partitions :
         /\ log' = [log EXCEPT ![p] = Append(@, [retryLog[i] EXCEPT !.retries = @ + 1])]
         /\ retryLog' = SubSeq(retryLog, 1, i - 1) \o SubSeq(retryLog, i + 1, Len(retryLog))
  BY <1>1 DEF Redeliver
<1> DEFINE rec == [retryLog[i] EXCEPT !.retries = @ + 1]
<1>3. rec \in Records /\ rec.msg = retryLog[i].msg /\ rec.conns = retryLog[i].conns
      /\ rec.retries = retryLog[i].retries + 1
  <2>1. retryLog[i] \in Records
    BY <1>1
  <2>2. retryLog[i].retries + 1 \in 0 .. RetryCount
    BY <1>1, <2>1, ConstantsAssumption DEF TriesInv, Records
  <2>3. QED
    BY <2>1, <2>2 DEF Records
<1>4. log' = [log EXCEPT ![p] = Append(@, rec)]
  BY <1>2
<1> HIDE DEF rec
<1>5. log' \in [Partitions -> Seq(Records)] /\ Grown(p, rec)
  BY <1>3, <1>4, GrownFacts
<1>6. /\ retryLog' \in Seq(Records) /\ Len(retryLog') = Len(retryLog) - 1
      /\ \A j \in 1 .. Len(retryLog') : retryLog'[j] = IF j < i THEN retryLog[j] ELSE retryLog[j + 1]
  BY <1>1, <1>2, WithoutOne
<1>7. UNCHANGED <<position, stored, committed, work, config, fates, clean, tries, budget>>
  BY DEF Redeliver, fates, history
<1>8. TypeInv'
  BY <1>5, <1>6, <1>7, KeptTypes DEF TypeInv, LogType, work
<1>9. QED
  BY <1>3, <1>5, <1>6, <1>7, <1>8

(* eachMessage(): the callback has the next record. *)
LEMMA EachMessageStep ==
    ASSUME TypeInv, NEW p \in Partitions, EachMessage(p)
    PROVE  /\ TypeInv' /\ status = "running" /\ feed[p] = None /\ position[p] < Len(log[p])
           /\ position'[p] = position[p] + 1 /\ feed'[p] # None /\ feed'[p].offset = position[p] + 1
           /\ \A q \in Partitions : q # p => position'[q] = position[q] /\ feed'[q] = feed[q]
           /\ UNCHANGED <<log, stored, committed, retryLog, queue, slots, status, config, fates, clean, tries, budget>>
<1> DEFINE new == [offset |-> position[p] + 1, go |-> MayQueue(queue)]
<1>1. position \in [Partitions -> Nat] /\ feed \in [Partitions -> Feeds \cup {None}]
  BY DEF TypeInv, OffsetType, FeedType
<1>2. new \in Feeds /\ new.offset = position[p] + 1
  BY <1>1 DEF Feeds, MayQueue
<1>3. /\ status = "running" /\ feed[p] = None /\ position[p] < Len(log[p])
      /\ position' = [position EXCEPT ![p] = @ + 1] /\ feed' = [feed EXCEPT ![p] = new]
      /\ UNCHANGED <<log, stored, committed, retryLog, queue, slots, status, config, fates, clean, tries, budget>>
  BY DEF EachMessage, fates, history
<1> HIDE DEF new
<1>4. /\ position' \in [Partitions -> Nat] /\ feed' \in [Partitions -> Feeds \cup {None}]
      /\ position'[p] = position[p] + 1 /\ feed'[p] = new
      /\ \A q \in Partitions : q # p => position'[q] = position[q] /\ feed'[q] = feed[q]
  BY <1>1, <1>2, <1>3
<1>5. feed'[p] # None
  BY <1>2, <1>4, NoneAssumption
<1>6. TypeInv'
  BY <1>3, <1>4, KeptTypes DEF TypeInv, OffsetType, FeedType
<1>7. QED
  BY <1>2, <1>3, <1>4, <1>5, <1>6

(* A task starts in slot s. *)
Starts(s, task) == Placed(s, Started(task)) /\ Begin(task)

(* queue.add(): the task of the callback's record starts or waits, and its offset is stored. *)
LEMMA AddStep ==
    ASSUME TypeInv, OffsetInv, NEW p \in Partitions, Add(p)
    PROVE  LET i == stored[p] + 1 IN
           /\ TypeInv' /\ feed[p] # None /\ i \in 1 .. Len(log[p]) /\ Task(p, i) \in QueueTasks
           /\ stored'[p] = i /\ feed'[p] = None
           /\ \A q \in Partitions : q # p => stored'[q] = stored[q] /\ feed'[q] = feed[q]
           /\ \/ \E s \in Slots : slots[s] = None /\ Starts(s, Task(p, i)) /\ UNCHANGED queue
              \/ queue' = Append(queue, Task(p, i)) /\ UNCHANGED <<slots, dropped, tries>>
              \/ Throws(Task(p, i)) /\ UNCHANGED queue
           /\ lost \subseteq lost' /\ (~budget'.crashed => ~budget.crashed)
           /\ UNCHANGED <<log, position, committed, retryLog, status, config, delivered, dead, clean>>
<1> DEFINE i == stored[p] + 1
           task == Task(p, feed[p].offset)
           free == {s \in Slots : slots[s] = None}
<1>1. /\ feed[p] # None
      /\ \/ /\ free # {}
            /\ slots' = [slots EXCEPT ![CHOOSE s \in free : TRUE] = Started(task)]
            /\ Begin(task)
            /\ UNCHANGED queue
         \/ /\ queue' = Append(queue, task) /\ UNCHANGED <<slots, dropped, tries, lost, budget>>
         \/ Throws(task) /\ UNCHANGED queue
      /\ stored' = [stored EXCEPT ![p] = feed[p].offset]
      /\ feed' = [feed EXCEPT ![p] = None]
      /\ UNCHANGED <<log, position, committed, retryLog, status, config, delivered, dead, clean>>
  BY DEF Add
<1>2. /\ feed[p].offset = i /\ i \in 1 .. Len(log[p]) /\ i \in Nat
      /\ stored \in [Partitions -> Nat] /\ feed \in [Partitions -> Feeds \cup {None}]
  <2>1. /\ feed[p].offset = position[p] /\ position[p] = stored[p] + 1 /\ position[p] <= Len(log[p])
    BY <1>1 DEF OffsetInv
  <2>2. stored \in [Partitions -> Nat] /\ feed \in [Partitions -> Feeds \cup {None}] /\ log[p] \in Seq(Records)
    BY DEF TypeInv, OffsetType, FeedType, LogType
  <2>3. QED
    BY <2>1, <2>2
<1>3. task = Task(p, i)
  BY <1>2
<1>4. Task(p, i) \in QueueTasks
  BY <1>2, TaskFacts
<1>5. stored'[p] = i /\ feed'[p] = None
      /\ \A q \in Partitions : q # p => stored'[q] = stored[q] /\ feed'[q] = feed[q]
  BY <1>1, <1>2
<1>6. OffsetType' /\ FeedType' /\ LogType'
  <2>1. stored' \in [Partitions -> Nat] /\ feed' \in [Partitions -> Feeds \cup {None}]
    BY <1>1, <1>2
  <2>2. QED
    BY <1>1, <2>1, KeptTypes DEF TypeInv, OffsetType, FeedType
<1> HIDE DEF i, task
<1>7. CASE /\ free # {}
           /\ slots' = [slots EXCEPT ![CHOOSE s \in free : TRUE] = Started(task)]
           /\ Begin(task)
           /\ UNCHANGED queue
  <2>1. PICK s \in Slots : slots[s] = None /\ slots' = [slots EXCEPT ![s] = Started(task)]
    BY <1>7
  <2>2. SmallType
    BY DEF TypeInv
  <2>3. SlotType' /\ Placed(s, Started(task))
    BY <1>3, <1>4, <2>1, <2>2, StartedFacts, PlacedFacts
  <2>4. SmallType'
    <3>1. UNCHANGED budget
      BY <1>7 DEF Begin
    <3>2. tries' \in [Messages \X Connections -> 0 .. (RetryCount + 1)]
      BY <1>3, <1>4, <1>7, <2>2, BeginFacts
    <3>3. QED
      BY <1>1, <2>2, <3>1, <3>2 DEF SmallType
  <2>5. TypeInv'
    BY <1>6, <1>7, <2>3, <2>4, KeptTypes DEF TypeInv
  <2>6. QED
    BY <1>1, <1>2, <1>3, <1>4, <1>5, <1>7, <2>1, <2>3, <2>5 DEF Starts, Begin, i
<1>8. CASE /\ queue' = Append(queue, task) /\ UNCHANGED <<slots, dropped, tries, lost, budget>>
  <2>1. queue' \in Seq(QueueTasks)
    BY <1>3, <1>4, <1>8 DEF TypeInv, QueueType
  <2>2. TypeInv'
    BY <1>1, <1>6, <1>8, <2>1, KeptTypes DEF TypeInv, QueueType
  <2>3. QED
    BY <1>1, <1>2, <1>3, <1>4, <1>5, <1>8, <2>2 DEF i
<1>9. CASE Throws(task) /\ UNCHANGED queue
  <2>1. SmallType
    BY DEF TypeInv
  <2>2. /\ budget' \in [failures : Nat, faults : Nat, crashed : BOOLEAN]
        /\ (~budget'.crashed => ~budget.crashed) /\ lost \subseteq lost' /\ UNCHANGED <<slots, dropped, tries>>
    BY <1>3, <1>4, <1>9, <2>1, ThrowsFacts
  <2>3. TypeInv'
    BY <1>1, <1>6, <1>9, <2>2, KeptTypes DEF TypeInv, SmallType
  <2>4. QED
    BY <1>1, <1>2, <1>3, <1>4, <1>5, <1>9, <2>2, <2>3 DEF i
<1>10. QED
  BY <1>1, <1>7, <1>8, <1>9

(* A task is over: the first waiting one starts. *)
LEMMA FinishStep ==
    ASSUME TypeInv, NEW s \in Slots, Finish(s)
    PROVE  /\ TypeInv' /\ slots[s] # None /\ \A c \in slots[s].rec.conns : slots[s].chains[c].pc = "done"
           /\ \A p \in Partitions : /\ feed'[p] = None <=> feed[p] = None
                                    /\ feed[p] # None => feed'[p].offset = feed[p].offset
           /\ \/ queue = <<>> /\ queue' = <<>> /\ Placed(s, None) /\ UNCHANGED <<dropped, tries>>
              \/ queue # <<>> /\ queue' = Tail(queue) /\ Starts(s, Head(queue))
              \/ queue # <<>> /\ queue' = Tail(queue) /\ Throws(Head(queue))
           /\ lost \subseteq lost' /\ (~budget'.crashed => ~budget.crashed)
           /\ UNCHANGED <<kafka, status, config, delivered, clean>>
<1>1. /\ slots[s] # None /\ \A c \in DOMAIN slots[s].chains : slots[s].chains[c].pc = "done"
      /\ queue' = IF queue = <<>> THEN <<>> ELSE Tail(queue)
      /\ \/ queue = <<>> /\ slots' = [slots EXCEPT ![s] = None] /\ UNCHANGED <<dropped, lost, tries, budget>>
         \/ queue # <<>> /\ slots' = [slots EXCEPT ![s] = Started(Head(queue))] /\ Begin(Head(queue))
         \/ queue # <<>> /\ Throws(Head(queue))
      /\ UNCHANGED <<kafka, status, config, delivered, clean>>
  BY DEF Finish
<1>2. \A p \in Partitions : feed'[p] = feed[p] \/ (feed[p] # None /\ feed'[p] = [feed[p] EXCEPT !.go = TRUE])
  BY DEF Finish
<1>3. DOMAIN feed' = Partitions /\ feed' = [p \in Partitions |-> feed'[p]]
  BY DEF Finish
<1>4. \A c \in slots[s].rec.conns : slots[s].chains[c].pc = "done"
  BY <1>1 DEF TypeInv, SlotType
<1>5. /\ \A p \in Partitions : /\ feed'[p] = None <=> feed[p] = None
                               /\ feed[p] # None => feed'[p].offset = feed[p].offset
      /\ FeedType'
  <2>1. ASSUME NEW p \in Partitions
        PROVE  /\ feed'[p] \in Feeds \cup {None}
               /\ feed'[p] = None <=> feed[p] = None
               /\ feed[p] # None => feed'[p].offset = feed[p].offset
    <3>1. CASE feed'[p] = feed[p]
      BY <3>1 DEF TypeInv, FeedType
    <3>2. CASE feed[p] # None /\ feed'[p] = [feed[p] EXCEPT !.go = TRUE]
      <4>1. feed[p] \in Feeds
        BY <3>2 DEF TypeInv, FeedType
      <4>2. feed'[p] \in Feeds /\ feed'[p].offset = feed[p].offset
        BY <3>2, <4>1 DEF Feeds
      <4>3. QED
        BY <3>2, <4>1, <4>2, NoneAssumption
    <3>3. QED
      BY <1>2, <3>1, <3>2
  <2>2. QED
    BY <1>3, <2>1 DEF FeedType
<1>6. LogType' /\ OffsetType'
  BY <1>1, KeptTypes DEF kafka
<1>7. CASE queue = <<>>
  <2>1. queue' = <<>> /\ slots' = [slots EXCEPT ![s] = None] /\ UNCHANGED <<dropped, tries, queue, lost, budget>>
    BY <1>1, <1>7
  <2>2. SlotType' /\ Placed(s, None)
    BY <2>1, PlacedFacts
  <2>3. TypeInv'
    BY <1>1, <1>5, <1>6, <2>1, <2>2, KeptTypes DEF TypeInv
  <2>4. QED
    BY <1>1, <1>4, <1>5, <1>7, <2>1, <2>2, <2>3
<1>8. CASE queue # <<>> /\ slots' = [slots EXCEPT ![s] = Started(Head(queue))] /\ Begin(Head(queue))
  <2> DEFINE task == Head(queue)
  <2>1. queue' = Tail(queue) /\ slots' = [slots EXCEPT ![s] = Started(task)] /\ Begin(task)
    BY <1>1, <1>8
  <2>2. task \in QueueTasks /\ Tail(queue) \in Seq(QueueTasks)
    BY <1>8, Tailed DEF TypeInv, QueueType
  <2>3. SmallType
    BY DEF TypeInv
  <2> HIDE DEF task
  <2>4. SlotType' /\ Placed(s, Started(task))
    BY <2>1, <2>2, <2>3, StartedFacts, PlacedFacts
  <2>5. SmallType'
    BY <1>1, <2>1, <2>2, <2>3, BeginFacts DEF SmallType, Begin
  <2>6. QueueType'
    BY <2>1, <2>2 DEF QueueType
  <2>7. TypeInv'
    BY <1>5, <1>6, <2>4, <2>5, <2>6 DEF TypeInv
  <2>8. QED
    BY <1>1, <1>4, <1>5, <1>8, <2>1, <2>4, <2>7 DEF Starts, Begin, task
<1>9. CASE queue # <<>> /\ Throws(Head(queue))
  <2>1. SmallType
    BY DEF TypeInv
  <2>2. Head(queue) \in QueueTasks /\ Tail(queue) \in Seq(QueueTasks)
    BY <1>9, Tailed DEF TypeInv, QueueType
  <2>3. /\ budget' \in [failures : Nat, faults : Nat, crashed : BOOLEAN]
        /\ (~budget'.crashed => ~budget.crashed) /\ lost \subseteq lost' /\ UNCHANGED <<slots, dropped, tries>>
    BY <1>9, <2>1, <2>2, ThrowsFacts
  <2>4. queue' = Tail(queue)
    BY <1>1, <1>9
  <2>5. TypeInv'
    BY <1>1, <1>5, <1>6, <2>2, <2>3, <2>4, KeptTypes DEF TypeInv, SmallType, QueueType
  <2>6. QED
    BY <1>1, <1>4, <1>5, <1>9, <2>3, <2>4, <2>5
<1>10. QED
  BY <1>1, <1>7, <1>8, <1>9

(* Facts about the chain an action works on. *)
LEMMA ChainAt ==
    ASSUME TypeInv, NEW s \in Slots, slots[s] # None, NEW c \in DOMAIN slots[s].chains
    PROVE  /\ c \in slots[s].rec.conns /\ slots[s].chains[c] \in Chains
           /\ slots[s].rec \in Records /\ c \in Connections
           /\ Pair(slots[s].rec, c) \in Messages \X Connections
<1>1. slots[s] \in RunningTasks /\ slots[s].chains \in [slots[s].rec.conns -> Chains]
  BY DEF TypeInv, SlotType
<1>2. slots[s].rec \in Records
  BY <1>1 DEF RunningTasks
<1>3. QED
  BY <1>1, <1>2 DEF Records, Pair

(* A call of a function: the chain runs on, or is over and its event is settled or has an error. *)
LEMMA ExecStep ==
    ASSUME TypeInv, ChainInv, NEW s \in Slots, NEW c \in Connections, Exec(s, c)
    PROVE  /\ TypeInv' /\ slots[s] # None /\ c \in slots[s].rec.conns /\ slots[s].chains[c].pc = "run"
           /\ \E chain \in Chains :
                /\ Moved(s, c, chain) /\ Sound(chain) /\ chain.pc \in {"run", "check"}
                /\ chain.pc = "check" /\ chain.errors = <<>> => Settled(Pair(slots[s].rec, c))'
           /\ FatesGrow /\ budget'.crashed = budget.crashed
           /\ UNCHANGED <<kafka, feed, queue, status, config, clean, tries>>
<1> DEFINE old == slots[s].chains[c]
           f == Head(old.funcs)
           e == Head(old.events)
           what == [msg |-> slots[s].rec.msg, conn |-> c, event |-> e]
<1>1. slots[s] # None /\ c \in DOMAIN slots[s].chains /\ old.pc = "run"
  BY DEF Exec
<1>2. /\ c \in slots[s].rec.conns /\ old \in Chains /\ slots[s].rec \in Records
  BY <1>1, ChainAt
<1>3. Sound(old)
  BY <1>1, <1>2 DEF ChainInv
<1>4. /\ old.funcs \in Seq(Funcs) /\ old.events \in Seq(Events) /\ old.funcs # <<>> /\ old.events # <<>>
      /\ old.out \in Seq(Events) /\ old.errors \in Seq(Errs)
      /\ old.funcs[Len(old.funcs)] = "destination"
  BY <1>1, <1>2, <1>3 DEF Sound, Chains
<1>5. f \in Funcs /\ e \in Events /\ (Len(old.funcs) = 1 => f = "destination")
  BY <1>4, Tailed
<1>6. PICK outcome \in Outcomes(f), attempts \in Policies(f) :
         /\ IF outcome = "ok" THEN UNCHANGED budget
            ELSE budget.failures < MaxFailures /\ budget' = [budget EXCEPT !.failures = @ + 1]
         /\ slots' = [slots EXCEPT ![s].chains[c] =
                            Advance(old, old.out \o Result(f, outcome, e), old.errors \o Errors(f, outcome, e, attempts))]
         /\ delivered' = IF f = "destination" /\ outcome = "ok" THEN delivered \cup {what} ELSE delivered
         /\ dropped' = IF outcome = "drop" THEN dropped \cup {Pair(slots[s].rec, c)} ELSE dropped
  BY DEF Exec
<1>7. UNCHANGED <<kafka, feed, queue, status, config, lost, clean, tries>>
  BY DEF Exec
<1>8. /\ Result(f, outcome, e) \in Seq(Events) /\ Errors(f, outcome, e, attempts) \in Seq(Errs)
      /\ Result(f, outcome, e) = <<>> /\ Errors(f, outcome, e, attempts) = <<>> => outcome = "drop"
      /\ f = "destination" /\ Errors(f, outcome, e, attempts) = <<>> => outcome = "ok"
  BY <1>5, CallFacts, ConstantsAssumption DEF Policies
<1> DEFINE out == old.out \o Result(f, outcome, e)
           errors == old.errors \o Errors(f, outcome, e, attempts)
           chain == Advance(old, out, errors)
<1>9. slots' = [slots EXCEPT ![s].chains[c] = chain]
  BY <1>6
<1> HIDE DEF old, f, e
<1>10. /\ out \in Seq(Events) /\ errors \in Seq(Errs)
       /\ out = <<>> => Result(f, outcome, e) = <<>>
       /\ errors = <<>> => Errors(f, outcome, e, attempts) = <<>>
  BY <1>4, <1>8, ConcatProperties, ConcatEqualIffEmpty
<1> HIDE DEF out, errors, what
<1>11. /\ chain \in Chains /\ Sound(chain) /\ chain.errors = errors /\ chain.pc \in {"run", "check"}
       /\ chain.pc = "check" => out = <<>> \/ Len(old.funcs) = 1
  BY <1>1, <1>2, <1>3, <1>10, AdvanceFacts DEF old
<1> HIDE DEF chain
<1>12. SlotType' /\ Moved(s, c, chain)
  BY <1>1, <1>2, <1>9, <1>11, MovedFacts
<1>13. ASSUME chain.pc = "check", chain.errors = <<>>
       PROVE  Settled(Pair(slots[s].rec, c))'
  <2>1. slots'[s].rec = slots[s].rec
    BY <1>12 DEF Moved
  <2>2. outcome = "drop" \/ (f = "destination" /\ outcome = "ok")
    BY <1>5, <1>8, <1>10, <1>11, <1>13
  <2>3. CASE outcome = "drop"
    <3>1. Pair(slots[s].rec, c) \in dropped'
      BY <1>6, <2>3
    <3>2. QED
      BY <2>1, <3>1 DEF Settled, Pair
  <2>4. CASE f = "destination" /\ outcome = "ok"
    <3>1. what \in delivered' /\ what.msg = slots[s].rec.msg /\ what.conn = c
      BY <1>6, <2>4 DEF what
    <3>2. QED
      BY <2>1, <3>1 DEF Settled, Delivered, Pair
  <2>5. QED
    BY <2>2, <2>3, <2>4
<1>14. FatesGrow
  BY <1>6, <1>7 DEF FatesGrow, kafka
<1>15. budget' \in [failures : Nat, faults : Nat, crashed : BOOLEAN] /\ budget'.crashed = budget.crashed
  BY <1>6 DEF TypeInv, SmallType
<1>16. TypeInv'
  BY <1>7, <1>12, <1>15, KeptTypes DEF TypeInv, SmallType, kafka
<1>17. QED
  BY <1>1, <1>2, <1>7, <1>11, <1>12, <1>13, <1>14, <1>15, <1>16 DEF old

(* checkError(): a chain without an error is clean, the others failed. *)
LEMMA CheckErrorStep ==
    ASSUME TypeInv, NEW s \in Slots, NEW c \in Connections, CheckError(s, c)
    PROVE  /\ TypeInv' /\ slots[s] # None /\ c \in slots[s].rec.conns /\ slots[s].chains[c].pc = "check"
           /\ \E chain \in Chains :
                /\ Moved(s, c, chain) /\ Sound(chain)
                /\ \/ chain.pc = "done" /\ slots[s].chains[c].errors = <<>> /\ clean' = clean \cup {Pair(slots[s].rec, c)}
                   \/ chain.pc = "failed" /\ UNCHANGED clean
           /\ UNCHANGED <<kafka, feed, queue, status, config, delivered, dropped, lost, tries, budget>>
<1> DEFINE old == slots[s].chains[c]
           first == FirstError(old.errors)
           chain == [old EXCEPT !.pc = IF first = <<>> THEN "done" ELSE "failed", !.errors = first]
<1>1. /\ slots[s] # None /\ c \in DOMAIN slots[s].chains /\ old.pc = "check"
      /\ slots' = [slots EXCEPT ![s].chains[c] = chain]
      /\ clean' = IF first = <<>> THEN clean \cup {Pair(slots[s].rec, c)} ELSE clean
      /\ UNCHANGED <<kafka, feed, queue, status, config, delivered, dropped, lost, tries, budget>>
  BY DEF CheckError
<1>2. /\ c \in slots[s].rec.conns /\ old \in Chains
  BY <1>1, ChainAt
<1> HIDE DEF old
<1>3. first \in Seq(Errs) /\ (first = <<>> <=> old.errors = <<>>)
  <2>1. old.errors \in Seq(Errs)
    BY <1>2 DEF Chains
  <2>2. old.errors # <<>> => Head(old.errors) \in Errs
    BY <2>1, Tailed
  <2>3. QED
    BY <2>1, <2>2 DEF FirstError
<1> HIDE DEF first
<1>4. /\ chain \in Chains /\ chain.pc = (IF first = <<>> THEN "done" ELSE "failed") /\ chain.errors = first
  BY <1>2, <1>3 DEF Chains
<1> HIDE DEF chain
<1>5. SlotType' /\ Moved(s, c, chain)
  BY <1>1, <1>2, <1>4, MovedFacts
<1>6. TypeInv'
  BY <1>1, <1>5, KeptTypes DEF TypeInv, kafka
<1>7. Sound(chain)
  BY <1>4 DEF Sound
<1>8. QED
  BY <1>1, <1>2, <1>3, <1>4, <1>5, <1>6, <1>7 DEF old

(* The catch block: to the retry topic, to the dead-letter topic, or lost by a failing send. *)
LEMMA RequeueStep ==
    ASSUME TypeInv, ChainInv, NEW s \in Slots, NEW c \in Connections, Requeue(s, c)
    PROVE  /\ TypeInv' /\ slots[s] # None /\ c \in slots[s].rec.conns /\ slots[s].chains[c].pc = "failed"
           /\ \E chain \in Chains : Moved(s, c, chain) /\ Sound(chain) /\ chain.pc = "done"
           /\ \E rec \in Records, err \in Errs :
                /\ rec.msg = slots[s].rec.msg /\ rec.conns = {c} /\ rec.retries = slots[s].rec.retries
                /\ \/ /\ MayRetry(err, rec.retries)
                      /\ retryLog' = Append(retryLog, rec) /\ UNCHANGED <<dead, lost>>
                   \/ /\ ~MayRetry(err, rec.retries)
                      /\ dead' = dead \cup {[rec |-> rec, conn |-> c, name |-> err.name, attempts |-> err.attempts]}
                      /\ UNCHANGED <<retryLog, lost>>
                   \/ /\ lost' = lost \cup {Pair(slots[s].rec, c)} /\ UNCHANGED <<retryLog, dead>>
           /\ ~budget'.crashed => ~budget.crashed
           /\ UNCHANGED <<log, position, stored, committed, feed, queue, status, config, delivered, dropped, clean, tries>>
<1> DEFINE old == slots[s].chains[c]
           err == Head(old.errors)
           task == slots[s].rec
           rec == Requeued(task, c, err)
           chain == [old EXCEPT !.pc = "done", !.errors = <<>>]
<1>1. /\ slots[s] # None /\ c \in DOMAIN slots[s].chains /\ old.pc = "failed"
      /\ slots' = [slots EXCEPT ![s].chains[c] = chain]
      /\ UNCHANGED <<log, position, stored, committed, feed, queue, status, config, delivered, dropped, clean, tries>>
  BY DEF Requeue
<1>2. \/ /\ MayRetry(err, task.retries)
         /\ retryLog' = Append(retryLog, rec) /\ UNCHANGED <<dead, lost, budget>>
      \/ /\ ~MayRetry(err, task.retries)
         /\ dead' = dead \cup {[rec |-> rec, conn |-> c, name |-> err.name, attempts |-> err.attempts]} /\ UNCHANGED <<retryLog, lost, budget>>
      \/ /\ Spend("send")
         /\ lost' = lost \cup {Pair(task, c)} /\ UNCHANGED <<retryLog, dead>>
  BY DEF Requeue
<1>3. /\ c \in task.conns /\ old \in Chains /\ task \in Records
  BY <1>1, ChainAt
<1>4. old.errors \in Seq(Errs) /\ old.errors # <<>>
  BY <1>1, <1>3 DEF ChainInv, Sound, Chains
<1>5. err \in Errs
  BY <1>4, Tailed
<1> HIDE DEF old
<1>6. chain \in Chains /\ chain.pc = "done" /\ Sound(chain)
  <2>1. chain \in Chains /\ chain.pc = "done"
    BY <1>3, EmptySeq DEF Chains
  <2> HIDE DEF chain
  <2>2. QED
    BY <2>1 DEF Sound
<1> HIDE DEF chain
<1>7. SlotType' /\ Moved(s, c, chain)
  BY <1>1, <1>3, <1>6, MovedFacts
<1> HIDE DEF err
<1>8. /\ rec \in Records /\ rec.msg = task.msg /\ rec.conns = {c} /\ rec.retries = task.retries
  <2>1. {c} \in (SUBSET Connections) \ {{}} /\ err.func \in Funcs \cup {"none", "pipeline"} /\ err.event \in Events
    BY <1>5 DEF Errs
  <2>2. QED
    BY <1>3, <2>1 DEF Requeued, Records
<1> HIDE DEF rec
<1>10. budget' \in [failures : Nat, faults : Nat, crashed : BOOLEAN] /\ (~budget'.crashed => ~budget.crashed)
  <2>1. CASE UNCHANGED budget
    BY <2>1 DEF TypeInv, SmallType
  <2>2. CASE Spend("send")
    BY <2>2, SpendFacts DEF TypeInv
  <2>3. QED
    BY <1>2, <2>1, <2>2
<1>11. retryLog' \in Seq(Records)
  BY <1>2, <1>8, Appended DEF TypeInv, LogType
<1>12. TypeInv'
  BY <1>1, <1>7, <1>10, <1>11, KeptTypes DEF TypeInv, LogType, SmallType
<1>13. /\ rec \in Records /\ err \in Errs
       /\ rec.msg = slots[s].rec.msg /\ rec.conns = {c} /\ rec.retries = slots[s].rec.retries
       /\ \/ /\ MayRetry(err, rec.retries)
             /\ retryLog' = Append(retryLog, rec) /\ UNCHANGED <<dead, lost>>
          \/ /\ ~MayRetry(err, rec.retries)
             /\ dead' = dead \cup {[rec |-> rec, conn |-> c, name |-> err.name, attempts |-> err.attempts]}
             /\ UNCHANGED <<retryLog, lost>>
          \/ /\ lost' = lost \cup {Pair(slots[s].rec, c)} /\ UNCHANGED <<retryLog, dead>>
  BY <1>2, <1>5, <1>8
<1>14. QED
  BY <1>1, <1>3, <1>6, <1>7, <1>10, <1>12, <1>13 DEF old

(* The timer of the consumer. *)
LEMMA AutoCommitStep ==
    ASSUME TypeInv, AutoCommit
    PROVE  /\ TypeInv' /\ status = "running" /\ committed' = stored
           /\ UNCHANGED <<log, position, stored, retryLog, work, config, fates, clean, tries, budget>>
<1>1. /\ committed' = stored /\ status = "running"
      /\ UNCHANGED <<log, position, stored, retryLog, work, config, fates, clean, tries, budget>>
  BY DEF AutoCommit, history, fates
<1>2. QED
  BY <1>1, KeptTypes DEF TypeInv, OffsetType, work

(* The consumer leaves. *)
LEMMA DisconnectStep ==
    ASSUME TypeInv, Disconnect
    PROVE  /\ TypeInv' /\ committed' = stored /\ status' = "disconnected" /\ \A p \in Partitions : feed[p] = None
           /\ ~budget'.crashed => ~budget.crashed
           /\ UNCHANGED <<log, position, stored, retryLog, feed, queue, slots, config, fates, clean, tries>>
<1>1. /\ committed' = stored /\ status' = "disconnected" /\ \A p \in Partitions : feed[p] = None
      /\ UNCHANGED <<log, position, stored, retryLog, feed, queue, slots, config, fates, clean, tries>>
      /\ Spend("close")
  BY DEF Disconnect, history, fates
<1>2. budget' \in [failures : Nat, faults : Nat, crashed : BOOLEAN] /\ (~budget'.crashed => ~budget.crashed)
  BY <1>1, SpendFacts DEF TypeInv
<1>3. QED
  BY <1>1, <1>2, KeptTypes DEF TypeInv, OffsetType, SmallType

(* A new process starts at the committed offsets, with nothing under way. *)
Renewed ==
    /\ position' = committed /\ stored' = committed /\ status' = "running" /\ queue' = <<>>
    /\ \A p \in Partitions : feed'[p] = None
    /\ \A s \in Slots : slots'[s] = None

(* A new process is well typed. *)
LEMMA RenewedTypes ==
    ASSUME TypeInv, position' = committed, stored' = committed, queue' = <<>>, UNCHANGED committed,
           feed' = [p \in Partitions |-> None], slots' = [s \in Slots |-> None], status' = "running"
    PROVE  OffsetType' /\ FeedType' /\ QueueType' /\ SlotType' /\ Renewed
<1>1. OffsetType' /\ FeedType' /\ QueueType'
  BY DEF TypeInv, OffsetType, FeedType, QueueType
<1>2. (\A s \in Slots : slots'[s] = None) /\ SlotType'
  BY DEF SlotType
<1>3. QED
  BY <1>1, <1>2 DEF Renewed

(* A new process after a shutdown: nothing was under way. *)
LEMMA RestartStep ==
    ASSUME TypeInv, Restart
    PROVE  /\ TypeInv' /\ Renewed /\ status = "disconnected" /\ queue = <<>> /\ \A s \in Slots : slots[s] = None
           /\ UNCHANGED <<log, committed, retryLog, config, fates, clean, tries, budget>>
<1>1. /\ status = "disconnected" /\ queue = <<>> /\ \A s \in Slots : slots[s] = None
      /\ UNCHANGED <<log, committed, retryLog, config, fates, clean, tries, budget>>
      /\ position' = committed /\ stored' = committed /\ queue' = <<>> /\ status' = "running"
      /\ feed' = [p \in Partitions |-> None] /\ slots' = [s \in Slots |-> None]
  BY DEF Restart, Idle, history, fates
<1>2. OffsetType' /\ FeedType' /\ QueueType' /\ SlotType' /\ Renewed
  BY <1>1, RenewedTypes
<1>3. TypeInv'
  BY <1>1, <1>2, KeptTypes DEF TypeInv, SmallType
<1>4. QED
  BY <1>1, <1>2, <1>3

(* A crash: the tasks whose records are committed are lost. *)
LEMMA CrashStep ==
    ASSUME TypeInv, Crash
    PROVE  /\ TypeInv' /\ Renewed /\ budget'.crashed
           /\ lost' = lost \cup UNION {{Pair(t.rec, c) : c \in t.rec.conns} : t \in Orphans}
           /\ UNCHANGED <<log, committed, retryLog, dead, config, delivered, dropped, clean, tries>>
<1>1. /\ lost' = lost \cup UNION {{Pair(t.rec, c) : c \in t.rec.conns} : t \in Orphans}
      /\ UNCHANGED <<log, committed, retryLog, dead, config, delivered, dropped, clean, tries>>
      /\ position' = committed /\ stored' = committed /\ queue' = <<>> /\ status' = "running"
      /\ feed' = [p \in Partitions |-> None] /\ slots' = [s \in Slots |-> None]
      /\ Spend("crash")
  BY DEF Crash
<1>2. OffsetType' /\ FeedType' /\ QueueType' /\ SlotType' /\ Renewed
  BY <1>1, RenewedTypes
<1>3. budget' \in [failures : Nat, faults : Nat, crashed : BOOLEAN] /\ budget'.crashed
  BY <1>1, SpendFacts DEF TypeInv
<1>4. TypeInv'
  BY <1>1, <1>2, <1>3, KeptTypes DEF TypeInv, SmallType
<1>5. QED
  BY <1>1, <1>2, <1>3, <1>4

(* A new configuration moves nothing. *)
LEMMA ReconfigureStep ==
    ASSUME TypeInv, NEW c \in Connections, Reconfigure(c)
    PROVE  /\ TypeInv' /\ (~budget'.crashed => ~budget.crashed)
           /\ UNCHANGED <<kafka, work, fates, clean, tries>>
<1>1. UNCHANGED <<kafka, work, fates, clean, tries>> /\ Spend("config")
  BY DEF Reconfigure, history, fates, kafka
<1>2. PICK v \in {"absent", "missing", "empty", "functions"} : config' = [config EXCEPT ![c] = v]
  BY DEF Reconfigure
<1>3. budget' \in [failures : Nat, faults : Nat, crashed : BOOLEAN] /\ (~budget'.crashed => ~budget.crashed)
  BY <1>1, SpendFacts DEF TypeInv
<1>4. SmallType'
  BY <1>1, <1>2, <1>3 DEF TypeInv, SmallType, work
<1>5. QED
  BY <1>1, <1>3, <1>4, KeptTypes DEF TypeInv, kafka, work

-----------------------------------------------------------------------------
(* Every action preserves every part of the invariant.                       *)

(* Facts of the invariant that the proofs below need again and again. *)
LEMMA Basics ==
    ASSUME TypeInv
    PROVE  /\ RetryCount \in Nat
           /\ \A p \in Partitions : /\ log[p] \in Seq(Records) /\ Len(log[p]) \in Nat /\ DOMAIN log[p] = 1 .. Len(log[p])
                                    /\ position[p] \in Nat /\ stored[p] \in Nat /\ committed[p] \in Nat
           /\ \A p \in Partitions : \A i \in 1 .. Len(log[p]) : log[p][i] \in Records
           /\ retryLog \in Seq(Records) /\ Len(retryLog) \in Nat /\ DOMAIN retryLog = 1 .. Len(retryLog)
           /\ \A i \in 1 .. Len(retryLog) : retryLog[i] \in Records
           /\ queue \in Seq(QueueTasks) /\ Len(queue) \in Nat /\ DOMAIN queue = 1 .. Len(queue)
           /\ \A i \in 1 .. Len(queue) : queue[i] \in QueueTasks /\ queue[i].rec \in Records /\ queue[i].at \in Partitions \X Nat
           /\ \A s \in Slots : slots[s] # None => slots[s].rec \in Records /\ slots[s].at \in Partitions \X Nat
           /\ \A rec \in Records : \A c \in rec.conns : Pair(rec, c) \in Messages \X Connections /\ tries[Pair(rec, c)] \in Nat
<1>1. \A p \in Partitions : /\ log[p] \in Seq(Records) /\ Len(log[p]) \in Nat /\ DOMAIN log[p] = 1 .. Len(log[p])
                             /\ position[p] \in Nat /\ stored[p] \in Nat /\ committed[p] \in Nat
  BY DEF TypeInv, LogType, OffsetType
<1>2. \A p \in Partitions : \A i \in 1 .. Len(log[p]) : log[p][i] \in Records
  BY <1>1
<1>3. /\ retryLog \in Seq(Records) /\ Len(retryLog) \in Nat /\ DOMAIN retryLog = 1 .. Len(retryLog)
      /\ \A i \in 1 .. Len(retryLog) : retryLog[i] \in Records
  BY DEF TypeInv, LogType
<1>4. /\ queue \in Seq(QueueTasks) /\ Len(queue) \in Nat /\ DOMAIN queue = 1 .. Len(queue)
      /\ \A i \in 1 .. Len(queue) : queue[i] \in QueueTasks
  BY DEF TypeInv, QueueType
<1>5. \A t \in QueueTasks : t.rec \in Records /\ t.at \in Partitions \X Nat
  BY DEF QueueTasks
<1>6. \A s \in Slots : slots[s] # None => slots[s].rec \in Records /\ slots[s].at \in Partitions \X Nat
  BY DEF TypeInv, SlotType, RunningTasks
<1>7. RetryCount \in Nat
  BY ConstantsAssumption
<1>8. \A rec \in Records : \A c \in rec.conns : Pair(rec, c) \in Messages \X Connections
  BY DEF Records, Pair
<1>9. \A x \in Messages \X Connections : tries[x] \in Nat
  BY <1>7 DEF TypeInv, SmallType
<1>10. QED
  BY <1>1, <1>2, <1>3, <1>4, <1>5, <1>6, <1>7, <1>8, <1>9

(* The types. *)
LEMMA TypeStep ==
    ASSUME Inv, [Next]_vars
    PROVE  TypeInv'
<1>1. ASSUME NEW m \in Messages, Produce(m) PROVE TypeInv'
  BY <1>1, ProduceStep DEF Inv
<1>2. ASSUME Redeliver PROVE TypeInv'
  BY <1>2, RedeliverStep DEF Inv
<1>3. ASSUME NEW p \in Partitions, EachMessage(p) PROVE TypeInv'
  BY <1>3, EachMessageStep DEF Inv
<1>4. ASSUME NEW p \in Partitions, Add(p) PROVE TypeInv'
  BY <1>4, AddStep DEF Inv
<1>5. ASSUME AutoCommit PROVE TypeInv'
  BY <1>5, AutoCommitStep DEF Inv
<1>6. ASSUME NEW s \in Slots, Finish(s) PROVE TypeInv'
  BY <1>6, FinishStep DEF Inv
<1>7. ASSUME NEW s \in Slots, NEW c \in Connections, Exec(s, c) PROVE TypeInv'
  BY <1>7, ExecStep DEF Inv
<1>8. ASSUME NEW s \in Slots, NEW c \in Connections, CheckError(s, c) PROVE TypeInv'
  BY <1>8, CheckErrorStep DEF Inv
<1>9. ASSUME NEW s \in Slots, NEW c \in Connections, Requeue(s, c) PROVE TypeInv'
  BY <1>9, RequeueStep DEF Inv
<1>10. ASSUME Restart PROVE TypeInv'
  BY <1>10, RestartStep DEF Inv
<1>11. ASSUME Disconnect PROVE TypeInv'
  BY <1>11, DisconnectStep DEF Inv
<1>12. ASSUME Crash PROVE TypeInv'
  BY <1>12, CrashStep DEF Inv
<1>13. ASSUME NEW c \in Connections, Reconfigure(c) PROVE TypeInv'
  BY <1>13, ReconfigureStep DEF Inv
<1>14. ASSUME UNCHANGED vars PROVE TypeInv'
  BY <1>14, KeptTypes DEF Inv, vars, kafka, work, history, TypeInv
<1>15. QED
  BY <1>1, <1>2, <1>3, <1>4, <1>5, <1>6, <1>7, <1>8, <1>9, <1>10, <1>11, <1>12, <1>13, <1>14 DEF Next, Rotor

(* Offsets and callbacks. *)
LEMMA OffsetStep ==
    ASSUME Inv, [Next]_vars
    PROVE  OffsetInv'
<1> USE DEF Inv, OffsetInv
<1>0. \A p \in Partitions : /\ position[p] \in Nat /\ stored[p] \in Nat /\ committed[p] \in Nat
                            /\ Len(log[p]) \in Nat
  BY Basics
<1>1. ASSUME NEW m \in Messages, Produce(m) PROVE OffsetInv'
  BY <1>0, <1>1, ProduceStep DEF kafka, work, Grown, Renewed
<1>2. ASSUME Redeliver PROVE OffsetInv'
  BY <1>0, <1>2, RedeliverStep DEF kafka, work, Grown, Renewed
<1>3. ASSUME NEW p \in Partitions, EachMessage(p) PROVE OffsetInv'
  BY <1>0, <1>3, EachMessageStep DEF kafka, work, Grown, Renewed
<1>4. ASSUME NEW p \in Partitions, Add(p) PROVE OffsetInv'
  BY <1>0, <1>4, AddStep DEF kafka, work, Grown, Renewed
<1>5. ASSUME AutoCommit PROVE OffsetInv'
  BY <1>0, <1>5, AutoCommitStep DEF kafka, work, Grown, Renewed
<1>6. ASSUME NEW s \in Slots, Finish(s) PROVE OffsetInv'
  BY <1>0, <1>6, FinishStep DEF kafka, work, Grown, Renewed
<1>7. ASSUME NEW s \in Slots, NEW c \in Connections, Exec(s, c) PROVE OffsetInv'
  BY <1>0, <1>7, ExecStep DEF kafka, work, Grown, Renewed
<1>8. ASSUME NEW s \in Slots, NEW c \in Connections, CheckError(s, c) PROVE OffsetInv'
  BY <1>0, <1>8, CheckErrorStep DEF kafka, work, Grown, Renewed
<1>9. ASSUME NEW s \in Slots, NEW c \in Connections, Requeue(s, c) PROVE OffsetInv'
  BY <1>0, <1>9, RequeueStep DEF kafka, work, Grown, Renewed
<1>10. ASSUME Restart PROVE OffsetInv'
  BY <1>0, <1>10, RestartStep DEF kafka, work, Grown, Renewed
<1>11. ASSUME Disconnect PROVE OffsetInv'
  BY <1>0, <1>11, DisconnectStep DEF kafka, work, Grown, Renewed
<1>12. ASSUME Crash PROVE OffsetInv'
  BY <1>0, <1>12, CrashStep DEF kafka, work, Grown, Renewed
<1>13. ASSUME NEW c \in Connections, Reconfigure(c) PROVE OffsetInv'
  BY <1>0, <1>13, ReconfigureStep DEF kafka, work, Grown, Renewed
<1>14. ASSUME UNCHANGED vars PROVE OffsetInv'
  BY <1>0, <1>14 DEF vars, kafka, work
<1>15. QED
  BY <1>1, <1>2, <1>3, <1>4, <1>5, <1>6, <1>7, <1>8, <1>9, <1>10, <1>11, <1>12, <1>13, <1>14 DEF Next, Rotor

(* What is in the log stays where it is. *)
LEMMA InLogKept ==
    ASSUME TypeInv, NEW at \in Partitions \X Nat, NEW r, InLog(log, at, r),
           UNCHANGED log \/ \E p \in Partitions, rec \in Records : Grown(p, rec)
    PROVE  InLog(log', at, r)
<1>0. at[1] \in Partitions /\ at[2] \in Nat /\ Len(log[at[1]]) \in Nat
  BY Basics
<1>1. CASE UNCHANGED log
  BY <1>1 DEF InLog
<1>2. ASSUME NEW p \in Partitions, NEW rec \in Records, Grown(p, rec)
      PROVE  InLog(log', at, r)
  BY <1>0, <1>2 DEF InLog, Grown
<1>3. QED
  BY <1>1, <1>2

(* Tasks are about records of the log. *)
LEMMA TaskStep ==
    ASSUME Inv, [Next]_vars
    PROVE  TaskInv'
<1>0. /\ DOMAIN queue = 1 .. Len(queue) /\ Len(queue) \in Nat /\ queue \in Seq(QueueTasks)
      /\ \A i \in 1 .. Len(queue) : queue[i].at \in Partitions \X Nat
      /\ \A s \in Slots : slots[s] # None => slots[s].at \in Partitions \X Nat
  BY Basics DEF Inv
<1>1. ASSUME NEW m \in Messages, Produce(m) PROVE TaskInv'
  BY <1>0, <1>1, ProduceStep, InLogKept DEF Inv, TaskInv, work
<1>2. ASSUME Redeliver PROVE TaskInv'
  BY <1>0, <1>2, RedeliverStep, InLogKept DEF Inv, TaskInv, work
<1>3. ASSUME NEW p \in Partitions, EachMessage(p) PROVE TaskInv'
  BY <1>0, <1>3, EachMessageStep DEF Inv, TaskInv, kafka, work, Moved, Renewed
<1>4. ASSUME NEW p \in Partitions, Add(p) PROVE TaskInv'
  <2> DEFINE i == stored[p] + 1
             task == Task(p, i)
  <2>1. /\ i \in 1 .. Len(log[p]) /\ task \in QueueTasks /\ UNCHANGED log
        /\ \/ \E s \in Slots : slots[s] = None /\ Starts(s, task) /\ UNCHANGED queue
           \/ queue' = Append(queue, task) /\ UNCHANGED slots
           \/ UNCHANGED <<queue, slots>>
    BY <1>4, AddStep DEF Inv, Throws
  <2>2. task.at = <<p, i>> /\ task.rec = log[p][i]
    BY <2>1, TaskFacts DEF Inv
  <2>3. InLog(log, task.at, task.rec)
    BY <2>1, <2>2 DEF InLog
  <2> HIDE DEF task
  <2>4. ASSUME NEW s \in Slots, slots[s] = None, Starts(s, task), UNCHANGED queue
        PROVE  TaskInv'
    <3>1. Started(task).at = task.at /\ Started(task).rec = task.rec
      BY <2>1, StartedFacts DEF Inv, TypeInv
    <3>2. QED
      BY <1>0, <2>1, <2>3, <2>4, <3>1 DEF Inv, TaskInv, Starts, Placed
  <2>5. ASSUME queue' = Append(queue, task), UNCHANGED slots
        PROVE  TaskInv'
    <3>1. /\ queue' \in Seq(QueueTasks) /\ Len(queue') = Len(queue) + 1 /\ DOMAIN queue' = 1 .. (Len(queue) + 1)
          /\ \A j \in 1 .. Len(queue) : queue'[j] = queue[j]
          /\ queue'[Len(queue) + 1] = task
      BY <1>0, <2>1, <2>5, Appended
    <3>2. QED
      BY <1>0, <2>1, <2>3, <2>5, <3>1 DEF Inv, TaskInv
  <2>6. CASE UNCHANGED <<queue, slots>>
    BY <2>1, <2>6 DEF Inv, TaskInv
  <2>7. QED
    BY <2>1, <2>4, <2>5, <2>6
<1>5. ASSUME AutoCommit PROVE TaskInv'
  BY <1>0, <1>5, AutoCommitStep DEF Inv, TaskInv, kafka, work, Moved, Renewed
<1>6. ASSUME NEW s \in Slots, Finish(s) PROVE TaskInv'
  <2>1. /\ UNCHANGED log
        /\ \/ queue = <<>> /\ queue' = <<>> /\ Placed(s, None)
           \/ queue # <<>> /\ queue' = Tail(queue) /\ (Starts(s, Head(queue)) \/ UNCHANGED slots)
    BY <1>6, FinishStep DEF Inv, kafka, Throws
  <2>2. CASE queue = <<>> /\ queue' = <<>> /\ Placed(s, None)
    BY <1>0, <2>1, <2>2 DEF Inv, TaskInv, Placed
  <2>3. CASE queue # <<>> /\ queue' = Tail(queue) /\ (Starts(s, Head(queue)) \/ UNCHANGED slots)
    <3>1. /\ queue' \in Seq(QueueTasks) /\ Len(queue') = Len(queue) - 1 /\ DOMAIN queue' = 1 .. (Len(queue) - 1)
          /\ \A j \in 1 .. (Len(queue) - 1) : queue'[j] = queue[j + 1]
          /\ Head(queue) = queue[1] /\ Head(queue) \in QueueTasks
      BY <1>0, <2>3, Tailed
    <3>2. Len(queue) # 0
      BY <1>0, <2>3, EmptySeq
    <3>3. Started(queue[1]).at = queue[1].at /\ Started(queue[1]).rec = queue[1].rec
      BY <3>1, StartedFacts DEF Inv, TypeInv
    <3>4. Placed(s, Started(queue[1])) \/ UNCHANGED slots
      BY <2>3, <3>1 DEF Starts
    <3>5. \A j \in 1 .. Len(queue) : InLog(log, queue[j].at, queue[j].rec)
      BY <1>0 DEF Inv, TaskInv
    <3>6. ASSUME NEW j \in DOMAIN queue' PROVE InLog(log, queue'[j].at, queue'[j].rec)
      <4>1. j + 1 \in 1 .. Len(queue) /\ queue'[j] = queue[j + 1]
        BY <1>0, <3>1, <3>2
      <4>2. QED
        BY <3>5, <4>1
    <3>7. ASSUME NEW t \in Slots, slots'[t] # None PROVE InLog(log, slots'[t].at, slots'[t].rec)
      <4>1. InLog(log, queue[1].at, queue[1].rec)
        BY <1>0, <3>2, <3>5
      <4>2. CASE t = s
        BY <3>3, <3>4, <3>7, <4>1, <4>2 DEF Placed, Inv, TaskInv
      <4>3. CASE t # s
        BY <3>4, <3>7, <4>3 DEF Placed, Inv, TaskInv
      <4>4. QED
        BY <4>2, <4>3
    <3>8. QED
      BY <2>1, <3>6, <3>7 DEF TaskInv
  <2>4. QED
    BY <2>1, <2>2, <2>3
<1>7. ASSUME NEW s \in Slots, NEW c \in Connections, Exec(s, c) PROVE TaskInv'
  <2>1. slots[s] # None /\ UNCHANGED <<log, queue>> /\ \E chain \in Chains : Moved(s, c, chain)
    BY <1>7, ExecStep DEF Inv, kafka
  <2>2. QED
    BY <2>1 DEF Inv, TaskInv, Moved
<1>8. ASSUME NEW s \in Slots, NEW c \in Connections, CheckError(s, c) PROVE TaskInv'
  <2>1. slots[s] # None /\ UNCHANGED <<log, queue>> /\ \E chain \in Chains : Moved(s, c, chain)
    BY <1>8, CheckErrorStep DEF Inv, kafka
  <2>2. QED
    BY <2>1 DEF Inv, TaskInv, Moved
<1>9. ASSUME NEW s \in Slots, NEW c \in Connections, Requeue(s, c) PROVE TaskInv'
  <2>1. slots[s] # None /\ UNCHANGED <<log, queue>> /\ \E chain \in Chains : Moved(s, c, chain)
    BY <1>9, RequeueStep DEF Inv, kafka
  <2>2. QED
    BY <2>1 DEF Inv, TaskInv, Moved
<1>10. ASSUME Restart PROVE TaskInv'
  BY <1>0, <1>10, RestartStep DEF Inv, TaskInv, kafka, work, Moved, Renewed
<1>11. ASSUME Disconnect PROVE TaskInv'
  BY <1>0, <1>11, DisconnectStep DEF Inv, TaskInv, kafka, work, Moved, Renewed
<1>12. ASSUME Crash PROVE TaskInv'
  BY <1>0, <1>12, CrashStep DEF Inv, TaskInv, kafka, work, Moved, Renewed
<1>13. ASSUME NEW c \in Connections, Reconfigure(c) PROVE TaskInv'
  BY <1>0, <1>13, ReconfigureStep DEF Inv, TaskInv, kafka, work, Moved, Renewed
<1>14. ASSUME UNCHANGED vars PROVE TaskInv'
  BY <1>14 DEF Inv, TaskInv, vars, kafka, work
<1>15. QED
  BY <1>1, <1>2, <1>3, <1>4, <1>5, <1>6, <1>7, <1>8, <1>9, <1>10, <1>11, <1>12, <1>13, <1>14 DEF Next, Rotor

(* What became of an event is not forgotten. *)
LEMMA FatesStep ==
    ASSUME Inv, [Next]_vars
    PROVE  FatesGrow
<1>1. ASSUME NEW m \in Messages, Produce(m) PROVE FatesGrow
  BY <1>1, ProduceStep DEF Inv, FatesGrow, fates, kafka
<1>2. ASSUME Redeliver PROVE FatesGrow
  BY <1>2, RedeliverStep DEF Inv, FatesGrow, fates, kafka
<1>3. ASSUME NEW p \in Partitions, EachMessage(p) PROVE FatesGrow
  BY <1>3, EachMessageStep DEF Inv, FatesGrow, fates, kafka
<1>4. ASSUME NEW p \in Partitions, Add(p) PROVE FatesGrow
  BY <1>4, AddStep, BeginFacts, Tailed DEF Inv, TypeInv, QueueType, Starts, Throws, FatesGrow, kafka
<1>5. ASSUME AutoCommit PROVE FatesGrow
  BY <1>5, AutoCommitStep DEF Inv, FatesGrow, fates, kafka
<1>6. ASSUME NEW s \in Slots, Finish(s) PROVE FatesGrow
  BY <1>6, FinishStep, BeginFacts, Tailed DEF Inv, TypeInv, QueueType, Starts, Throws, FatesGrow, kafka
<1>7. ASSUME NEW s \in Slots, NEW c \in Connections, Exec(s, c) PROVE FatesGrow
  BY <1>7, ExecStep DEF Inv, FatesGrow, fates, kafka
<1>8. ASSUME NEW s \in Slots, NEW c \in Connections, CheckError(s, c) PROVE FatesGrow
  BY <1>8, CheckErrorStep DEF Inv, FatesGrow, fates, kafka
<1>9. ASSUME NEW s \in Slots, NEW c \in Connections, Requeue(s, c) PROVE FatesGrow
  BY <1>9, RequeueStep DEF Inv, FatesGrow, fates, kafka
<1>10. ASSUME Restart PROVE FatesGrow
  BY <1>10, RestartStep DEF Inv, FatesGrow, fates, kafka
<1>11. ASSUME Disconnect PROVE FatesGrow
  BY <1>11, DisconnectStep DEF Inv, FatesGrow, fates, kafka
<1>12. ASSUME Crash PROVE FatesGrow
  BY <1>12, CrashStep DEF Inv, FatesGrow, fates, kafka
<1>13. ASSUME NEW c \in Connections, Reconfigure(c) PROVE FatesGrow
  BY <1>13, ReconfigureStep DEF Inv, FatesGrow, fates, kafka
<1>14. ASSUME UNCHANGED vars PROVE FatesGrow
  BY <1>14 DEF FatesGrow, vars, history, kafka
<1>15. QED
  BY <1>1, <1>2, <1>3, <1>4, <1>5, <1>6, <1>7, <1>8, <1>9, <1>10, <1>11, <1>12, <1>13, <1>14 DEF Next, Rotor

(* The number of attempts does not fall. *)
MoreTries == \A x \in Messages \X Connections : tries'[x] >= tries[x]

(* Attempts are not forgotten. *)
LEMMA CountStep ==
    ASSUME Inv, [Next]_vars
    PROVE  MoreTries
<1>0. \A x \in Messages \X Connections : tries[x] \in Nat
  BY ConstantsAssumption DEF Inv, TypeInv, SmallType
<1> USE DEF MoreTries
<1>1. ASSUME NEW m \in Messages, Produce(m) PROVE MoreTries
  BY <1>0, <1>1, ProduceStep DEF Inv
<1>2. ASSUME Redeliver PROVE MoreTries
  BY <1>0, <1>2, RedeliverStep DEF Inv
<1>3. ASSUME NEW p \in Partitions, EachMessage(p) PROVE MoreTries
  BY <1>0, <1>3, EachMessageStep DEF Inv
<1>4. ASSUME NEW p \in Partitions, Add(p) PROVE MoreTries
  BY <1>0, <1>4, AddStep, BeginFacts, Tailed DEF Inv, TypeInv, QueueType, Starts, Throws
<1>5. ASSUME AutoCommit PROVE MoreTries
  BY <1>0, <1>5, AutoCommitStep DEF Inv
<1>6. ASSUME NEW s \in Slots, Finish(s) PROVE MoreTries
  BY <1>0, <1>6, FinishStep, BeginFacts, Tailed DEF Inv, TypeInv, QueueType, Starts, Throws
<1>7. ASSUME NEW s \in Slots, NEW c \in Connections, Exec(s, c) PROVE MoreTries
  BY <1>0, <1>7, ExecStep DEF Inv
<1>8. ASSUME NEW s \in Slots, NEW c \in Connections, CheckError(s, c) PROVE MoreTries
  BY <1>0, <1>8, CheckErrorStep DEF Inv
<1>9. ASSUME NEW s \in Slots, NEW c \in Connections, Requeue(s, c) PROVE MoreTries
  BY <1>0, <1>9, RequeueStep DEF Inv
<1>10. ASSUME Restart PROVE MoreTries
  BY <1>0, <1>10, RestartStep DEF Inv
<1>11. ASSUME Disconnect PROVE MoreTries
  BY <1>0, <1>11, DisconnectStep DEF Inv
<1>12. ASSUME Crash PROVE MoreTries
  BY <1>0, <1>12, CrashStep DEF Inv
<1>13. ASSUME NEW c \in Connections, Reconfigure(c) PROVE MoreTries
  BY <1>0, <1>13, ReconfigureStep DEF Inv
<1>14. ASSUME UNCHANGED vars PROVE MoreTries
  BY <1>0, <1>14 DEF vars, history
<1>15. QED
  BY <1>1, <1>2, <1>3, <1>4, <1>5, <1>6, <1>7, <1>8, <1>9, <1>10, <1>11, <1>12, <1>13, <1>14 DEF Next, Rotor

(* A task that starts has sound chains, and none of them is at its end. *)
LEMMA StartedSound ==
    ASSUME Inv, FatesGrow, NEW s \in Slots, NEW task \in QueueTasks, Placed(s, Started(task))
    PROVE  ChainInv'
<1>1. /\ Started(task).rec = task.rec
      /\ \A c \in task.rec.conns : Started(task).chains[c] = Chain(task.rec, c)
  BY StartedFacts DEF Inv, TypeInv
<1>2. task.rec \in Records /\ task.rec.conns \subseteq Connections
  BY DEF QueueTasks, Records
<1>3. \A c \in task.rec.conns : Sound(Chain(task.rec, c)) /\ Chain(task.rec, c).pc # "check"
  BY <1>2, ChainFacts DEF Inv, TypeInv
<1>4. QED
  BY <1>1, <1>3 DEF Inv, ChainInv, Placed, Settled, Delivered, Dead, FatesGrow

(* Chains. *)
LEMMA ChainStep ==
    ASSUME Inv, [Next]_vars
    PROVE  ChainInv'
<1>0. FatesGrow
  BY FatesStep
<1>1. ASSUME NEW m \in Messages, Produce(m) PROVE ChainInv'
  BY <1>0, <1>1, ProduceStep DEF Inv, ChainInv, Settled, Delivered, Dead, FatesGrow, work
<1>2. ASSUME Redeliver PROVE ChainInv'
  BY <1>0, <1>2, RedeliverStep DEF Inv, ChainInv, Settled, Delivered, Dead, FatesGrow, work
<1>3. ASSUME NEW p \in Partitions, EachMessage(p) PROVE ChainInv'
  BY <1>0, <1>3, EachMessageStep DEF Inv, ChainInv, Settled, Delivered, Dead, FatesGrow, work
<1>4. ASSUME NEW p \in Partitions, Add(p) PROVE ChainInv'
  <2> DEFINE task == Task(p, stored[p] + 1)
  <2>1. /\ task \in QueueTasks
        /\ \/ \E s \in Slots : slots[s] = None /\ Starts(s, task)
           \/ UNCHANGED slots
    BY <1>4, AddStep DEF Inv, Throws
  <2>2. CASE UNCHANGED slots
    BY <1>0, <2>2 DEF Inv, ChainInv, Settled, Delivered, Dead, FatesGrow
  <2>3. CASE \E s \in Slots : slots[s] = None /\ Starts(s, task)
    BY <1>0, <2>1, <2>3, StartedSound DEF Inv, Starts
  <2>4. QED
    BY <2>1, <2>2, <2>3
<1>5. ASSUME AutoCommit PROVE ChainInv'
  BY <1>0, <1>5, AutoCommitStep DEF Inv, ChainInv, Settled, Delivered, Dead, FatesGrow, work
<1>6. ASSUME NEW s \in Slots, Finish(s) PROVE ChainInv'
  <2>1. \/ Placed(s, None)
        \/ queue # <<>> /\ Starts(s, Head(queue))
        \/ UNCHANGED slots
    BY <1>6, FinishStep DEF Inv, Throws
  <2>2. CASE Placed(s, None)
    BY <1>0, <2>2 DEF Inv, ChainInv, Placed, Settled, Delivered, Dead, FatesGrow
  <2>3. CASE queue # <<>> /\ Starts(s, Head(queue))
    <3>1. Head(queue) \in QueueTasks
      BY <2>3, Tailed DEF Inv, TypeInv, QueueType
    <3>2. QED
      BY <1>0, <2>3, <3>1, StartedSound DEF Inv, Starts
  <2>4. CASE UNCHANGED slots
    BY <1>0, <2>4 DEF Inv, ChainInv, Settled, Delivered, Dead, FatesGrow
  <2>5. QED
    BY <2>1, <2>2, <2>3, <2>4
<1>7. ASSUME NEW s \in Slots, NEW c \in Connections, Exec(s, c) PROVE ChainInv'
  <2>1. PICK chain \in Chains : /\ Moved(s, c, chain) /\ Sound(chain) /\ chain.pc \in {"run", "check"}
             /\ (chain.pc = "check" /\ chain.errors = <<>> => Settled(Pair(slots[s].rec, c))')
    BY <1>7, ExecStep DEF Inv
  <2>2. slots[s] # None /\ c \in slots[s].rec.conns
    BY <1>7, ExecStep DEF Inv
  <2>3. QED
    BY <1>0, <2>1, <2>2 DEF Inv, ChainInv, Moved, Pair, Settled, Delivered, Dead, FatesGrow
<1>8. ASSUME NEW s \in Slots, NEW c \in Connections, CheckError(s, c) PROVE ChainInv'
  <2>1. PICK chain \in Chains : /\ Moved(s, c, chain) /\ Sound(chain) /\ chain.pc \in {"done", "failed"}
    BY <1>8, CheckErrorStep DEF Inv
  <2>2. slots[s] # None /\ c \in slots[s].rec.conns
    BY <1>8, CheckErrorStep DEF Inv
  <2>3. QED
    BY <1>0, <2>1, <2>2 DEF Inv, ChainInv, Moved, Pair, Settled, Delivered, Dead, FatesGrow
<1>9. ASSUME NEW s \in Slots, NEW c \in Connections, Requeue(s, c) PROVE ChainInv'
  <2>1. PICK chain \in Chains : /\ Moved(s, c, chain) /\ Sound(chain) /\ chain.pc = "done"
    BY <1>9, RequeueStep DEF Inv
  <2>2. slots[s] # None /\ c \in slots[s].rec.conns
    BY <1>9, RequeueStep DEF Inv
  <2>3. QED
    BY <1>0, <2>1, <2>2 DEF Inv, ChainInv, Moved, Pair, Settled, Delivered, Dead, FatesGrow
<1>10. ASSUME Restart PROVE ChainInv'
  BY <1>10, RestartStep DEF Inv, ChainInv, Renewed
<1>11. ASSUME Disconnect PROVE ChainInv'
  BY <1>0, <1>11, DisconnectStep DEF Inv, ChainInv, Settled, Delivered, Dead, FatesGrow, work
<1>12. ASSUME Crash PROVE ChainInv'
  BY <1>12, CrashStep DEF Inv, ChainInv, Renewed
<1>13. ASSUME NEW c \in Connections, Reconfigure(c) PROVE ChainInv'
  BY <1>0, <1>13, ReconfigureStep DEF Inv, ChainInv, Settled, Delivered, Dead, FatesGrow, work
<1>14. ASSUME UNCHANGED vars PROVE ChainInv'
  BY <1>0, <1>14 DEF Inv, ChainInv, Settled, Delivered, Dead, FatesGrow, vars, work
<1>15. QED
  BY <1>1, <1>2, <1>3, <1>4, <1>5, <1>6, <1>7, <1>8, <1>9, <1>10, <1>11, <1>12, <1>13, <1>14 DEF Next, Rotor

(* The parts of TriesInv and DeadAfterAllAttempts, and when they stay. *)
LogTries == \A p \in Partitions : \A i \in DOMAIN log[p] : Tried(tries, log[p][i], log[p][i].retries)
SlotTries == \A s \in Slots : slots[s] # None => Tried(tries, slots[s].rec, slots[s].rec.retries + 1)
RetryTries ==
    \A i \in DOMAIN retryLog :
        Tried(tries, retryLog[i], retryLog[i].retries + 1) /\ retryLog[i].retries + 1 <= RetryCount

(* Attempts are only added. *)
LEMMA TriedMore ==
    ASSUME TypeInv, TypeInv', MoreTries, NEW rec \in Records, NEW n \in Nat, Tried(tries, rec, n)
    PROVE  Tried(tries', rec, n)
<1>1. \A c \in rec.conns : Pair(rec, c) \in Messages \X Connections /\ tries[Pair(rec, c)] \in Nat
  BY Basics
<1>2. \A x \in Messages \X Connections : tries'[x] \in Nat
  BY ConstantsAssumption DEF TypeInv, SmallType
<1>3. QED
  BY <1>1, <1>2 DEF Tried, MoreTries

(* What a step leaves alone keeps its part. *)
LEMMA TriesKept ==
    ASSUME Inv, TypeInv', MoreTries
    PROVE  /\ UNCHANGED log => LogTries'
           /\ UNCHANGED slots => SlotTries'
           /\ UNCHANGED retryLog => RetryTries'
           /\ UNCHANGED dead /\ DeadTyped => DeadAfterAllAttempts' /\ DeadTyped'
<1>1. \A rec \in Records : rec.retries \in Nat
  BY ConstantsAssumption DEF Records
<1>2. ASSUME UNCHANGED log PROVE LogTries'
  BY <1>1, <1>2, Basics, TriedMore DEF Inv, TriesInv, LogTries
<1>3. ASSUME UNCHANGED slots PROVE SlotTries'
  BY <1>1, <1>3, Basics, TriedMore DEF Inv, TriesInv, SlotTries
<1>4. ASSUME UNCHANGED retryLog PROVE RetryTries'
  BY <1>1, <1>4, Basics, TriedMore DEF Inv, TriesInv, RetryTries
<1>5. ASSUME UNCHANGED dead, DeadTyped PROVE DeadAfterAllAttempts' /\ DeadTyped'
  <2>1. \A x \in Messages \X Connections : tries'[x] \in Nat /\ tries[x] \in Nat /\ tries'[x] >= tries[x] /\ RetryCount \in Nat
    BY ConstantsAssumption DEF Inv, TypeInv, SmallType, MoreTries
  <2>2. \A d \in dead : <<d.rec.msg, d.conn>> \in Messages \X Connections
    BY <1>5 DEF DeadTyped
  <2>3. QED
    <3> DEFINE n(d) == tries[<<d.rec.msg, d.conn>>]
               n1(d) == tries'[<<d.rec.msg, d.conn>>]
    <3>1. \A d \in dead : n(d) \in Nat /\ n1(d) \in Nat /\ n1(d) >= n(d) /\ d.attempts \in Nat
      BY <1>5, <2>1, <2>2 DEF DeadTyped
    <3>2. \A d \in dead : Retryable(d.name) => n(d) > d.attempts \/ n(d) > RetryCount
      BY DEF Inv, DeadAfterAllAttempts
    <3> HIDE DEF n, n1
    <3>3. \A d \in dead : Retryable(d.name) => n1(d) > d.attempts \/ n1(d) > RetryCount
      BY <2>1, <3>1, <3>2, ConstantsAssumption
    <3>4. QED
      BY <1>5, <3>3 DEF DeadAfterAllAttempts, DeadTyped, n1
<1>6. QED
  BY <1>2, <1>3, <1>4, <1>5

(* A record that is appended has been tried as often as it says. *)
LEMMA GrownTries ==
    ASSUME Inv, TypeInv', MoreTries, NEW p \in Partitions, NEW rec \in Records, Grown(p, rec),
           Tried(tries, rec, rec.retries)
    PROVE  LogTries'
<1>1. \A r \in Records : r.retries \in Nat
  BY ConstantsAssumption DEF Records
<1>2. \A q \in Partitions : \A i \in 1 .. Len(log[q]) : Tried(tries', log[q][i], log[q][i].retries)
  BY <1>1, Basics, TriedMore DEF Inv, TriesInv
<1>3. Tried(tries', rec, rec.retries)
  BY <1>1, TriedMore DEF Inv
<1>4. \A q \in Partitions : /\ DOMAIN log'[q] = 1 .. Len(log'[q]) /\ Len(log'[q]) \in Nat /\ Len(log[q]) \in Nat
  BY Basics DEF Inv, TypeInv, LogType
<1>5. QED
  BY <1>2, <1>3, <1>4, SMTT(30) DEF LogTries, Grown

(* A task that starts is tried once more. *)
LEMMA StartedTries ==
    ASSUME Inv, TypeInv', MoreTries, NEW s \in Slots, NEW task \in QueueTasks, Starts(s, task),
           Tried(tries, task.rec, task.rec.retries)
    PROVE  SlotTries'
<1>1. task.rec \in Records /\ task.rec.retries \in 0 .. RetryCount
  BY DEF QueueTasks, Records
<1>2. Tried(tries', task.rec, task.rec.retries + 1)
  BY <1>1, BeginFacts DEF Starts, Tried, Inv, TypeInv
<1>3. Started(task).rec = task.rec
  BY StartedFacts DEF Inv, TypeInv
<1>4. ASSUME NEW t \in Slots, t # s, slots'[t] # None
      PROVE  Tried(tries', slots'[t].rec, slots'[t].rec.retries + 1)
  <2>1. slots'[t] = slots[t] /\ slots[t].rec \in Records /\ slots[t].rec.retries + 1 \in Nat
    BY <1>4, Basics, ConstantsAssumption DEF Starts, Placed, Inv, Records
  <2>2. QED
    BY <1>4, <2>1, TriedMore DEF Inv, TriesInv
<1>5. QED
  BY <1>2, <1>3, <1>4 DEF SlotTries, Starts, Placed

(* Attempts are counted, and the dead have had theirs. *)
LEMMA TriesStep ==
    ASSUME Inv, [Next]_vars
    PROVE  AllTries'
<1>0. Inv /\ TypeInv' /\ MoreTries /\ DeadTyped
  BY TypeStep, CountStep DEF Inv
<1>a. AllTries' <=> LogTries' /\ SlotTries' /\ RetryTries' /\ DeadAfterAllAttempts' /\ DeadTyped'
  BY DEF AllTries, TriesInv, LogTries, SlotTries, RetryTries
<1>1. ASSUME NEW m \in Messages, Produce(m) PROVE AllTries'
  <2>1. PICK p \in Partitions, rec \in Records : Grown(p, rec) /\ rec.retries = 0
    BY <1>1, ProduceStep DEF Inv
  <2>2. UNCHANGED <<slots, retryLog, dead>>
    BY <1>1, ProduceStep DEF Inv, fates, work
  <2>3. Tried(tries, rec, rec.retries)
    BY <2>1, Basics DEF Tried, Inv
  <2>4. QED
    BY <1>0, <1>a, <2>1, <2>2, <2>3, GrownTries, TriesKept
<1>2. ASSUME Redeliver PROVE AllTries'
  <2>1. PICK i \in 1 .. Len(retryLog), p \in Partitions, rec \in Records :
           /\ Grown(p, rec) /\ rec.msg = retryLog[i].msg /\ rec.conns = retryLog[i].conns
           /\ rec.retries = retryLog[i].retries + 1
           /\ Len(retryLog') = Len(retryLog) - 1
           /\ \A j \in 1 .. Len(retryLog') : retryLog'[j] = IF j < i THEN retryLog[j] ELSE retryLog[j + 1]
    BY <1>2, RedeliverStep DEF Inv
  <2>2. UNCHANGED <<slots, dead, tries>>
    BY <1>2, RedeliverStep DEF Inv, fates, work
  <2>3. /\ DOMAIN retryLog = 1 .. Len(retryLog) /\ Len(retryLog) \in Nat
        /\ DOMAIN retryLog' = 1 .. Len(retryLog') /\ Len(retryLog') \in Nat
    BY <1>0, Basics DEF Inv, TypeInv, LogType
  <2>4. Tried(tries, rec, rec.retries)
    BY <2>1, <2>3 DEF Inv, TriesInv, Tried, Pair
  <2>5. RetryTries'
    <3>1. ASSUME NEW j \in 1 .. Len(retryLog') PROVE \E k \in 1 .. Len(retryLog) : retryLog'[j] = retryLog[k]
      <4>1. j \in 1 .. Len(retryLog) /\ j + 1 \in 1 .. Len(retryLog)
        BY <2>1, <2>3
      <4>2. QED
        BY <2>1, <4>1
    <3>2. RetryTries
      BY DEF Inv, TriesInv, RetryTries
    <3>3. QED
      BY <2>2, <2>3, <3>1, <3>2 DEF RetryTries
  <2>6. QED
    BY <1>0, <1>a, <2>1, <2>2, <2>4, <2>5, GrownTries, TriesKept
<1>3. ASSUME NEW p \in Partitions, EachMessage(p) PROVE AllTries'
  BY <1>0, <1>a, <1>3, EachMessageStep, TriesKept DEF Inv, fates, kafka, work
<1>4. ASSUME NEW p \in Partitions, Add(p) PROVE AllTries'
  <2> DEFINE i == stored[p] + 1
             task == Task(p, i)
  <2>1. /\ i \in 1 .. Len(log[p]) /\ task \in QueueTasks /\ UNCHANGED <<log, retryLog, dead>>
        /\ \/ \E s \in Slots : Starts(s, task)
           \/ UNCHANGED slots
    BY <1>4, AddStep DEF Inv, Throws
  <2>2. task.rec = log[p][i] /\ DOMAIN log[p] = 1 .. Len(log[p])
    BY <2>1, TaskFacts, Basics DEF Inv
  <2>3. Tried(tries, task.rec, task.rec.retries)
    BY <2>1, <2>2 DEF Inv, TriesInv
  <2>4. SlotTries'
    BY <1>0, <2>1, <2>3, StartedTries, TriesKept
  <2>5. QED
    BY <1>0, <1>a, <2>1, <2>4, TriesKept
<1>5. ASSUME AutoCommit PROVE AllTries'
  BY <1>0, <1>a, <1>5, AutoCommitStep, TriesKept DEF Inv, fates, kafka, work
<1>6. ASSUME NEW s \in Slots, Finish(s) PROVE AllTries'
  <2>1. /\ UNCHANGED <<log, retryLog, dead>>
        /\ \/ Placed(s, None) /\ UNCHANGED tries
           \/ queue # <<>> /\ Starts(s, Head(queue))
           \/ UNCHANGED slots
    BY <1>6, FinishStep DEF Inv, kafka, Throws
  <2>2. CASE Placed(s, None) /\ UNCHANGED tries
    BY <1>0, <1>a, <2>1, <2>2, TriesKept DEF Inv, TriesInv, SlotTries, Placed
  <2>3. CASE queue # <<>> /\ Starts(s, Head(queue))
    <3>1. Head(queue) \in QueueTasks /\ Head(queue) = queue[1] /\ 1 \in DOMAIN queue
      BY <2>3, Tailed, EmptySeq DEF Inv, TypeInv, QueueType
    <3>2. InLog(log, queue[1].at, queue[1].rec) /\ queue[1].at \in Partitions \X Nat
      BY <3>1, Basics DEF Inv, TaskInv
    <3>3. queue[1].at[2] \in DOMAIN log[queue[1].at[1]] /\ queue[1].at[1] \in Partitions
      BY <3>2, Basics DEF InLog, Inv
    <3>4. Tried(tries, queue[1].rec, queue[1].rec.retries)
      BY <3>2, <3>3 DEF Inv, TriesInv, InLog
    <3>5. QED
      BY <1>0, <1>a, <2>1, <2>3, <3>1, <3>4, StartedTries, TriesKept
  <2>4. CASE UNCHANGED slots
    BY <1>0, <1>a, <2>1, <2>4, TriesKept
  <2>5. QED
    BY <2>1, <2>2, <2>3, <2>4
<1>7. ASSUME NEW s \in Slots, NEW c \in Connections, Exec(s, c) PROVE AllTries'
  <2>1. /\ slots[s] # None /\ UNCHANGED <<log, retryLog, dead, tries>> /\ \E chain \in Chains : Moved(s, c, chain)
    BY <1>7, ExecStep DEF Inv, kafka
  <2>2. SlotTries'
    BY <2>1 DEF Inv, TriesInv, SlotTries, Moved
  <2>3. QED
    BY <1>0, <1>a, <2>1, <2>2, TriesKept
<1>8. ASSUME NEW s \in Slots, NEW c \in Connections, CheckError(s, c) PROVE AllTries'
  <2>1. /\ slots[s] # None /\ UNCHANGED <<log, retryLog, dead, tries>> /\ \E chain \in Chains : Moved(s, c, chain)
    BY <1>8, CheckErrorStep DEF Inv, kafka
  <2>2. SlotTries'
    BY <2>1 DEF Inv, TriesInv, SlotTries, Moved
  <2>3. QED
    BY <1>0, <1>a, <2>1, <2>2, TriesKept
<1>9. ASSUME NEW s \in Slots, NEW c \in Connections, Requeue(s, c) PROVE AllTries'
  <2>1. /\ slots[s] # None /\ c \in slots[s].rec.conns /\ UNCHANGED <<log, tries>>
        /\ \E chain \in Chains : Moved(s, c, chain)
    BY <1>9, RequeueStep DEF Inv
  <2>2. SlotTries'
    BY <2>1 DEF Inv, TriesInv, SlotTries, Moved
  <2>3. PICK rec \in Records, err \in Errs :
           /\ rec.msg = slots[s].rec.msg /\ rec.conns = {c} /\ rec.retries = slots[s].rec.retries
           /\ \/ /\ MayRetry(err, rec.retries)
                 /\ retryLog' = Append(retryLog, rec) /\ UNCHANGED <<dead, lost>>
              \/ /\ ~MayRetry(err, rec.retries)
                 /\ dead' = dead \cup {[rec |-> rec, conn |-> c, name |-> err.name, attempts |-> err.attempts]}
                 /\ UNCHANGED <<retryLog, lost>>
              \/ /\ lost' = lost \cup {Pair(slots[s].rec, c)} /\ UNCHANGED <<retryLog, dead>>
    BY <1>9, RequeueStep DEF Inv
  <2>4. Tried(tries, rec, rec.retries + 1) /\ tries[<<rec.msg, c>>] >= rec.retries + 1
    BY <2>1, <2>3 DEF Inv, TriesInv, Tried, Pair
  <2>5. rec.retries \in Nat /\ RetryCount \in Nat /\ rec.msg \in Messages /\ tries[<<rec.msg, c>>] \in Nat
    <3>1. rec.retries \in Nat /\ RetryCount \in Nat /\ rec.msg \in Messages
      BY ConstantsAssumption DEF Records
    <3>2. <<rec.msg, c>> \in Messages \X Connections
      BY <3>1
    <3>3. tries \in [Messages \X Connections -> 0 .. (RetryCount + 1)]
      BY DEF Inv, TypeInv, SmallType
    <3>4. QED
      BY <3>1, <3>2, <3>3
  <2>6. CASE MayRetry(err, rec.retries) /\ retryLog' = Append(retryLog, rec) /\ UNCHANGED dead
    <3>1. rec.retries + 1 <= RetryCount
      BY <2>5, <2>6 DEF MayRetry, Attempts, Errs
    <3>2. retryLog \in Seq(Records)
      BY Basics DEF Inv
    <3>3. /\ retryLog' \in Seq(Records) /\ Len(retryLog') = Len(retryLog) + 1 /\ DOMAIN retryLog' = 1 .. (Len(retryLog) + 1)
          /\ \A j \in 1 .. Len(retryLog) : retryLog'[j] = retryLog[j]
          /\ retryLog'[Len(retryLog) + 1] = rec /\ DOMAIN retryLog = 1 .. Len(retryLog) /\ Len(retryLog) \in Nat
      BY <2>3, <2>6, <3>2, Appended
    <3>4. RetryTries'
      BY <2>1, <2>4, <3>1, <3>3 DEF Inv, TriesInv, RetryTries
    <3>5. QED
      BY <1>0, <1>a, <2>1, <2>2, <2>6, <3>4, TriesKept
  <2>7. CASE /\ ~MayRetry(err, rec.retries) /\ UNCHANGED retryLog
             /\ dead' = dead \cup {[rec |-> rec, conn |-> c, name |-> err.name, attempts |-> err.attempts]}
    <3>1. /\ err.attempts \in Nat
          /\ Retryable(err.name) => tries[<<rec.msg, c>>] > err.attempts \/ tries[<<rec.msg, c>>] > RetryCount
      BY <2>4, <2>5, <2>7 DEF MayRetry, Attempts, Errs
    <3> DEFINE d == [rec |-> rec, conn |-> c, name |-> err.name, attempts |-> err.attempts]
    <3>2. /\ d.rec = rec /\ d.conn = c /\ d.name = err.name /\ d.attempts = err.attempts
          /\ dead' = dead \cup {d}
      BY <2>7
    <3> HIDE DEF d
    <3>3. DeadAfterAllAttempts' /\ DeadTyped'
      BY <1>0, <2>1, <2>5, <3>1, <3>2 DEF Inv, DeadAfterAllAttempts, DeadTyped
    <3>4. QED
      BY <1>0, <1>a, <2>1, <2>2, <2>7, <3>3, TriesKept
  <2>8. CASE UNCHANGED <<retryLog, dead>>
    BY <1>0, <1>a, <2>1, <2>2, <2>8, TriesKept
  <2>9. QED
    BY <2>3, <2>6, <2>7, <2>8
<1>10. ASSUME Restart PROVE AllTries'
  BY <1>0, <1>a, <1>10, RestartStep, TriesKept DEF Inv, SlotTries, Renewed, fates
<1>11. ASSUME Disconnect PROVE AllTries'
  BY <1>0, <1>a, <1>11, DisconnectStep, TriesKept DEF Inv, fates, kafka, work
<1>12. ASSUME Crash PROVE AllTries'
  BY <1>0, <1>a, <1>12, CrashStep, TriesKept DEF Inv, SlotTries, Renewed, fates
<1>13. ASSUME NEW c \in Connections, Reconfigure(c) PROVE AllTries'
  BY <1>0, <1>a, <1>13, ReconfigureStep, TriesKept DEF Inv, fates, kafka, work
<1>14. ASSUME UNCHANGED vars PROVE AllTries'
  BY <1>0, <1>a, <1>14, TriesKept DEF vars, kafka, work
<1>15. QED
  BY <1>1, <1>2, <1>3, <1>4, <1>5, <1>6, <1>7, <1>8, <1>9, <1>10, <1>11, <1>12, <1>13, <1>14 DEF Next, Rotor

-----------------------------------------------------------------------------
(* Who holds an event after a step, told by who held it before.              *)

SameLog(x) == \A p \in Partitions, i \in Nat : LogHolds(p, i, x)' <=> LogHolds(p, i, x)
SameQueue(x) == \A i \in Nat : QueueHolds(i, x)' <=> QueueHolds(i, x)
SameSlots(x) == \A s \in Slots : SlotHolds(s, x)' <=> SlotHolds(s, x)
SameRetries(x) == \A i \in Nat : RetryHolds(i, x)' <=> RetryHolds(i, x)

(* What a step leaves alone has the same holders. *)
LEMMA SameHolders ==
    ASSUME NEW x
    PROVE  /\ UNCHANGED <<log, stored>> => SameLog(x)
           /\ UNCHANGED queue => SameQueue(x)
           /\ UNCHANGED slots => SameSlots(x)
           /\ UNCHANGED retryLog => SameRetries(x)
<1>1. ASSUME UNCHANGED <<log, stored>> PROVE SameLog(x)
  BY <1>1 DEF SameLog, LogHolds, Covers
<1>2. ASSUME UNCHANGED queue PROVE SameQueue(x)
  BY <1>2 DEF SameQueue, QueueHolds, Covers
<1>3. ASSUME UNCHANGED slots PROVE SameSlots(x)
  BY <1>3 DEF SameSlots, SlotHolds, Covers
<1>4. ASSUME UNCHANGED retryLog PROVE SameRetries(x)
  BY <1>4 DEF SameRetries, RetryHolds, Covers
<1>5. QED
  BY <1>1, <1>2, <1>3, <1>4

(* A record that is appended may hold it. *)
LEMMA GrownHolders ==
    ASSUME TypeInv, OffsetInv, NEW x, NEW p \in Partitions, NEW rec \in Records, Grown(p, rec), UNCHANGED stored
    PROVE  LET k == Len(log[p]) + 1 IN
           /\ k \in Nat /\ ~LogHolds(p, k, x)
           /\ \A q \in Partitions, i \in Nat :
                LogHolds(q, i, x)' <=> LogHolds(q, i, x) \/ (q = p /\ i = k /\ Covers(rec, x))
<1>1. /\ \A q \in Partitions : Len(log[q]) \in Nat /\ stored[q] \in Nat /\ stored[q] <= Len(log[q])
  BY Basics DEF OffsetInv
<1>2. Len(log[p]) + 1 \in Nat /\ ~LogHolds(p, Len(log[p]) + 1, x)
  BY <1>1 DEF LogHolds
<1>3. ASSUME NEW q \in Partitions, NEW i \in Nat
      PROVE  LogHolds(q, i, x)' <=> LogHolds(q, i, x) \/ (q = p /\ i = Len(log[p]) + 1 /\ Covers(rec, x))
  <2>1. CASE q # p
    BY <2>1 DEF LogHolds, Grown, Covers
  <2>2. CASE q = p
    <3>1. i \in (stored[p] + 1) .. Len(log'[p]) <=> i \in (stored[p] + 1) .. Len(log[p]) \/ i = Len(log[p]) + 1
      BY <1>1 DEF Grown
    <3>2. i \in (stored[p] + 1) .. Len(log[p]) => log'[p][i] = log[p][i]
      BY <1>1 DEF Grown
    <3>3. i = Len(log[p]) + 1 => log'[p][i] = rec
      BY DEF Grown
    <3>4. ~(i \in (stored[p] + 1) .. Len(log[p]) /\ i = Len(log[p]) + 1)
      BY <1>1
    <3>5. QED
      BY <2>2, <3>1, <3>2, <3>3, <3>4 DEF LogHolds, Covers
  <2>3. QED
    BY <2>1, <2>2
<1>4. QED
  BY <1>2, <1>3

(* One chain of a task changes. *)
LEMMA MovedHolders ==
    ASSUME NEW x, NEW s \in Slots, slots[s] # None, NEW c \in slots[s].rec.conns, NEW chain, Moved(s, c, chain),
           x \in Messages \X Connections
    PROVE  \A t \in Slots :
              SlotHolds(t, x)' <=> IF t = s /\ x = Pair(slots[s].rec, c) THEN chain.pc # "done" ELSE SlotHolds(t, x)
<1>1. x = <<x[1], x[2]>>
  OBVIOUS
<1>2. x = Pair(slots[s].rec, c) <=> slots[s].rec.msg = x[1] /\ x[2] = c
  BY <1>1 DEF Pair
<1>3. ASSUME NEW t \in Slots
      PROVE  SlotHolds(t, x)' <=> IF t = s /\ x = Pair(slots[s].rec, c) THEN chain.pc # "done" ELSE SlotHolds(t, x)
  <2>1. CASE t # s
    BY <2>1 DEF SlotHolds, Covers, Moved
  <2>2. CASE t = s /\ x = Pair(slots[s].rec, c)
    BY <1>2, <2>2 DEF SlotHolds, Covers, Moved
  <2>3. CASE t = s /\ x # Pair(slots[s].rec, c)
    BY <1>2, <2>3 DEF SlotHolds, Covers, Moved
  <2>4. QED
    BY <2>1, <2>2, <2>3
<1>4. QED
  BY <1>3

(* A task starts: it holds what the functions server knows of. *)
LEMMA StartsHolders ==
    ASSUME TypeInv, NEW x, NEW s \in Slots, NEW task \in QueueTasks, Starts(s, task)
    PROVE  \A t \in Slots :
              SlotHolds(t, x)' <=> IF t = s THEN Covers(task.rec, x) /\ config[x[2]] # "missing" ELSE SlotHolds(t, x)
<1>1. /\ Started(task) # None /\ Started(task).rec = task.rec
      /\ \A c \in task.rec.conns : Started(task).chains[c] = Chain(task.rec, c)
  BY StartedFacts DEF TypeInv
<1>2. \A c \in task.rec.conns : Chain(task.rec, c).pc = "done" <=> config[c] = "missing"
  <2>1. task.rec \in Records /\ \A c \in task.rec.conns : c \in Connections
    BY DEF QueueTasks, Records
  <2>2. QED
    BY <2>1, ChainFacts DEF TypeInv
<1>3. slots'[s] = Started(task) /\ \A t \in Slots : t # s => slots'[t] = slots[t]
  BY DEF Starts, Placed
<1>4. QED
  BY <1>1, <1>2, <1>3 DEF SlotHolds, Covers

(* Steps that move no event. *)
SameAll(x) == SameLog(x) /\ SameQueue(x) /\ SameSlots(x) /\ SameRetries(x)

(* The callback, the commit and the shutdown of the consumer, a new process    *)
(* after a shutdown, and a new configuration move no event.                    *)
LEMMA QuietHolders ==
    ASSUME Inv, NEW x,
           \/ (\E p \in Partitions : EachMessage(p)) \/ AutoCommit \/ Disconnect \/ Restart
           \/ (\E c \in Connections : Reconfigure(c)) \/ UNCHANGED vars
    PROVE  SameAll(x) /\ UNCHANGED <<log, clean, retryLog>> /\ (~budget'.crashed => ~budget.crashed)
<1>1. ASSUME NEW p \in Partitions, EachMessage(p) PROVE UNCHANGED <<log, stored, queue, slots, retryLog, clean, budget>>
  BY <1>1, EachMessageStep DEF Inv
<1>2. ASSUME AutoCommit PROVE UNCHANGED <<log, stored, queue, slots, retryLog, clean, budget>>
  BY <1>2, AutoCommitStep DEF Inv, work
<1>3. ASSUME Disconnect PROVE UNCHANGED <<log, stored, queue, slots, retryLog, clean>> /\ (~budget'.crashed => ~budget.crashed)
  BY <1>3, DisconnectStep DEF Inv
<1>4. ASSUME NEW c \in Connections, Reconfigure(c)
      PROVE  UNCHANGED <<log, stored, queue, slots, retryLog, clean>> /\ (~budget'.crashed => ~budget.crashed)
  BY <1>4, ReconfigureStep DEF Inv, kafka, work
<1>5. ASSUME UNCHANGED vars PROVE UNCHANGED <<log, stored, queue, slots, retryLog, clean, budget>>
  BY <1>5 DEF vars, kafka, work, history
<1>6. ASSUME Restart
      PROVE  UNCHANGED <<log, stored, queue, retryLog, clean, budget>> /\ SameSlots(x)
  <2>1. /\ Renewed /\ status = "disconnected" /\ queue = <<>> /\ \A s \in Slots : slots[s] = None
        /\ UNCHANGED <<log, committed, retryLog, clean, budget>>
    BY <1>6, RestartStep DEF Inv
  <2>2. \A p \in Partitions : committed[p] = stored[p]
    BY <2>1 DEF Inv, OffsetInv
  <2>3. committed \in [Partitions -> Nat] /\ stored \in [Partitions -> Nat]
    BY DEF Inv, TypeInv, OffsetType
  <2>4. stored' = stored
    BY <2>1, <2>2, <2>3 DEF Renewed
  <2>5. SameSlots(x)
    BY <2>1 DEF SameSlots, SlotHolds, Renewed
  <2>6. QED
    BY <2>1, <2>4, <2>5 DEF Renewed
<1>7. QED
  BY <1>1, <1>2, <1>3, <1>4, <1>5, <1>6, SameHolders DEF SameAll

(* Ingest: a new event is held by its record. *)
LEMMA ProduceHolders ==
    ASSUME Inv, NEW m \in Messages, Produce(m), NEW x \in Messages \X Connections
    PROVE  /\ SameQueue(x) /\ SameSlots(x) /\ SameRetries(x)
           /\ \E p \in Partitions, k \in Nat :
                \A q \in Partitions, i \in Nat :
                   LogHolds(q, i, x)' <=> LogHolds(q, i, x) \/ (q = p /\ i = k /\ x[1] = m)
<1>1. UNCHANGED <<stored, queue, slots, retryLog>>
  BY ProduceStep DEF Inv, work
<1>2. PICK p \in Partitions, rec \in Records : Grown(p, rec) /\ rec.msg = m /\ rec.conns = Connections
  BY ProduceStep DEF Inv
<1>3. Covers(rec, x) <=> x[1] = m
  BY <1>2 DEF Covers
<1> DEFINE k == Len(log[p]) + 1
<1>4. /\ k \in Nat
      /\ \A q \in Partitions, i \in Nat :
            LogHolds(q, i, x)' <=> LogHolds(q, i, x) \/ (q = p /\ i = k /\ Covers(rec, x))
  BY <1>1, <1>2, GrownHolders DEF Inv
<1> HIDE DEF k
<1>5. \A q \in Partitions, i \in Nat :
         LogHolds(q, i, x)' <=> LogHolds(q, i, x) \/ (q = p /\ i = k /\ x[1] = m)
  BY <1>3, <1>4
<1>6. QED
  BY <1>1, <1>4, <1>5, SameHolders

(* The retry consumer: an event moves from the retry topic to a new record. *)
LEMMA RedeliverHolders ==
    ASSUME Inv, Redeliver, NEW x \in Messages \X Connections
    PROVE  /\ SameQueue(x) /\ SameSlots(x)
           /\ \E p \in Partitions, k \in Nat, r \in Nat :
                /\ ~LogHolds(p, k, x)
                /\ \A q \in Partitions, i \in Nat :
                     LogHolds(q, i, x)' <=> LogHolds(q, i, x) \/ (q = p /\ i = k /\ RetryHolds(r, x))
                /\ \A i \in Nat : RetryHolds(i, x)' <=> IF i < r THEN RetryHolds(i, x) ELSE RetryHolds(i + 1, x)
<1>1. UNCHANGED <<stored, queue, slots>>
  BY RedeliverStep DEF Inv, work
<1>2. PICK r \in 1 .. Len(retryLog), p \in Partitions, rec \in Records :
         /\ Grown(p, rec) /\ rec.msg = retryLog[r].msg /\ rec.conns = retryLog[r].conns
         /\ Len(retryLog') = Len(retryLog) - 1
         /\ \A j \in 1 .. Len(retryLog') : retryLog'[j] = IF j < r THEN retryLog[j] ELSE retryLog[j + 1]
  BY RedeliverStep DEF Inv
<1>3. TypeInv'
  BY RedeliverStep DEF Inv
<1>4. /\ Len(retryLog) \in Nat /\ DOMAIN retryLog = 1 .. Len(retryLog) /\ Len(retryLog') \in Nat
      /\ DOMAIN retryLog' = 1 .. Len(retryLog')
  BY <1>3, Basics DEF Inv, TypeInv, LogType
<1>5. r \in Nat /\ (Covers(rec, x) <=> RetryHolds(r, x))
  BY <1>2, <1>4 DEF Covers, RetryHolds
<1> DEFINE k == Len(log[p]) + 1
<1>6. /\ k \in Nat /\ ~LogHolds(p, k, x)
      /\ \A q \in Partitions, i \in Nat :
            LogHolds(q, i, x)' <=> LogHolds(q, i, x) \/ (q = p /\ i = k /\ Covers(rec, x))
  BY <1>1, <1>2, GrownHolders DEF Inv
<1> HIDE DEF k
<1>7. ASSUME NEW i \in Nat
      PROVE  RetryHolds(i, x)' <=> IF i < r THEN RetryHolds(i, x) ELSE RetryHolds(i + 1, x)
  <2> DEFINE n == Len(retryLog)
             j == IF i < r THEN i ELSE i + 1
  <2>1. n \in Nat /\ r \in 1 .. n /\ Len(retryLog') = n - 1
    BY <1>2, <1>4
  <2> HIDE DEF n
  <2>2. i \in 1 .. (n - 1) <=> i # 0 /\ j \in 1 .. n
    BY <2>1
  <2>3. i = 0 => j = 0
    BY <2>1
  <2>4. i \in 1 .. (n - 1) => retryLog'[i] = retryLog[j]
    BY <1>2, <2>1
  <2> HIDE DEF j
  <2>5. RetryHolds(i, x)' <=> i \in 1 .. (n - 1) /\ Covers(retryLog'[i], x)
    BY <1>4, <2>1 DEF RetryHolds, Covers
  <2>6. RetryHolds(j, x) <=> j \in 1 .. n /\ Covers(retryLog[j], x)
    BY <1>4 DEF RetryHolds, n
  <2>7. RetryHolds(i, x)' <=> RetryHolds(j, x)
    <3>1. j = 0 => ~(j \in 1 .. n)
      BY <2>1
    <3>2. QED
      BY <2>2, <2>3, <2>4, <2>5, <2>6, <3>1
  <2>8. QED
    BY <2>7 DEF j
<1>8. \A q \in Partitions, i \in Nat :
         LogHolds(q, i, x)' <=> LogHolds(q, i, x) \/ (q = p /\ i = k /\ RetryHolds(r, x))
  BY <1>5, <1>6
<1>9. QED
  BY <1>1, <1>5, <1>6, <1>7, <1>8, SameHolders

(* queue.add(): an event moves from its record to a task, is dropped, or lost by an exception. *)
LEMMA AddHolders ==
    ASSUME Inv, NEW p \in Partitions, Add(p), NEW x \in Messages \X Connections
    PROVE  \E k \in Nat :
           /\ SameRetries(x)
           /\ \A q \in Partitions, i \in Nat : LogHolds(q, i, x)' <=> LogHolds(q, i, x) /\ ~(q = p /\ i = k)
           /\ \/ \E s \in Slots :
                   /\ SameQueue(x) /\ ~SlotHolds(s, x)
                   /\ \A t \in Slots :
                        SlotHolds(t, x)' <=> IF t = s THEN LogHolds(p, k, x) /\ config[x[2]] # "missing" ELSE SlotHolds(t, x)
                   /\ LogHolds(p, k, x) /\ config[x[2]] = "missing" => x \in dropped'
              \/ \E n \in Nat :
                   /\ SameSlots(x) /\ ~QueueHolds(n, x)
                   /\ \A i \in Nat : QueueHolds(i, x)' <=> QueueHolds(i, x) \/ (i = n /\ LogHolds(p, k, x))
              \/ SameQueue(x) /\ SameSlots(x) /\ (LogHolds(p, k, x) => x \in lost')
<1> DEFINE k == stored[p] + 1
           task == Task(p, k)
<1>1. /\ k \in 1 .. Len(log[p]) /\ task \in QueueTasks /\ stored'[p] = k
      /\ \A q \in Partitions : q # p => stored'[q] = stored[q]
      /\ \/ \E s \in Slots : slots[s] = None /\ Starts(s, task) /\ UNCHANGED queue
         \/ queue' = Append(queue, task) /\ UNCHANGED slots
         \/ Throws(task) /\ UNCHANGED queue
      /\ UNCHANGED <<log, retryLog>>
  BY AddStep DEF Inv
<1>2. task.rec = log[p][k]
  BY <1>1, TaskFacts DEF Inv
<1>3. stored[p] \in Nat /\ Len(log[p]) \in Nat /\ k \in Nat
  BY Basics DEF Inv
<1>4. LogHolds(p, k, x) <=> Covers(task.rec, x)
  BY <1>1, <1>2, <1>3 DEF LogHolds
<1>5. ASSUME NEW q \in Partitions, NEW i \in Nat
      PROVE  LogHolds(q, i, x)' <=> LogHolds(q, i, x) /\ ~(q = p /\ i = k)
  <2>1. CASE q # p
    BY <1>1, <2>1 DEF LogHolds, Covers
  <2>2. CASE q = p
    <3>1. i \in (k + 1) .. Len(log[p]) <=> i \in (stored[p] + 1) .. Len(log[p]) /\ i # k
      BY <1>3
    <3>2. QED
      BY <1>1, <2>2, <3>1 DEF LogHolds, Covers
  <2>3. QED
    BY <2>1, <2>2
<1>6. SameRetries(x)
  BY <1>1, SameHolders
<1> HIDE DEF k, task
<1>7. ASSUME NEW s \in Slots, slots[s] = None, Starts(s, task), UNCHANGED queue
      PROVE  /\ SameQueue(x) /\ ~SlotHolds(s, x)
             /\ \A t \in Slots :
                  SlotHolds(t, x)' <=> IF t = s THEN LogHolds(p, k, x) /\ config[x[2]] # "missing" ELSE SlotHolds(t, x)
             /\ LogHolds(p, k, x) /\ config[x[2]] = "missing" => x \in dropped'
  <2>1. SameQueue(x) /\ ~SlotHolds(s, x)
    BY <1>7, SameHolders DEF SlotHolds
  <2>2. \A t \in Slots :
           SlotHolds(t, x)' <=> IF t = s THEN Covers(task.rec, x) /\ config[x[2]] # "missing" ELSE SlotHolds(t, x)
    BY <1>1, <1>7, StartsHolders DEF Inv
  <2>3. Covers(task.rec, x) /\ config[x[2]] = "missing" => x \in dropped'
    <3>1. \A c \in task.rec.conns : config[c] = "missing" => Pair(task.rec, c) \in dropped'
      BY <1>1, <1>7, BeginFacts DEF Starts, Inv, TypeInv
    <3>2. Covers(task.rec, x) => x = Pair(task.rec, x[2]) /\ x[2] \in task.rec.conns
      BY DEF Covers, Pair
    <3>3. QED
      BY <3>1, <3>2
  <2>4. QED
    BY <1>4, <2>1, <2>2, <2>3
<1>8. ASSUME queue' = Append(queue, task), UNCHANGED slots
      PROVE  \E n \in Nat :
                /\ SameSlots(x) /\ ~QueueHolds(n, x)
                /\ \A i \in Nat : QueueHolds(i, x)' <=> QueueHolds(i, x) \/ (i = n /\ LogHolds(p, k, x))
  <2>1. queue \in Seq(QueueTasks) /\ Len(queue) \in Nat /\ DOMAIN queue = 1 .. Len(queue)
    BY Basics DEF Inv
  <2>2. /\ DOMAIN queue' = 1 .. (Len(queue) + 1)
        /\ \A j \in 1 .. Len(queue) : queue'[j] = queue[j]
        /\ queue'[Len(queue) + 1] = task
    BY <1>1, <1>8, <2>1, Appended
  <2> DEFINE n == Len(queue) + 1
  <2>3. n \in Nat /\ ~QueueHolds(n, x)
    BY <2>1 DEF QueueHolds
  <2>4. \A i \in Nat : QueueHolds(i, x)' <=> QueueHolds(i, x) \/ (i = n /\ Covers(task.rec, x))
    BY <2>1, <2>2 DEF QueueHolds, Covers
  <2> HIDE DEF n
  <2>5. QED
    BY <1>4, <1>8, <2>3, <2>4, SameHolders
<1>9. ASSUME Throws(task), UNCHANGED queue
      PROVE  SameQueue(x) /\ SameSlots(x) /\ (LogHolds(p, k, x) => x \in lost')
  <2>1. UNCHANGED slots /\ \A c \in task.rec.conns : Pair(task.rec, c) \in lost'
    BY <1>1, <1>9, ThrowsFacts DEF Inv, TypeInv
  <2>2. Covers(task.rec, x) => x = Pair(task.rec, x[2]) /\ x[2] \in task.rec.conns
    BY DEF Covers, Pair
  <2>3. QED
    BY <1>4, <1>9, <2>1, <2>2, SameHolders
<1>10. QED
  BY <1>1, <1>3, <1>5, <1>6, <1>7, <1>8, <1>9

(* The next task of the queue starts where one is over. *)
LEMMA FinishHolders ==
    ASSUME Inv, NEW s \in Slots, Finish(s), NEW x \in Messages \X Connections
    PROVE  /\ SameLog(x) /\ SameRetries(x) /\ ~SlotHolds(s, x)
           /\ \/ SameQueue(x) /\ SameSlots(x)
              \/ /\ ~QueueHolds(0, x)
                 /\ \A i \in Nat : QueueHolds(i, x)' <=> i # 0 /\ QueueHolds(i + 1, x)
                 /\ \A t \in Slots : SlotHolds(t, x)' => IF t = s THEN QueueHolds(1, x) ELSE SlotHolds(t, x)
                 /\ \A t \in Slots : t # s /\ SlotHolds(t, x) => SlotHolds(t, x)'
                 /\ QueueHolds(1, x) => SlotHolds(s, x)' \/ x \in dropped' \cup lost'
<1>1. /\ slots[s] # None /\ \A c \in slots[s].rec.conns : slots[s].chains[c].pc = "done"
      /\ \/ queue = <<>> /\ queue' = <<>> /\ Placed(s, None)
         \/ queue # <<>> /\ queue' = Tail(queue) /\ (Starts(s, Head(queue)) \/ Throws(Head(queue)))
      /\ UNCHANGED <<log, stored, retryLog>>
  BY FinishStep DEF Inv, kafka
<1>2. SameLog(x) /\ SameRetries(x) /\ ~SlotHolds(s, x)
  BY <1>1, SameHolders DEF SlotHolds, Covers
<1>3. CASE queue = <<>> /\ queue' = <<>> /\ Placed(s, None)
  <2>1. SameQueue(x)
    BY <1>3, SameHolders
  <2>2. SameSlots(x)
    BY <1>2, <1>3 DEF SameSlots, SlotHolds, Placed, Covers
  <2>3. QED
    BY <1>2, <2>1, <2>2
<1>4. CASE queue # <<>> /\ queue' = Tail(queue) /\ (Starts(s, Head(queue)) \/ Throws(Head(queue)))
  <2> DEFINE task == Head(queue)
             n == Len(queue)
  <2>1. queue \in Seq(QueueTasks) /\ n \in Nat /\ DOMAIN queue = 1 .. n /\ n # 0
    BY <1>4, Basics, EmptySeq DEF Inv
  <2>2. /\ task \in QueueTasks /\ task = queue[1] /\ DOMAIN queue' = 1 .. (n - 1)
        /\ \A j \in 1 .. (n - 1) : queue'[j] = queue[j + 1]
    BY <1>4, <2>1, Tailed
  <2> HIDE DEF task, n
  <2>3. ~QueueHolds(0, x) /\ (QueueHolds(1, x) <=> Covers(task.rec, x))
    BY <2>1, <2>2 DEF QueueHolds
  <2>4. \A i \in Nat : QueueHolds(i, x)' <=> i # 0 /\ QueueHolds(i + 1, x)
    <3>1. \A i \in Nat : i \in 1 .. (n - 1) <=> i # 0 /\ i + 1 \in 1 .. n
      BY <2>1
    <3>2. QED
      BY <2>1, <2>2, <3>1 DEF QueueHolds, Covers
  <2>5. CASE Starts(s, task)
    <3>1. \A t \in Slots :
             SlotHolds(t, x)' <=> IF t = s THEN Covers(task.rec, x) /\ config[x[2]] # "missing" ELSE SlotHolds(t, x)
      BY <2>2, <2>5, StartsHolders DEF Inv
    <3>2. Covers(task.rec, x) /\ config[x[2]] = "missing" => x \in dropped'
      <4>1. \A c \in task.rec.conns : config[c] = "missing" => Pair(task.rec, c) \in dropped'
        BY <2>2, <2>5, BeginFacts DEF Starts, Inv, TypeInv
      <4>2. Covers(task.rec, x) => x = Pair(task.rec, x[2]) /\ x[2] \in task.rec.conns
        BY DEF Covers, Pair
      <4>3. QED
        BY <4>1, <4>2
    <3>3. QED
      BY <1>2, <2>3, <2>4, <3>1, <3>2
  <2>6. CASE Throws(task)
    <3>1. UNCHANGED slots /\ \A c \in task.rec.conns : Pair(task.rec, c) \in lost'
      BY <2>2, <2>6, ThrowsFacts DEF Inv, TypeInv
    <3>2. Covers(task.rec, x) => x = Pair(task.rec, x[2]) /\ x[2] \in task.rec.conns
      BY DEF Covers, Pair
    <3>3. SameSlots(x)
      BY <3>1, SameHolders
    <3>4. QED
      BY <1>2, <2>3, <2>4, <3>1, <3>2, <3>3 DEF SameSlots
  <2>7. QED
    BY <1>4, <2>5, <2>6 DEF task
<1>5. QED
  BY <1>1, <1>3, <1>4

(* A chain that runs on keeps its event. *)
LEMMA ExecHolders ==
    ASSUME Inv, NEW s \in Slots, NEW c \in Connections, Exec(s, c), NEW x \in Messages \X Connections
    PROVE  SameAll(x) /\ UNCHANGED <<log, clean, retryLog>> /\ budget'.crashed = budget.crashed
<1>1. /\ slots[s] # None /\ c \in slots[s].rec.conns /\ slots[s].chains[c].pc = "run"
      /\ UNCHANGED <<log, stored, retryLog, queue, clean>> /\ budget'.crashed = budget.crashed
  BY ExecStep DEF Inv, kafka
<1>2. PICK chain \in Chains : Moved(s, c, chain) /\ chain.pc \in {"run", "check"}
  BY ExecStep DEF Inv
<1>3. \A t \in Slots :
         SlotHolds(t, x)' <=> IF t = s /\ x = Pair(slots[s].rec, c) THEN chain.pc # "done" ELSE SlotHolds(t, x)
  BY <1>1, <1>2, MovedHolders
<1>4. x = Pair(slots[s].rec, c) => SlotHolds(s, x)
  BY <1>1 DEF SlotHolds, Covers, Pair
<1>5. SameSlots(x)
  BY <1>2, <1>3, <1>4 DEF SameSlots
<1>6. QED
  BY <1>1, <1>5, SameHolders DEF SameAll

(* checkError(): a chain without an error lets go of its event, which is settled. *)
LEMMA CheckErrorHolders ==
    ASSUME Inv, NEW s \in Slots, NEW c \in Connections, CheckError(s, c), NEW x \in Messages \X Connections
    PROVE  /\ SameLog(x) /\ SameQueue(x) /\ SameRetries(x) /\ UNCHANGED <<log, retryLog, budget>>
           /\ \/ SameSlots(x) /\ UNCHANGED clean
              \/ \E y \in Messages \X Connections :
                   /\ clean' = clean \cup {y} /\ SlotHolds(s, y) /\ Settled(y)
                   /\ \A t \in Slots : SlotHolds(t, x)' <=> SlotHolds(t, x) /\ ~(t = s /\ x = y)
<1> DEFINE y == Pair(slots[s].rec, c)
<1>1. /\ slots[s] # None /\ c \in slots[s].rec.conns /\ slots[s].chains[c].pc = "check"
      /\ UNCHANGED <<log, stored, retryLog, queue, budget>>
  BY CheckErrorStep DEF Inv, kafka
<1>2. PICK chain \in Chains :
         /\ Moved(s, c, chain)
         /\ \/ chain.pc = "done" /\ slots[s].chains[c].errors = <<>> /\ clean' = clean \cup {y}
            \/ chain.pc = "failed" /\ UNCHANGED clean
  BY CheckErrorStep DEF Inv
<1>3. \A t \in Slots :
         SlotHolds(t, x)' <=> IF t = s /\ x = y THEN chain.pc # "done" ELSE SlotHolds(t, x)
  BY <1>1, <1>2, MovedHolders
<1>4. SlotHolds(s, y) /\ y \in Messages \X Connections
  <2>1. y \in Messages \X Connections
    BY <1>1, Basics DEF Inv
  <2>2. QED
    BY <1>1, <2>1 DEF SlotHolds, Covers, Pair
<1>5. SameLog(x) /\ SameQueue(x) /\ SameRetries(x)
  BY <1>1, SameHolders
<1>6. slots[s].chains[c].errors = <<>> => Settled(y)
  BY <1>1 DEF Inv, ChainInv
<1> HIDE DEF y
<1>7. CASE chain.pc = "done" /\ slots[s].chains[c].errors = <<>> /\ clean' = clean \cup {y}
  BY <1>1, <1>3, <1>4, <1>5, <1>6, <1>7
<1>8. CASE chain.pc = "failed" /\ UNCHANGED clean
  <2>1. SameSlots(x)
    BY <1>3, <1>4, <1>8 DEF SameSlots
  <2>2. QED
    BY <1>1, <1>5, <1>8, <2>1
<1>9. QED
  BY <1>2, <1>7, <1>8

(* The catch block: an event moves from its chain to the retry topic, or is settled. *)
LEMMA RequeueHolders ==
    ASSUME Inv, NEW s \in Slots, NEW c \in Connections, Requeue(s, c), NEW x \in Messages \X Connections
    PROVE  \E y \in Messages \X Connections :
           /\ SameLog(x) /\ SameQueue(x) /\ SlotHolds(s, y)
           /\ \A t \in Slots : SlotHolds(t, x)' <=> SlotHolds(t, x) /\ ~(t = s /\ x = y)
           /\ \/ SameRetries(x) /\ Settled(y)'
              \/ \E n \in Nat :
                   /\ ~RetryHolds(n, x)
                   /\ \A i \in Nat : RetryHolds(i, x)' <=> RetryHolds(i, x) \/ (i = n /\ x = y)
<1>1. /\ slots[s] # None /\ c \in slots[s].rec.conns /\ slots[s].chains[c].pc = "failed"
      /\ UNCHANGED <<log, stored, queue>>
  BY RequeueStep DEF Inv
<1>2. PICK chain \in Chains : Moved(s, c, chain) /\ chain.pc = "done"
  BY RequeueStep DEF Inv
<1>3. PICK rec \in Records, err \in Errs :
         /\ rec.msg = slots[s].rec.msg /\ rec.conns = {c}
         /\ \/ retryLog' = Append(retryLog, rec)
            \/ dead' = dead \cup {[rec |-> rec, conn |-> c, name |-> err.name, attempts |-> err.attempts]} /\ UNCHANGED retryLog
            \/ lost' = lost \cup {Pair(slots[s].rec, c)} /\ UNCHANGED retryLog
  BY RequeueStep DEF Inv
<1>4. PICK y \in Messages \X Connections : y = Pair(slots[s].rec, c)
  BY <1>1, Basics DEF Inv
<1>5. y[1] = rec.msg /\ y[2] = c /\ x = <<x[1], x[2]>> /\ y = <<y[1], y[2]>>
  BY <1>3, <1>4 DEF Pair
<1>6. SlotHolds(s, y)
  BY <1>1, <1>3, <1>5 DEF SlotHolds, Covers
<1>7. \A t \in Slots : SlotHolds(t, x)' <=> SlotHolds(t, x) /\ ~(t = s /\ x = y)
  BY <1>1, <1>2, <1>4, MovedHolders
<1>8. SameLog(x) /\ SameQueue(x)
  BY <1>1, SameHolders
<1>9. CASE retryLog' = Append(retryLog, rec)
  <2>1. retryLog \in Seq(Records) /\ Len(retryLog) \in Nat /\ DOMAIN retryLog = 1 .. Len(retryLog)
    BY Basics DEF Inv
  <2>2. /\ DOMAIN retryLog' = 1 .. (Len(retryLog) + 1)
        /\ \A j \in 1 .. Len(retryLog) : retryLog'[j] = retryLog[j]
        /\ retryLog'[Len(retryLog) + 1] = rec
    BY <1>3, <1>9, <2>1, Appended
  <2> DEFINE n == Len(retryLog) + 1
  <2>3. n \in Nat /\ ~RetryHolds(n, x)
    BY <2>1 DEF RetryHolds
  <2>4. Covers(rec, x) <=> x = y
    BY <1>3, <1>5 DEF Covers
  <2>5. \A i \in Nat : RetryHolds(i, x)' <=> RetryHolds(i, x) \/ (i = n /\ Covers(rec, x))
    BY <2>1, <2>2 DEF RetryHolds, Covers
  <2> HIDE DEF n
  <2>6. \E m \in Nat : /\ ~RetryHolds(m, x)
                       /\ \A i \in Nat : RetryHolds(i, x)' <=> RetryHolds(i, x) \/ (i = m /\ x = y)
    BY <2>3, <2>4, <2>5
  <2>7. QED
    BY <1>6, <1>7, <1>8, <2>6
<1>10. CASE dead' = dead \cup {[rec |-> rec, conn |-> c, name |-> err.name, attempts |-> err.attempts]} /\ UNCHANGED retryLog
  <2>1. Settled(y)'
    <3> DEFINE d == [rec |-> rec, conn |-> c, name |-> err.name, attempts |-> err.attempts]
    <3>1. d.rec.msg = y[1] /\ d.conn = y[2] /\ d \in dead'
      BY <1>5, <1>10
    <3> HIDE DEF d
    <3>2. QED
      BY <3>1 DEF Settled, Dead
  <2>2. QED
    BY <1>6, <1>7, <1>8, <1>10, <2>1, SameHolders
<1>11. CASE lost' = lost \cup {Pair(slots[s].rec, c)} /\ UNCHANGED retryLog
  <2>1. Settled(y)'
    BY <1>4, <1>11 DEF Settled
  <2>2. QED
    BY <1>6, <1>7, <1>8, <1>11, <2>1, SameHolders
<1>12. QED
  BY <1>3, <1>9, <1>10, <1>11

(* A crash: what was not committed is read again, the rest is lost. *)
LEMMA CrashHolders ==
    ASSUME Inv, Crash, NEW x \in Messages \X Connections, Held(x)
    PROVE  Held(x)' \/ x \in lost'
<1>1. /\ Renewed /\ UNCHANGED <<log, committed, retryLog>>
      /\ lost' = lost \cup UNION {{Pair(t.rec, c) : c \in t.rec.conns} : t \in Orphans}
  BY CrashStep DEF Inv
<1>2. \A p \in Partitions : /\ committed[p] \in Nat /\ stored[p] \in Nat /\ committed[p] <= stored[p]
                            /\ Len(log[p]) \in Nat /\ stored'[p] = committed[p]
  BY <1>1, Basics DEF Inv, OffsetInv, Renewed
<1>3. ASSUME NEW p \in Partitions, NEW i \in Nat, LogHolds(p, i, x)
      PROVE  LogHolds(p, i, x)'
  <2>1. i \in (committed[p] + 1) .. Len(log[p])
    BY <1>2, <1>3 DEF LogHolds
  <2>2. QED
    BY <1>1, <1>2, <1>3, <2>1 DEF LogHolds, Covers
<1>4. ASSUME NEW at \in Partitions \X Nat, NEW rec, InLog(log, at, rec), Covers(rec, x),
             at[2] <= committed[at[1]] => [at |-> at, rec |-> rec] \in Orphans
      PROVE  Held(x)' \/ x \in lost'
  <2>1. at[1] \in Partitions /\ at[2] \in Nat
    OBVIOUS
  <2>2. CASE at[2] <= committed[at[1]]
    <3> DEFINE t == [at |-> at, rec |-> rec]
    <3>1. t \in Orphans /\ t.rec = rec
      BY <1>4, <2>2
    <3>2. x = Pair(rec, x[2]) /\ x[2] \in rec.conns
      BY <1>4 DEF Covers, Pair
    <3>3. QED
      BY <1>1, <3>1, <3>2
  <2>3. CASE ~(at[2] <= committed[at[1]])
    <3>1. at[2] \in (committed[at[1]] + 1) .. Len(log[at[1]])
      BY <1>2, <1>4, <2>1, <2>3 DEF InLog
    <3>2. LogHolds(at[1], at[2], x)'
      BY <1>1, <1>2, <1>4, <2>1, <3>1 DEF LogHolds, Covers, InLog
    <3>3. QED
      BY <2>1, <3>2 DEF Held
  <2>4. QED
    BY <2>2, <2>3
<1>5. ASSUME NEW i \in Nat, QueueHolds(i, x)
      PROVE  Held(x)' \/ x \in lost'
  <2>1. i \in DOMAIN queue /\ Covers(queue[i].rec, x) /\ queue[i] \in QueueTasks /\ queue[i].at \in Partitions \X Nat
    BY <1>5, Basics DEF QueueHolds, Inv
  <2>2. InLog(log, queue[i].at, queue[i].rec)
    BY <2>1 DEF Inv, TaskInv
  <2>3. queue[i] = [at |-> queue[i].at, rec |-> queue[i].rec]
    BY <2>1 DEF QueueTasks
  <2>4. queue[i].at[2] <= committed[queue[i].at[1]] => [at |-> queue[i].at, rec |-> queue[i].rec] \in Orphans
    BY <2>1, <2>3 DEF Orphans
  <2>5. QED
    BY <1>4, <2>1, <2>2, <2>4
<1>6. ASSUME NEW s \in Slots, SlotHolds(s, x)
      PROVE  Held(x)' \/ x \in lost'
  <2>1. slots[s] # None /\ Covers(slots[s].rec, x) /\ slots[s].at \in Partitions \X Nat
    BY <1>6, Basics DEF SlotHolds, Inv
  <2>2. InLog(log, slots[s].at, slots[s].rec)
    BY <2>1 DEF Inv, TaskInv
  <2>3. slots[s].at[2] <= committed[slots[s].at[1]] => [at |-> slots[s].at, rec |-> slots[s].rec] \in Orphans
    BY <2>1 DEF Orphans
  <2>4. QED
    BY <1>4, <2>1, <2>2, <2>3
<1>7. SameRetries(x)
  BY <1>1, SameHolders
<1>8. QED
  BY <1>3, <1>5, <1>6, <1>7 DEF Held, SameRetries

-----------------------------------------------------------------------------
(* No event disappears, and each has one holder.                             *)

(* Produced events. *)
LEMMA ProducedFacts ==
    ASSUME TypeInv, TypeInv'
    PROVE  /\ Produced \subseteq Messages
           /\ UNCHANGED log => Produced' = Produced
           /\ \A p \in Partitions, rec \in Records : Grown(p, rec) => Produced' = Produced \cup {rec.msg}
           /\ \A at \in Partitions \X Nat : \A rec : InLog(log, at, rec) => rec.msg \in Produced
<1>1. \A p \in Partitions : DOMAIN log[p] = 1 .. Len(log[p]) /\ Len(log[p]) \in Nat
  BY Basics
<1>2. \A p \in Partitions : DOMAIN log'[p] = 1 .. Len(log'[p]) /\ Len(log'[p]) \in Nat
  BY DEF TypeInv, LogType
<1>3. Produced \subseteq Messages
  <2>1. \A p \in Partitions : \A i \in 1 .. Len(log[p]) : log[p][i].msg \in Messages
    BY Basics DEF Records
  <2>2. QED
    BY <1>1, <2>1, ProducedIff
<1>4. UNCHANGED log => Produced' = Produced
  BY DEF Produced
<1>5. \A at \in Partitions \X Nat : \A rec : InLog(log, at, rec) => rec.msg \in Produced
  BY <1>1, ProducedIff DEF InLog
<1>6. ASSUME NEW p \in Partitions, NEW rec \in Records, Grown(p, rec)
      PROVE  Produced' = Produced \cup {rec.msg}
  <2>1. \A m : m \in Produced' <=> \E q \in Partitions : \E i \in 1 .. Len(log'[q]) : log'[q][i].msg = m
    BY <1>2 DEF Produced
  <2>2. \A m : m \in Produced <=> \E q \in Partitions : \E i \in 1 .. Len(log[q]) : log[q][i].msg = m
    BY <1>1, ProducedIff
  <2>3. ASSUME NEW q \in Partitions, NEW i \in 1 .. Len(log'[q])
        PROVE  log'[q][i].msg = rec.msg \/ \E j \in 1 .. Len(log[q]) : log'[q][i].msg = log[q][j].msg
    <3>1. CASE q # p
      BY <1>6, <3>1 DEF Grown
    <3>2. CASE q = p /\ i = Len(log[p]) + 1
      BY <1>6, <3>2 DEF Grown
    <3>3. CASE q = p /\ i # Len(log[p]) + 1
      BY <1>1, <1>6, <3>3 DEF Grown
    <3>4. QED
      BY <3>1, <3>2, <3>3
  <2>4. ASSUME NEW q \in Partitions, NEW i \in 1 .. Len(log[q])
        PROVE  i \in 1 .. Len(log'[q]) /\ log'[q][i].msg = log[q][i].msg
    BY <1>1, <1>6 DEF Grown
  <2>5. Len(log[p]) + 1 \in 1 .. Len(log'[p]) /\ log'[p][Len(log[p]) + 1].msg = rec.msg
    BY <1>1, <1>6 DEF Grown
  <2>6. \A m : m \in Produced' <=> m \in Produced \/ m = rec.msg
    <3>1. ASSUME NEW m, m \in Produced' PROVE m \in Produced \/ m = rec.msg
      <4>1. PICK q \in Partitions : \E i \in 1 .. Len(log'[q]) : log'[q][i].msg = m
        BY <2>1, <3>1
      <4>2. PICK i \in 1 .. Len(log'[q]) : log'[q][i].msg = m
        BY <4>1
      <4>3. m = rec.msg \/ \E j \in 1 .. Len(log[q]) : m = log[q][j].msg
        BY <2>3, <4>2
      <4>4. QED
        BY <2>2, <4>3
    <3>2. ASSUME NEW m \in Produced PROVE m \in Produced'
      <4>1. PICK q \in Partitions : \E i \in 1 .. Len(log[q]) : log[q][i].msg = m
        BY <2>2
      <4>2. PICK i \in 1 .. Len(log[q]) : log[q][i].msg = m
        BY <4>1
      <4>3. i \in 1 .. Len(log'[q]) /\ log'[q][i].msg = m
        BY <2>4, <4>2
      <4>4. QED
        BY <2>1, <4>3
    <3>3. rec.msg \in Produced'
      BY <2>1, <2>5
    <3>4. QED
      BY <3>1, <3>2, <3>3
  <2>7. QED
    BY <2>6
<1>7. QED
  BY <1>3, <1>4, <1>5, <1>6

(* Every step: what it produces. *)
LEMMA ProducedStep ==
    ASSUME Inv, [Next]_vars
    PROVE  \/ Produced' = Produced
           \/ \E m \in Messages : Produce(m) /\ Produced' = Produced \cup {m}
<1>0. TypeInv /\ TypeInv'
  BY TypeStep DEF Inv
<1>1. ASSUME NEW m \in Messages, Produce(m)
      PROVE  Produced' = Produced \cup {m}
  BY <1>0, <1>1, ProduceStep, ProducedFacts
<1>2. ASSUME Redeliver PROVE Produced' = Produced
  <2>1. PICK i \in 1 .. Len(retryLog), p \in Partitions, rec \in Records : Grown(p, rec) /\ rec.msg = retryLog[i].msg
    BY <1>2, RedeliverStep DEF Inv
  <2>2. retryLog[i].msg \in Produced
    BY <1>0, <2>1, Basics DEF Inv, SingleInv
  <2>3. Produced' = Produced \cup {rec.msg}
    BY <1>0, <2>1, ProducedFacts
  <2>4. QED
    BY <2>1, <2>2, <2>3
<1>3. ASSUME [Next]_vars, ~Redeliver, \A m \in Messages : ~Produce(m)
      PROVE  UNCHANGED log
  <2>1. ASSUME NEW p \in Partitions, Add(p) PROVE UNCHANGED log
    BY <2>1 DEF Add
  <2>2. ASSUME NEW s \in Slots, Finish(s) PROVE UNCHANGED log
    BY <2>2 DEF Finish, kafka
  <2>3. ASSUME NEW s \in Slots, NEW c \in Connections, Exec(s, c) \/ CheckError(s, c) \/ Requeue(s, c) PROVE UNCHANGED log
    BY <2>3 DEF Exec, CheckError, Requeue, kafka
  <2>4. ASSUME NEW p \in Partitions, EachMessage(p) PROVE UNCHANGED log
    BY <2>4 DEF EachMessage
  <2>5. ASSUME AutoCommit \/ Restart \/ Disconnect \/ Crash \/ UNCHANGED vars PROVE UNCHANGED log
    BY <2>5 DEF AutoCommit, Restart, Disconnect, Crash, vars, kafka
  <2>6. ASSUME NEW c \in Connections, Reconfigure(c) PROVE UNCHANGED log
    BY <2>6 DEF Reconfigure, kafka
  <2>7. QED
    BY <1>3, <2>1, <2>2, <2>3, <2>4, <2>5, <2>6 DEF Next, Rotor
<1>4. QED
  BY <1>0, <1>1, <1>2, <1>3, ProducedFacts

(* What is settled stays settled. *)
LEMMA SettledStays ==
    ASSUME FatesGrow, NEW x, Settled(x)
    PROVE  Settled(x)'
BY DEF FatesGrow, Settled, Delivered, Dead

(* No event disappears. *)
LEMMA KeptStep ==
    ASSUME Inv, [Next]_vars
    PROVE  KeptInv'
<1>0. FatesGrow /\ TypeInv /\ TypeInv' /\ Produced \subseteq Messages
  BY FatesStep, TypeStep, ProducedFacts DEF Inv
<1> SUFFICES ASSUME NEW x \in Messages \X Connections, x[1] \in Produced'
             PROVE  Held(x)' \/ Settled(x)'
  BY <1>0, ProducedStep DEF KeptInv
<1>a. x[1] \in Produced => Held(x) \/ Settled(x)
  BY DEF Inv, KeptInv
<1>b. x[1] \in Produced => Held(x) \/ Settled(x)'
  BY <1>0, <1>a, SettledStays
<1>c. x[1] \in Produced \/ Produce(x[1])
  BY ProducedStep
<1>1. ASSUME NEW m \in Messages, Produce(m) PROVE Held(x)' \/ Settled(x)'
  <2>1. SameQueue(x) /\ SameSlots(x) /\ SameRetries(x)
    BY <1>1, ProduceHolders
  <2>2. PICK p \in Partitions, k \in Nat :
           \A q \in Partitions, i \in Nat :
              LogHolds(q, i, x)' <=> LogHolds(q, i, x) \/ (q = p /\ i = k /\ x[1] = m)
    BY <1>1, ProduceHolders
  <2>3. x[1] \in Produced \/ x[1] = m
    BY <1>0, <1>1, ProduceStep, ProducedFacts
  <2>4. QED
    BY <1>b, <2>1, <2>2, <2>3 DEF Held, SameQueue, SameSlots, SameRetries
<1>2. ASSUME x[1] \in Produced, Redeliver PROVE Held(x)' \/ Settled(x)'
  <2>1. SameQueue(x) /\ SameSlots(x)
    BY <1>2, RedeliverHolders
  <2>2. PICK p \in Partitions, k \in Nat, r \in Nat :
           /\ ~LogHolds(p, k, x)
           /\ \A q \in Partitions, i \in Nat :
                LogHolds(q, i, x)' <=> LogHolds(q, i, x) \/ (q = p /\ i = k /\ RetryHolds(r, x))
           /\ \A i \in Nat : RetryHolds(i, x)' <=> IF i < r THEN RetryHolds(i, x) ELSE RetryHolds(i + 1, x)
    BY <1>2, RedeliverHolders
  <2>3. ASSUME NEW j \in Nat, RetryHolds(j, x) PROVE Held(x)'
    <3>1. CASE j = r
      BY <2>2, <2>3, <3>1 DEF Held
    <3>2. CASE j < r
      BY <2>2, <2>3, <3>2 DEF Held
    <3>3. CASE j > r
      <4>1. j - 1 \in Nat /\ ~(j - 1 < r) /\ (j - 1) + 1 = j
        BY <3>3
      <4>2. RetryHolds(j - 1, x)'
        BY <2>2, <2>3, <4>1
      <4>3. QED
        BY <4>1, <4>2 DEF Held
    <3>4. QED
      BY <3>1, <3>2, <3>3
  <2>4. QED
    BY <1>2, <1>b, <2>1, <2>2, <2>3 DEF Held, SameQueue, SameSlots
<1>3. ASSUME x[1] \in Produced, NEW p \in Partitions, Add(p) PROVE Held(x)' \/ Settled(x)'
  <2>1. PICK k \in Nat :
           /\ SameRetries(x)
           /\ \A q \in Partitions, i \in Nat : LogHolds(q, i, x)' <=> LogHolds(q, i, x) /\ ~(q = p /\ i = k)
           /\ \/ \E s \in Slots :
                   /\ SameQueue(x) /\ ~SlotHolds(s, x)
                   /\ \A t \in Slots :
                        SlotHolds(t, x)' <=> IF t = s THEN LogHolds(p, k, x) /\ config[x[2]] # "missing" ELSE SlotHolds(t, x)
                   /\ LogHolds(p, k, x) /\ config[x[2]] = "missing" => x \in dropped'
              \/ \E n \in Nat :
                   /\ SameSlots(x) /\ ~QueueHolds(n, x)
                   /\ \A i \in Nat : QueueHolds(i, x)' <=> QueueHolds(i, x) \/ (i = n /\ LogHolds(p, k, x))
              \/ SameQueue(x) /\ SameSlots(x) /\ (LogHolds(p, k, x) => x \in lost')
    BY <1>3, AddHolders
  <2>2. x \in dropped' \cup lost' => Settled(x)'
    BY DEF Settled
  <2>3. QED
    BY <1>3, <1>b, <2>1, <2>2 DEF Held, SameQueue, SameSlots, SameRetries
<1>4. ASSUME x[1] \in Produced, NEW s \in Slots, Finish(s) PROVE Held(x)' \/ Settled(x)'
  <2>1. /\ SameLog(x) /\ SameRetries(x) /\ ~SlotHolds(s, x)
        /\ \/ SameQueue(x) /\ SameSlots(x)
           \/ /\ ~QueueHolds(0, x)
              /\ \A i \in Nat : QueueHolds(i, x)' <=> i # 0 /\ QueueHolds(i + 1, x)
              /\ \A t \in Slots : SlotHolds(t, x)' => IF t = s THEN QueueHolds(1, x) ELSE SlotHolds(t, x)
              /\ \A t \in Slots : t # s /\ SlotHolds(t, x) => SlotHolds(t, x)'
              /\ QueueHolds(1, x) => SlotHolds(s, x)' \/ x \in dropped' \cup lost'
    BY <1>4, FinishHolders
  <2>2. x \in dropped' \cup lost' => Settled(x)'
    BY DEF Settled
  <2>3. CASE SameQueue(x) /\ SameSlots(x)
    BY <1>4, <1>b, <2>1, <2>3 DEF Held, SameLog, SameQueue, SameSlots, SameRetries
  <2>4. CASE /\ ~QueueHolds(0, x)
             /\ \A i \in Nat : QueueHolds(i, x)' <=> i # 0 /\ QueueHolds(i + 1, x)
             /\ \A t \in Slots : SlotHolds(t, x)' => IF t = s THEN QueueHolds(1, x) ELSE SlotHolds(t, x)
             /\ \A t \in Slots : t # s /\ SlotHolds(t, x) => SlotHolds(t, x)'
             /\ QueueHolds(1, x) => SlotHolds(s, x)' \/ x \in dropped' \cup lost'
    <3>1. ASSUME NEW j \in Nat, QueueHolds(j, x) PROVE Held(x)' \/ Settled(x)'
      <4>1. j = 1 \/ (j - 1 \in Nat /\ j - 1 # 0 /\ (j - 1) + 1 = j)
        BY <2>4, <3>1
      <4>2. QED
        BY <2>2, <2>4, <3>1, <4>1 DEF Held
    <3>2. QED
      BY <1>4, <1>b, <2>1, <2>4, <3>1 DEF Held, SameLog, SameRetries
  <2>5. QED
    BY <2>1, <2>3, <2>4
<1>5. ASSUME x[1] \in Produced, NEW s \in Slots, NEW c \in Connections, Exec(s, c) PROVE Held(x)' \/ Settled(x)'
  BY <1>5, <1>b, ExecHolders DEF Held, SameAll, SameLog, SameQueue, SameSlots, SameRetries
<1>6. ASSUME x[1] \in Produced, NEW s \in Slots, NEW c \in Connections, CheckError(s, c) PROVE Held(x)' \/ Settled(x)'
  <2>1. /\ SameLog(x) /\ SameQueue(x) /\ SameRetries(x)
        /\ \/ SameSlots(x)
           \/ \E y \in Messages \X Connections :
                /\ Settled(y)
                /\ \A t \in Slots : SlotHolds(t, x)' <=> SlotHolds(t, x) /\ ~(t = s /\ x = y)
    BY <1>6, CheckErrorHolders
  <2>2. QED
    BY <1>0, <1>6, <1>b, <2>1, SettledStays DEF Held, SameLog, SameQueue, SameSlots, SameRetries
<1>7. ASSUME x[1] \in Produced, NEW s \in Slots, NEW c \in Connections, Requeue(s, c) PROVE Held(x)' \/ Settled(x)'
  <2>1. PICK y \in Messages \X Connections :
           /\ SameLog(x) /\ SameQueue(x) /\ SlotHolds(s, y)
           /\ \A t \in Slots : SlotHolds(t, x)' <=> SlotHolds(t, x) /\ ~(t = s /\ x = y)
           /\ \/ SameRetries(x) /\ Settled(y)'
              \/ \E n \in Nat :
                   /\ ~RetryHolds(n, x)
                   /\ \A i \in Nat : RetryHolds(i, x)' <=> RetryHolds(i, x) \/ (i = n /\ x = y)
    BY <1>7, RequeueHolders
  <2>2. QED
    BY <1>7, <1>b, <2>1 DEF Held, SameLog, SameQueue, SameRetries
<1>8. ASSUME x[1] \in Produced, Crash PROVE Held(x)' \/ Settled(x)'
  <2>1. x \in lost' => Settled(x)'
    BY DEF Settled
  <2>2. QED
    BY <1>8, <1>b, <2>1, CrashHolders
<1>9. ASSUME x[1] \in Produced,
             \/ (\E p \in Partitions : EachMessage(p)) \/ AutoCommit \/ Disconnect \/ Restart
             \/ (\E c \in Connections : Reconfigure(c)) \/ UNCHANGED vars
      PROVE  Held(x)' \/ Settled(x)'
  BY <1>9, <1>b, QuietHolders DEF Held, SameAll, SameLog, SameQueue, SameSlots, SameRetries
<1>10. QED
  BY <1>c, <1>1, <1>2, <1>3, <1>4, <1>5, <1>6, <1>7, <1>8, <1>9 DEF Next, Rotor

(* What is held has been produced. *)
LEMMA HeldProduced ==
    ASSUME Inv, NEW x, Held(x)
    PROVE  x[1] \in Produced
<1>0. TypeInv /\ \A p \in Partitions : DOMAIN log[p] = 1 .. Len(log[p]) /\ Len(log[p]) \in Nat /\ stored[p] \in Nat
  BY Basics DEF Inv
<1>1. ASSUME NEW at \in Partitions \X Nat, NEW rec, InLog(log, at, rec)
      PROVE  rec.msg \in Produced
  BY <1>0, <1>1, ProducedIff DEF InLog
<1>2. ASSUME NEW p \in Partitions, NEW i \in Nat, LogHolds(p, i, x)
      PROVE  x[1] \in Produced
  <2>1. i \in DOMAIN log[p] /\ log[p][i].msg = x[1]
    BY <1>0, <1>2 DEF LogHolds, Covers
  <2>2. QED
    BY <2>1, ProducedIff
<1>3. ASSUME NEW i \in Nat, QueueHolds(i, x)
      PROVE  x[1] \in Produced
  BY <1>1, <1>3, Basics DEF QueueHolds, Covers, Inv, TaskInv
<1>4. ASSUME NEW s \in Slots, SlotHolds(s, x)
      PROVE  x[1] \in Produced
  BY <1>1, <1>4, Basics DEF SlotHolds, Covers, Inv, TaskInv
<1>5. ASSUME NEW i \in Nat, RetryHolds(i, x)
      PROVE  x[1] \in Produced
  BY <1>5 DEF RetryHolds, Covers, Inv, SingleInv
<1>6. QED
  BY <1>2, <1>3, <1>4, <1>5 DEF Held

(* What is retried, and what ended without an error, has been produced. *)
Sources ==
    /\ \A i \in DOMAIN retryLog : retryLog[i].msg \in Produced
    /\ \A x \in clean : x \in Messages \X Connections /\ x[1] \in Produced

(* Every action preserves that. *)
LEMMA SourcesStep ==
    ASSUME Inv, [Next]_vars
    PROVE  Sources'
<1>0. Sources /\ Produced \subseteq Produced'
  BY ProducedStep DEF Inv, SingleInv, Sources
<1>1. UNCHANGED <<retryLog, clean>> => Sources'
  BY <1>0 DEF Sources
<1>2. ASSUME NEW m \in Messages, Produce(m) PROVE Sources'
  BY <1>1, <1>2, ProduceStep DEF Inv
<1>3. ASSUME Redeliver PROVE Sources'
  <2>1. PICK r \in 1 .. Len(retryLog) :
           /\ Len(retryLog') = Len(retryLog) - 1
           /\ \A j \in 1 .. Len(retryLog') : retryLog'[j] = IF j < r THEN retryLog[j] ELSE retryLog[j + 1]
    BY <1>3, RedeliverStep DEF Inv
  <2>2. TypeInv' /\ UNCHANGED clean
    BY <1>3, RedeliverStep DEF Inv
  <2>3. /\ Len(retryLog) \in Nat /\ DOMAIN retryLog = 1 .. Len(retryLog) /\ Len(retryLog') \in Nat
        /\ DOMAIN retryLog' = 1 .. Len(retryLog')
    BY <2>2, Basics DEF Inv, TypeInv, LogType
  <2>4. ASSUME NEW j \in DOMAIN retryLog' PROVE retryLog'[j].msg \in Produced'
    <3>1. j \in 1 .. Len(retryLog') /\ j \in DOMAIN retryLog /\ j + 1 \in DOMAIN retryLog
      BY <2>1, <2>3
    <3>2. retryLog'[j] = retryLog[j] \/ retryLog'[j] = retryLog[j + 1]
      BY <2>1, <3>1
    <3>3. QED
      BY <1>0, <3>1, <3>2 DEF Sources
  <2>5. QED
    BY <1>0, <2>2, <2>4 DEF Sources
<1>4. ASSUME NEW p \in Partitions, Add(p) PROVE Sources'
  BY <1>1, <1>4, AddStep DEF Inv
<1>5. ASSUME NEW s \in Slots, Finish(s) PROVE Sources'
  BY <1>1, <1>5, FinishStep DEF Inv, kafka
<1>6. ASSUME NEW s \in Slots, NEW c \in Connections, Exec(s, c) PROVE Sources'
  BY <1>1, <1>6, ExecStep DEF Inv, kafka
<1>7. ASSUME NEW s \in Slots, NEW c \in Connections, CheckError(s, c) PROVE Sources'
  <2>1. /\ slots[s] # None /\ c \in slots[s].rec.conns /\ UNCHANGED retryLog
        /\ UNCHANGED clean \/ clean' = clean \cup {Pair(slots[s].rec, c)}
    BY <1>7, CheckErrorStep DEF Inv, kafka
  <2>2. InLog(log, slots[s].at, slots[s].rec) /\ slots[s].at \in Partitions \X Nat
    BY <2>1, Basics DEF Inv, TaskInv
  <2>3. slots[s].rec.msg \in Produced
    BY <2>2, TypeStep, ProducedFacts DEF Inv
  <2>4. Pair(slots[s].rec, c)[1] = slots[s].rec.msg /\ Pair(slots[s].rec, c) \in Messages \X Connections
    <3>1. Pair(slots[s].rec, c) \in Messages \X Connections
      BY <2>1, Basics DEF Inv
    <3>2. QED
      BY <3>1 DEF Pair
  <2>5. QED
    BY <1>0, <1>1, <2>1, <2>3, <2>4 DEF Sources
<1>8. ASSUME NEW s \in Slots, NEW c \in Connections, Requeue(s, c) PROVE Sources'
  <2>1. slots[s] # None /\ UNCHANGED clean
    BY <1>8, RequeueStep DEF Inv
  <2>2. PICK rec \in Records : rec.msg = slots[s].rec.msg /\ (retryLog' = Append(retryLog, rec) \/ UNCHANGED retryLog)
    BY <1>8, RequeueStep DEF Inv
  <2>3. InLog(log, slots[s].at, slots[s].rec) /\ slots[s].at \in Partitions \X Nat
    BY <2>1, Basics DEF Inv, TaskInv
  <2>4. rec.msg \in Produced
    BY <2>2, <2>3, TypeStep, ProducedFacts DEF Inv
  <2>5. retryLog \in Seq(Records) /\ Len(retryLog) \in Nat /\ DOMAIN retryLog = 1 .. Len(retryLog)
    BY Basics DEF Inv
  <2>6. CASE retryLog' = Append(retryLog, rec)
    <3>1. /\ DOMAIN retryLog' = 1 .. (Len(retryLog) + 1)
          /\ \A j \in 1 .. Len(retryLog) : retryLog'[j] = retryLog[j]
          /\ retryLog'[Len(retryLog) + 1] = rec
      BY <2>5, <2>6, Appended
    <3>2. QED
      BY <1>0, <2>1, <2>4, <2>5, <3>1 DEF Sources
  <2>7. QED
    BY <1>1, <2>1, <2>2, <2>6
<1>9. ASSUME Crash PROVE Sources'
  BY <1>1, <1>9, CrashStep DEF Inv
<1>10. ASSUME \/ (\E p \in Partitions : EachMessage(p)) \/ AutoCommit \/ Disconnect \/ Restart
              \/ (\E c \in Connections : Reconfigure(c)) \/ UNCHANGED vars
       PROVE  Sources'
  BY <1>1, <1>10, QuietHolders
<1>11. QED
  BY <1>2, <1>3, <1>4, <1>5, <1>6, <1>7, <1>8, <1>9, <1>10 DEF Next, Rotor

(* As long as no process died, an event has one holder, and none once a chain   *)
(* ended without an error.                                                      *)
Alone(x) == Single(x) /\ (x \in clean => ~Held(x))

(* Steps that move no event. *)
LEMMA SameAlone ==
    ASSUME NEW x, Alone(x), SameAll(x), UNCHANGED clean
    PROVE  Alone(x)'
<1>1. Single(x)'
  BY DEF Alone, Single, SameAll, SameLog, SameQueue, SameSlots, SameRetries
<1>2. Held(x)' <=> Held(x)
  BY DEF Held, SameAll, SameLog, SameQueue, SameSlots, SameRetries
<1>3. QED
  BY <1>1, <1>2 DEF Alone

(* Every action preserves that: each event is passed on by its one holder. *)
LEMMA AloneStep ==
    ASSUME Inv, [Next]_vars, ~budget'.crashed, NEW x \in Messages \X Connections
    PROVE  Alone(x)'
<1>0. ~budget.crashed => Alone(x)
  BY DEF Inv, SingleInv, Alone
<1>1. ASSUME NEW m \in Messages, Produce(m) PROVE Alone(x)'
  <2>1. Alone(x) /\ UNCHANGED clean /\ m \notin Produced
    BY <1>0, <1>1, ProduceStep DEF Inv
  <2>2. SameQueue(x) /\ SameSlots(x) /\ SameRetries(x)
    BY <1>1, ProduceHolders
  <2>3. PICK p \in Partitions, k \in Nat :
           \A q \in Partitions, i \in Nat :
              LogHolds(q, i, x)' <=> LogHolds(q, i, x) \/ (q = p /\ i = k /\ x[1] = m)
    BY <1>1, ProduceHolders
  <2>4. CASE x[1] # m
    <3>1. SameLog(x)
      BY <2>3, <2>4 DEF SameLog
    <3>2. QED
      BY <2>1, <2>2, <3>1, SameAlone DEF SameAll
  <2>5. CASE x[1] = m
    <3>1. ~Held(x) /\ x \notin clean
      BY <2>1, <2>5, HeldProduced DEF Inv, SingleInv
    <3>2. Single(x)'
      BY <2>2, <2>3, <3>1 DEF Held, Single, SameQueue, SameSlots, SameRetries
    <3>3. QED
      BY <2>1, <3>1, <3>2 DEF Alone
  <2>6. QED
    BY <2>4, <2>5
<1>2. ASSUME Redeliver PROVE Alone(x)'
  <2>1. SameQueue(x) /\ SameSlots(x)
    BY <1>2, RedeliverHolders
  <2>2. PICK p \in Partitions, k \in Nat, r \in Nat :
           /\ ~LogHolds(p, k, x)
           /\ \A q \in Partitions, i \in Nat :
                LogHolds(q, i, x)' <=> LogHolds(q, i, x) \/ (q = p /\ i = k /\ RetryHolds(r, x))
           /\ \A i \in Nat : RetryHolds(i, x)' <=> IF i < r THEN RetryHolds(i, x) ELSE RetryHolds(i + 1, x)
    BY <1>2, RedeliverHolders
  <2>3. Alone(x) /\ UNCHANGED clean
    BY <1>0, <1>2, RedeliverStep DEF Inv
  <2>4. ASSUME NEW i \in Nat, RetryHolds(i, x)'
        PROVE  ~RetryHolds(r, x) /\ \E j \in Nat : RetryHolds(j, x) /\ j = IF i < r THEN i ELSE i + 1
    <3>1. CASE i < r
      <4>1. RetryHolds(i, x) /\ i # r
        BY <2>2, <2>4, <3>1
      <4>2. ~RetryHolds(r, x)
        BY <2>3, <4>1 DEF Alone, Single
      <4>3. QED
        BY <3>1, <4>1, <4>2
    <3>2. CASE ~(i < r)
      <4>1. RetryHolds(i + 1, x) /\ i + 1 # r /\ i + 1 \in Nat
        BY <2>2, <2>4, <3>2
      <4>2. ~RetryHolds(r, x)
        BY <2>3, <4>1 DEF Alone, Single
      <4>3. QED
        BY <3>2, <4>1, <4>2
    <3>3. QED
      BY <3>1, <3>2
  <2>5. \A i, j \in Nat : RetryHolds(i, x)' /\ RetryHolds(j, x)' => i = j
    <3>1. SUFFICES ASSUME NEW i \in Nat, NEW j \in Nat, RetryHolds(i, x)', RetryHolds(j, x)'
                   PROVE  i = j
      OBVIOUS
    <3>2. PICK a \in Nat : RetryHolds(a, x) /\ a = IF i < r THEN i ELSE i + 1
      BY <2>4, <3>1
    <3>3. PICK b \in Nat : RetryHolds(b, x) /\ b = IF j < r THEN j ELSE j + 1
      BY <2>4, <3>1
    <3>4. a = b
      BY <2>3, <3>2, <3>3 DEF Alone, Single
    <3>5. QED
      BY <3>2, <3>3, <3>4
  <2>6. \A i \in Nat : RetryHolds(i, x)' => ~RetryHolds(r, x) /\ \E j \in Nat : RetryHolds(j, x)
    BY <2>4
  <2>7. Single(x)'
    BY <2>1, <2>2, <2>3, <2>5, <2>6 DEF Alone, Single, SameQueue, SameSlots
  <2>8. Held(x)' => Held(x)
    BY <2>1, <2>2, <2>6 DEF Held, SameQueue, SameSlots
  <2>9. QED
    BY <2>3, <2>7, <2>8 DEF Alone
<1>3. ASSUME NEW p \in Partitions, Add(p) PROVE Alone(x)'
  <2>1. PICK k \in Nat :
           /\ SameRetries(x)
           /\ \A q \in Partitions, i \in Nat : LogHolds(q, i, x)' <=> LogHolds(q, i, x) /\ ~(q = p /\ i = k)
           /\ \/ \E s \in Slots :
                   /\ SameQueue(x) /\ ~SlotHolds(s, x)
                   /\ \A t \in Slots :
                        SlotHolds(t, x)' <=> IF t = s THEN LogHolds(p, k, x) /\ config[x[2]] # "missing" ELSE SlotHolds(t, x)
                   /\ LogHolds(p, k, x) /\ config[x[2]] = "missing" => x \in dropped'
              \/ \E n \in Nat :
                   /\ SameSlots(x) /\ ~QueueHolds(n, x)
                   /\ \A i \in Nat : QueueHolds(i, x)' <=> QueueHolds(i, x) \/ (i = n /\ LogHolds(p, k, x))
              \/ SameQueue(x) /\ SameSlots(x) /\ (LogHolds(p, k, x) => x \in lost')
    BY <1>3, AddHolders
  <2>2. Alone(x) /\ UNCHANGED clean
    BY <1>0, <1>3, AddStep DEF Inv
  <2>3. ASSUME NEW s \in Slots,
               /\ SameQueue(x) /\ ~SlotHolds(s, x)
               /\ \A t \in Slots :
                    SlotHolds(t, x)' <=> IF t = s THEN LogHolds(p, k, x) /\ config[x[2]] # "missing" ELSE SlotHolds(t, x)
        PROVE  Single(x)' /\ (Held(x)' => Held(x))
    <3>1. \A t \in Slots : SlotHolds(t, x)' => IF t = s THEN LogHolds(p, k, x) ELSE SlotHolds(t, x)
      BY <2>3
    <3>2. Single(x)'
      BY <2>1, <2>2, <2>3, <3>1 DEF Alone, Single, SameQueue, SameRetries
    <3>3. Held(x)' => Held(x)
      BY <2>1, <2>3, <3>1 DEF Held, SameQueue, SameRetries
    <3>4. QED
      BY <3>2, <3>3
  <2>4. ASSUME NEW n \in Nat,
               /\ SameSlots(x) /\ ~QueueHolds(n, x)
               /\ \A i \in Nat : QueueHolds(i, x)' <=> QueueHolds(i, x) \/ (i = n /\ LogHolds(p, k, x))
        PROVE  Single(x)' /\ (Held(x)' => Held(x))
    <3>1. Single(x)'
      BY <2>1, <2>2, <2>4 DEF Alone, Single, SameSlots, SameRetries
    <3>2. Held(x)' => Held(x)
      BY <2>1, <2>4 DEF Held, SameSlots, SameRetries
    <3>3. QED
      BY <3>1, <3>2
  <2>5. CASE SameQueue(x) /\ SameSlots(x)
    <3>1. Single(x)'
      BY <2>1, <2>2, <2>5 DEF Alone, Single, SameQueue, SameSlots, SameRetries
    <3>2. Held(x)' => Held(x)
      BY <2>1, <2>5 DEF Held, SameQueue, SameSlots, SameRetries
    <3>3. QED
      BY <2>2, <3>1, <3>2 DEF Alone
  <2>6. QED
    BY <2>1, <2>2, <2>3, <2>4, <2>5 DEF Alone
<1>4. ASSUME NEW s \in Slots, Finish(s) PROVE Alone(x)'
  <2>1. /\ SameLog(x) /\ SameRetries(x) /\ ~SlotHolds(s, x)
        /\ \/ SameQueue(x) /\ SameSlots(x)
           \/ /\ ~QueueHolds(0, x)
              /\ \A i \in Nat : QueueHolds(i, x)' <=> i # 0 /\ QueueHolds(i + 1, x)
              /\ \A t \in Slots : SlotHolds(t, x)' => IF t = s THEN QueueHolds(1, x) ELSE SlotHolds(t, x)
              /\ \A t \in Slots : t # s /\ SlotHolds(t, x) => SlotHolds(t, x)'
              /\ QueueHolds(1, x) => SlotHolds(s, x)' \/ x \in dropped' \cup lost'
    BY <1>4, FinishHolders
  <2>2. Alone(x) /\ UNCHANGED clean
    BY <1>0, <1>4, FinishStep DEF Inv
  <2>3. CASE SameQueue(x) /\ SameSlots(x)
    BY <2>1, <2>2, <2>3, SameAlone DEF SameAll
  <2>4. CASE /\ \A i \in Nat : QueueHolds(i, x)' <=> i # 0 /\ QueueHolds(i + 1, x)
             /\ \A t \in Slots : SlotHolds(t, x)' => IF t = s THEN QueueHolds(1, x) ELSE SlotHolds(t, x)
             /\ \A t \in Slots : t # s /\ SlotHolds(t, x) => SlotHolds(t, x)'
             /\ QueueHolds(1, x) => SlotHolds(s, x)' \/ x \in dropped' \cup lost'
    <3>1. \A t \in Slots : SlotHolds(t, x)' => IF t = s THEN QueueHolds(1, x) ELSE SlotHolds(t, x)
      BY <2>4
    <3>2. ASSUME NEW i \in Nat, QueueHolds(i, x)'
          PROVE  \E j \in Nat : j = i + 1 /\ QueueHolds(j, x) /\ j # 1
      BY <2>4, <3>2
    <3>3. \A i, j \in Nat : QueueHolds(i, x)' /\ QueueHolds(j, x)' => i = j
      <4>1. SUFFICES ASSUME NEW i \in Nat, NEW j \in Nat, QueueHolds(i, x)', QueueHolds(j, x)'
                     PROVE  i = j
        OBVIOUS
      <4>2. PICK a \in Nat : QueueHolds(a, x) /\ a = i + 1
        BY <3>2, <4>1
      <4>3. PICK b \in Nat : QueueHolds(b, x) /\ b = j + 1
        BY <3>2, <4>1
      <4>4. a = b
        BY <2>2, <4>2, <4>3 DEF Alone, Single
      <4>5. QED
        BY <4>2, <4>3, <4>4
    <3>4. \A i \in Nat : QueueHolds(i, x)' => ~QueueHolds(1, x) /\ \E j \in Nat : QueueHolds(j, x)
      BY <2>2, <3>2 DEF Alone, Single
    <3>5. Single(x)'
      BY <2>1, <2>2, <3>1, <3>3, <3>4 DEF Alone, Single, SameLog, SameRetries
    <3>6. Held(x)' => Held(x)
      BY <2>1, <3>1, <3>4 DEF Held, SameLog, SameRetries
    <3>7. QED
      BY <2>2, <3>5, <3>6 DEF Alone
  <2>5. QED
    BY <2>1, <2>3, <2>4
<1>5. ASSUME NEW s \in Slots, NEW c \in Connections, Exec(s, c) PROVE Alone(x)'
  BY <1>0, <1>5, ExecHolders, SameAlone
<1>6. ASSUME NEW s \in Slots, NEW c \in Connections, CheckError(s, c) PROVE Alone(x)'
  <2>1. /\ SameLog(x) /\ SameQueue(x) /\ SameRetries(x) /\ UNCHANGED <<log, retryLog, budget>>
        /\ \/ SameSlots(x) /\ UNCHANGED clean
           \/ \E y \in Messages \X Connections :
                /\ clean' = clean \cup {y} /\ SlotHolds(s, y) /\ Settled(y)
                /\ \A t \in Slots : SlotHolds(t, x)' <=> SlotHolds(t, x) /\ ~(t = s /\ x = y)
    BY <1>6, CheckErrorHolders
  <2>2. Alone(x)
    BY <1>0, <2>1
  <2>3. CASE SameSlots(x) /\ UNCHANGED clean
    BY <2>1, <2>2, <2>3, SameAlone DEF SameAll
  <2>4. ASSUME NEW y \in Messages \X Connections, clean' = clean \cup {y}, SlotHolds(s, y),
               \A t \in Slots : SlotHolds(t, x)' <=> SlotHolds(t, x) /\ ~(t = s /\ x = y)
        PROVE  Alone(x)'
    <3>1. Single(x)'
      BY <2>1, <2>2, <2>4 DEF Alone, Single, SameLog, SameQueue, SameRetries
    <3>2. Held(x)' => Held(x)
      BY <2>1, <2>4 DEF Held, SameLog, SameQueue, SameRetries
    <3>3. CASE x = y
      <4>1. ~Held(x)'
        BY <2>1, <2>2, <2>4, <3>3 DEF Alone, Single, Held, SameLog, SameQueue, SameRetries
      <4>2. QED
        BY <3>1, <4>1 DEF Alone
    <3>4. CASE x # y
      BY <2>2, <2>4, <3>1, <3>2, <3>4 DEF Alone
    <3>5. QED
      BY <3>3, <3>4
  <2>5. QED
    BY <2>1, <2>3, <2>4
<1>7. ASSUME NEW s \in Slots, NEW c \in Connections, Requeue(s, c) PROVE Alone(x)'
  <2>1. PICK y \in Messages \X Connections :
           /\ SameLog(x) /\ SameQueue(x) /\ SlotHolds(s, y)
           /\ \A t \in Slots : SlotHolds(t, x)' <=> SlotHolds(t, x) /\ ~(t = s /\ x = y)
           /\ \/ SameRetries(x) /\ Settled(y)'
              \/ \E n \in Nat :
                   /\ ~RetryHolds(n, x)
                   /\ \A i \in Nat : RetryHolds(i, x)' <=> RetryHolds(i, x) \/ (i = n /\ x = y)
    BY <1>7, RequeueHolders
  <2>2. Alone(x) /\ UNCHANGED clean
    BY <1>0, <1>7, RequeueStep DEF Inv
  <2>3. CASE SameRetries(x)
    <3>1. Single(x)'
      BY <2>1, <2>2, <2>3 DEF Alone, Single, SameLog, SameQueue, SameRetries
    <3>2. Held(x)' => Held(x)
      BY <2>1, <2>3 DEF Held, SameLog, SameQueue, SameRetries
    <3>3. QED
      BY <2>2, <3>1, <3>2 DEF Alone
  <2>4. ASSUME NEW n \in Nat, ~RetryHolds(n, x),
               \A i \in Nat : RetryHolds(i, x)' <=> RetryHolds(i, x) \/ (i = n /\ x = y)
        PROVE  Alone(x)'
    <3>1. x = y => SlotHolds(s, x)
      BY <2>1
    <3>2. Single(x)'
      BY <2>1, <2>2, <2>4, <3>1 DEF Alone, Single, SameLog, SameQueue
    <3>3. Held(x)' => Held(x)
      BY <2>1, <2>4, <3>1 DEF Held, SameLog, SameQueue
    <3>4. QED
      BY <2>2, <3>2, <3>3 DEF Alone
  <2>5. QED
    BY <2>1, <2>3, <2>4
<1>8. ASSUME Crash PROVE Alone(x)'
  BY <1>8, CrashStep DEF Inv
<1>9. ASSUME \/ (\E p \in Partitions : EachMessage(p)) \/ AutoCommit \/ Disconnect \/ Restart
             \/ (\E c \in Connections : Reconfigure(c)) \/ UNCHANGED vars
      PROVE  Alone(x)'
  BY <1>0, <1>9, QuietHolders, SameAlone
<1>10. QED
  BY <1>1, <1>2, <1>3, <1>4, <1>5, <1>6, <1>7, <1>8, <1>9 DEF Next, Rotor

-----------------------------------------------------------------------------
(* The theorems.                                                             *)

(* Initially nothing is produced, and nothing held. *)
LEMMA Initially == Init => Inv
<1> SUFFICES ASSUME Init PROVE Inv
  OBVIOUS
<1>1. RetryCount \in Nat /\ Concurrency \in Nat
  BY ConstantsAssumption
<1>2. TypeInv
  <2>1. LogType /\ OffsetType /\ FeedType /\ QueueType
    BY DEF Init, LogType, OffsetType, FeedType, QueueType
  <2>2. SlotType
    BY DEF Init, SlotType
  <2>3. SmallType
    BY <1>1 DEF Init, SmallType
  <2>4. QED
    BY <2>1, <2>2, <2>3 DEF TypeInv
<1>3. /\ \A p \in Partitions : log[p] = <<>> /\ position[p] = 0 /\ stored[p] = 0 /\ committed[p] = 0 /\ feed[p] = None
      /\ queue = <<>> /\ retryLog = <<>> /\ dead = {} /\ clean = {} /\ status = "running"
      /\ \A s \in Slots : slots[s] = None
  BY DEF Init
<1>4. OffsetInv /\ TaskInv /\ ChainInv
  BY <1>3 DEF OffsetInv, TaskInv, ChainInv
<1>5. TriesInv /\ DeadAfterAllAttempts /\ DeadTyped
  BY <1>3 DEF TriesInv, DeadAfterAllAttempts, DeadTyped
<1>6. Produced = {}
  BY <1>3, ProducedIff
<1>7. KeptInv
  BY <1>6 DEF KeptInv
<1>8. SingleInv
  <2>1. ASSUME NEW x PROVE ~Held(x) /\ Single(x)
    <3>1. /\ \A p \in Partitions, i \in Nat : ~LogHolds(p, i, x)
          /\ \A i \in Nat : ~QueueHolds(i, x) /\ ~RetryHolds(i, x)
          /\ \A s \in Slots : ~SlotHolds(s, x)
      BY <1>3 DEF LogHolds, QueueHolds, RetryHolds, SlotHolds
    <3>2. QED
      BY <3>1 DEF Held, Single
  <2>2. QED
    BY <1>3, <2>1 DEF SingleInv
<1>9. QED
  BY <1>2, <1>4, <1>5, <1>7, <1>8 DEF Inv

(* Every step preserves the invariant. *)
LEMMA Inductive == Inv /\ [Next]_vars => Inv'
<1> SUFFICES ASSUME Inv, [Next]_vars PROVE Inv'
  OBVIOUS
<1>1. TypeInv' /\ OffsetInv' /\ TaskInv' /\ ChainInv' /\ KeptInv'
  BY TypeStep, OffsetStep, TaskStep, ChainStep, KeptStep
<1>2. TriesInv' /\ DeadAfterAllAttempts' /\ DeadTyped'
  BY TriesStep DEF AllTries
<1>3. SingleInv'
  BY SourcesStep, AloneStep DEF SingleInv, Sources, Alone
<1>4. QED
  BY <1>1, <1>2, <1>3 DEF Inv

(* The invariant holds in every state the rotor reaches. *)
THEOREM Invariant == Spec => []Inv
BY Initially, Inductive, PTL DEF Spec

(* Types: offsets never overtake one another, and no record carries more        *)
(* retries than MESSAGES_RETRY_COUNT.                                            *)
THEOREM TypeCorrect == Spec => []TypeOK
<1>1. Inv => TypeOK
  <2> SUFFICES ASSUME Inv PROVE TypeOK
    OBVIOUS
  <2>1. ASSUME NEW r \in Open
        PROVE  r \in Records
    <3>0. \A p \in Partitions : position[p] \in Nat /\ Len(log[p]) \in Nat
      BY Basics DEF Inv
    <3>1. CASE r \in Unread
      <4>1. PICK p \in Partitions : \E i \in (position[p] + 1) .. Len(log[p]) : r = log[p][i]
        BY <3>1 DEF Unread
      <4>2. PICK i \in (position[p] + 1) .. Len(log[p]) : r = log[p][i]
        BY <4>1
      <4>3. i \in 1 .. Len(log[p])
        BY <3>0
      <4>4. QED
        BY <4>2, <4>3, Basics DEF Inv
    <3>2. CASE r \in Fed
      <4>1. PICK p \in Partitions : feed[p] # None /\ r = log[p][feed[p].offset]
        BY <3>2 DEF Fed
      <4>2. feed[p].offset \in 1 .. Len(log[p])
        <5>1. feed[p].offset = stored[p] + 1 /\ stored[p] + 1 <= Len(log[p])
          BY <4>1 DEF Inv, OffsetInv
        <5>2. stored[p] \in Nat /\ Len(log[p]) \in Nat
          BY Basics DEF Inv
        <5>3. QED
          BY <5>1, <5>2
      <4>3. QED
        BY <4>1, <4>2, Basics DEF Inv
    <3>3. CASE r \in Waiting
      BY <3>3, Basics DEF Waiting, Inv
    <3>4. CASE r \in Requeues
      BY <3>4, Basics DEF Requeues, Inv
    <3>5. QED
      BY <3>1, <3>2, <3>3, <3>4 DEF Open
  <2>2. \A r \in Open : r.retries \in 0 .. RetryCount /\ r.conns \subseteq Connections /\ r.conns # {}
    BY <2>1 DEF Records
  <2>3. \A p \in Partitions : committed[p] <= stored[p] /\ stored[p] <= position[p] /\ position[p] <= Len(log[p])
    BY DEF Inv, OffsetInv
  <2>4. status \in {"running", "disconnected"} /\ tries \in [Messages \X Connections -> 0 .. (RetryCount + 1)]
    BY DEF Inv, TypeInv, SmallType
  <2>5. ASSUME NEW s \in Slots, slots[s] # None, NEW c \in DOMAIN slots[s].chains
        PROVE  slots[s].chains[c].pc \in {"run", "check", "failed", "done"}
    <3>1. slots[s].chains[c] \in Chains
      BY <2>5, ChainAt DEF Inv
    <3>2. QED
      BY <3>1 DEF Chains
  <2>6. QED
    BY <2>2, <2>3, <2>4, <2>5 DEF TypeOK
<1>2. QED
  BY <1>1, Invariant, PTL

(* What is held is still to be handled: of the records no callback is done      *)
(* with, one may be in its callback, and the others are not yet read.            *)
LEMMA HeldPending ==
    ASSUME Inv, NEW x
    PROVE  /\ Held(x) => Pending(x)
           /\ (\E r \in Open : r.msg = x[1] /\ x[2] \in r.conns) => Held(x)
<1>0. \A p \in Partitions : /\ position[p] \in Nat /\ stored[p] \in Nat /\ Len(log[p]) \in Nat
                            /\ stored[p] <= position[p] /\ position[p] <= Len(log[p])
                            /\ feed[p] = None => stored[p] = position[p]
                            /\ feed[p] # None => feed[p].offset = position[p] /\ position[p] = stored[p] + 1
  BY Basics DEF Inv, OffsetInv
<1>1. ASSUME NEW p \in Partitions, NEW i \in Nat, LogHolds(p, i, x)
      PROVE  log[p][i] \in Open
  <2>1. i \in (position[p] + 1) .. Len(log[p]) \/ (feed[p] # None /\ i = feed[p].offset)
    BY <1>0, <1>1 DEF LogHolds
  <2>2. i \in (position[p] + 1) .. Len(log[p]) => log[p][i] \in Unread
    BY DEF Unread
  <2>3. feed[p] # None /\ i = feed[p].offset => log[p][i] \in Fed
    BY DEF Fed
  <2>4. QED
    BY <2>1, <2>2, <2>3 DEF Open
<1>2. ASSUME NEW i \in Nat, QueueHolds(i, x)
      PROVE  queue[i].rec \in Open
  BY <1>2 DEF QueueHolds, Open, Waiting
<1>3. ASSUME NEW i \in Nat, RetryHolds(i, x)
      PROVE  retryLog[i] \in Open
  BY <1>3 DEF RetryHolds, Open, Requeues
<1>4. ASSUME NEW s \in Slots, SlotHolds(s, x)
      PROVE  Working(x)
  <2>1. slots[s] # None /\ x[2] \in slots[s].rec.conns
    BY <1>4 DEF SlotHolds, Covers
  <2>2. DOMAIN slots[s].chains = slots[s].rec.conns
    BY <2>1 DEF Inv, TypeInv, SlotType
  <2>3. QED
    BY <1>4, <2>1, <2>2 DEF SlotHolds, Covers, Working
<1>5. Held(x) => Pending(x)
  <2>1. ASSUME NEW p \in Partitions, NEW i \in Nat, LogHolds(p, i, x)
        PROVE  Pending(x)
    BY <1>1, <2>1 DEF LogHolds, Covers, Pending
  <2>2. ASSUME NEW i \in Nat, QueueHolds(i, x)
        PROVE  Pending(x)
    BY <1>2, <2>2 DEF QueueHolds, Covers, Pending
  <2>3. ASSUME NEW i \in Nat, RetryHolds(i, x)
        PROVE  Pending(x)
    BY <1>3, <2>3 DEF RetryHolds, Covers, Pending
  <2>4. QED
    BY <1>4, <2>1, <2>2, <2>3 DEF Held, Pending
<1>6. ASSUME NEW r \in Open, r.msg = x[1], x[2] \in r.conns
      PROVE  Held(x)
  <2>0. Covers(r, x)
    BY <1>6 DEF Covers
  <2>1. CASE r \in Unread
    <3>1. PICK p \in Partitions : \E i \in (position[p] + 1) .. Len(log[p]) : r = log[p][i]
      BY <2>1 DEF Unread
    <3>2. PICK i \in (position[p] + 1) .. Len(log[p]) : r = log[p][i]
      BY <3>1
    <3>3. i \in Nat /\ i \in (stored[p] + 1) .. Len(log[p])
      BY <1>0
    <3>4. QED
      BY <2>0, <3>2, <3>3 DEF LogHolds, Held
  <2>2. CASE r \in Fed
    <3>1. PICK p \in Partitions : feed[p] # None /\ r = log[p][feed[p].offset]
      BY <2>2 DEF Fed
    <3>2. feed[p].offset \in Nat /\ feed[p].offset \in (stored[p] + 1) .. Len(log[p])
      BY <1>0, <3>1
    <3>3. QED
      BY <2>0, <3>1, <3>2 DEF LogHolds, Held
  <2>3. CASE r \in Waiting
    <3>1. PICK i \in DOMAIN queue : r = queue[i].rec
      BY <2>3 DEF Waiting
    <3>2. i \in Nat
      BY <3>1, Basics DEF Inv
    <3>3. QED
      BY <2>0, <3>1, <3>2 DEF QueueHolds, Held
  <2>4. CASE r \in Requeues
    <3>1. PICK i \in DOMAIN retryLog : r = retryLog[i]
      BY <2>4 DEF Requeues
    <3>2. i \in Nat
      BY <3>1, Basics DEF Inv
    <3>3. QED
      BY <2>0, <3>1, <3>2 DEF RetryHolds, Held
  <2>5. QED
    BY <2>1, <2>2, <2>3, <2>4 DEF Open
<1>7. QED
  BY <1>5, <1>6

(* Of every event and connection the rotor knows what became of it, whatever    *)
(* fails, crashes, is shut down or reconfigured: it is still to be handled, or   *)
(* delivered, dropped, dead-lettered, or lost in one of the three ways the model  *)
(* notes as a loss: with a process that died, a failed send, an exception.        *)
THEOREM NoEventDisappears == Spec => []NothingDisappears
<1>1. Inv => NothingDisappears
  BY HeldPending DEF Inv, KeptInv, NothingDisappears
<1>2. QED
  BY <1>1, Invariant, PTL

(* A retryable event is dead-lettered only after all the attempts of the system, *)
(* or of the policy its error carries when that asks for fewer.                   *)
THEOREM AllAttemptsFirst == Spec => []DeadAfterAllAttempts
<1>1. Inv => DeadAfterAllAttempts
  BY DEF Inv
<1>2. QED
  BY <1>1, Invariant, PTL

(* As long as no process died, a connection whose chain ended without an error   *)
(* does not get the event again because another connection failed.               *)
THEOREM IndependentRetries == Spec => []RetriedIndependently
<1>1. Inv => RetriedIndependently
  <2> SUFFICES ASSUME Inv, ~budget.crashed, NEW x \in clean PROVE ~\E r \in Open : r.msg = x[1] /\ x[2] \in r.conns
    BY DEF RetriedIndependently
  <2>1. ~Held(x)
    BY DEF Inv, SingleInv
  <2>2. QED
    BY <2>1, HeldPending
<1>2. QED
  BY <1>1, Invariant, PTL

=============================================================================
