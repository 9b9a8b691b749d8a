---------------------------- MODULE RotorDelivery ----------------------------
(***************************************************************************)
(* The rotor: it reads the events of a destination topic of Kafka, runs for *)
(* each connection of an event the chain builtin transformation, user       *)
(* defined functions (on the functions server), destination, and puts an    *)
(* event whose chain failed into the retry topic or the dead-letter topic.  *)
(* Bulker's retry consumer brings the retry topic back.                     *)
(*                                                                          *)
(* Messages are handed from the consumer's callbacks to a queue of limited  *)
(* concurrency, while offsets are committed in the background as soon as    *)
(* the callback is over.                                                    *)
(***************************************************************************)
EXTENDS Integers, Sequences, FiniteSets

CONSTANTS
    Messages,      \* events accepted by ingest
    Connections,   \* connections of the source, all named in an event's header
    Partitions,    \* partitions of the topic, consumed concurrently
    Steps,         \* per connection: which of "transformation" and "udf" are configured
    Concurrency,   \* CONCURRENCY: tasks that run, and tasks that may wait
    RetryCount,    \* MESSAGES_RETRY_COUNT
    CustomAttempts, \* attempts that retry policies of user defined functions ask for
    MaxFailures,   \* bound on unsuccessful function calls
    Faults,        \* what else may go wrong
    MaxFaults,     \* bound on it
    None

FaultKinds ==
    {"crash",      \* the rotor dies
     "close",      \* the rotor is shut down and started again
     "send",       \* the producer fails to put a message into the retry or dead-letter topic
     "throw",      \* onMessage() throws: a value that does not parse, a store not loaded yet
     "config"}     \* the configuration of a connection changes

ASSUME ConstantsAssumption ==
    /\ Concurrency \in Nat \ {0} /\ RetryCount \in Nat /\ MaxFailures \in Nat /\ MaxFaults \in Nat
    /\ Faults \subseteq FaultKinds /\ Connections # {} /\ CustomAttempts \subseteq Nat
    /\ Steps \in [Connections -> SUBSET {"transformation", "udf"}]

(* The shapes of what is handled: events, messages, and the work on them *)
Names == {"Error", "RetryError", "DropRetryError", "NoRetryError"}
Funcs == {"transformation", "udf", "destination"}
Events == [transformed : Nat, processed : Nat, part : 0 .. 2]
Records == [msg : Messages, conns : (SUBSET Connections) \ {{}}, func : Funcs \cup {"none", "pipeline"},
            retries : 0 .. RetryCount, event : Events]
Errs == [name : Names, func : Funcs \cup {"none", "pipeline"}, event : Events, attempts : Nat]
Chains == [pc : {"run", "check", "failed", "done"}, funcs : Seq(Funcs), events : Seq(Events),
           out : Seq(Events), errors : Seq(Errs)]
Feeds == [offset : Nat, go : BOOLEAN]
QueueTasks == [at : Partitions \X Nat, rec : Records]
RunningTasks == [at : Partitions \X Nat, rec : Records,
                 chains : UNION {[conns -> Chains] : conns \in SUBSET Connections}]

ASSUME NoneAssumption == None \notin Feeds \cup RunningTasks

VARIABLES
    log,        \* per partition: the records of the topic
    position,   \* per partition: records handed to eachMessage
    stored,     \* per partition: records whose eachMessage is over
    committed,  \* per partition: records the group has committed
    feed,       \* per partition: the callback under way, or None
    queue,      \* tasks that wait
    slots,      \* tasks that run
    status,     \* of the process: "running", "disconnected", "closed"
    config,     \* per connection: what the connection store says of it
    retryLog,   \* records in the retry topic
    dead,       \* records in the dead-letter topic
    delivered,  \* history: what reached a destination
    dropped,    \* history: what functions or the configuration dropped
    lost,       \* history: what a crash, a failed send or an exception took
    clean,      \* history: chains that ended without an error
    failed,     \* history: events a destination refused for the time being
    tries,      \* history: chains run, capped
    budget      \* failures and faults spent

kafka == <<log, position, stored, committed, retryLog, dead>>
work == <<feed, queue, slots, status>>
history == <<delivered, dropped, lost, clean, failed, tries>>
vars == <<kafka, work, config, history, budget>>

Slots == 1 .. Concurrency
Raw == [transformed |-> 0, processed |-> 0, part |-> 0]
Produced == {r.msg : r \in UNION {{log[p][i] : i \in DOMAIN log[p]} : p \in Partitions}}
Pair(r, c) == <<r.msg, c>>

Spend(kind) ==
    /\ kind \in Faults /\ budget.faults < MaxFaults
    /\ budget' = [budget EXCEPT !.faults = @ + 1, !.crashed = @ \/ kind = "crash"]

Init ==
    /\ log = [p \in Partitions |-> <<>>]
    /\ position = [p \in Partitions |-> 0] /\ stored = position /\ committed = position
    /\ feed = [p \in Partitions |-> None]
    /\ queue = <<>> /\ slots = [s \in Slots |-> None] /\ status = "running"
    /\ config = [c \in Connections |-> IF "udf" \in Steps[c] THEN "functions" ELSE "empty"]
    /\ retryLog = <<>> /\ dead = {}
    /\ delivered = {} /\ dropped = {} /\ lost = {} /\ clean = {} /\ failed = {}
    /\ tries = [x \in Messages \X Connections |-> 0]
    /\ budget = [failures |-> 0, faults |-> 0, crashed |-> FALSE]

-----------------------------------------------------------------------------
(* Ingest and the retry consumer of bulker.                                  *)

Produce(m) ==
    /\ m \notin Produced
    /\ \E p \in Partitions :
         log' = [log EXCEPT ![p] = Append(@, [msg |-> m, conns |-> Connections, func |-> "none",
                                              retries |-> 0, event |-> Raw])]
    /\ UNCHANGED <<position, stored, committed, retryLog, dead, work, config, history, budget>>

(* The retry time of a record comes: it goes back to the topic it came from, *)
(* with one more retry, wherever its key takes it                            *)
Redeliver ==
    /\ \E i \in DOMAIN retryLog : \E p \in Partitions :
         /\ log' = [log EXCEPT ![p] = Append(@, [retryLog[i] EXCEPT !.retries = @ + 1])]
         /\ retryLog' = SubSeq(retryLog, 1, i - 1) \o SubSeq(retryLog, i + 1, Len(retryLog))
    /\ UNCHANGED <<position, stored, committed, dead, work, config, history, budget>>

-----------------------------------------------------------------------------
(* The consumer and the queue.                                               *)

(* A faulty variant: one place of the queue is never used *)
MayQueue_OneLess(waiting) == Len(waiting) < Concurrency - 1

(* queue.onSizeLessThan(concurrency) *)
MayQueue(waiting) == Len(waiting) < Concurrency

(* eachMessage() is called with the next message of a partition *)
EachMessage(p) ==
    /\ status = "running" /\ feed[p] = None /\ position[p] < Len(log[p])
    /\ position' = [position EXCEPT ![p] = @ + 1]
    /\ feed' = [feed EXCEPT ![p] = [offset |-> position[p] + 1, go |-> MayQueue(queue)]]
    /\ UNCHANGED <<log, stored, committed, retryLog, dead, queue, slots, status, config, history, budget>>

(* A task of the queue: where its message is, and the message *)
Task(p, offset) == [at |-> <<p, offset>>, rec |-> log[p][offset]]

(* The functions the filter of a retried message lets run *)
Filter(func) ==
    CASE func = "pipeline" -> {"udf", "destination"}
      [] func = "destination" -> {"destination"}
      [] OTHER -> {"transformation", "udf", "destination"}

(* buildFunctionChain(), and the functions runChain() does not skip *)
Functions(rec, c) ==
    LET configured == Steps[c] \ (IF config[c] = "empty" THEN {"udf"} ELSE {})
        Step(f) == IF f \in configured \cap Filter(rec.func) THEN <<f>> ELSE <<>> IN
    Step("transformation") \o Step("udf") \o <<"destination">>

(* An error of a chain: its name, the function it names, the event it is about, *)
(* the attempts of the retry policy it carries                                   *)
Err(name, func, event, attempts) == [name |-> name, func |-> func, event |-> event, attempts |-> attempts]

Chain(rec, c) ==
    [pc |-> CASE config[c] = "absent" -> "failed" [] config[c] = "missing" -> "done" [] OTHER -> "run",
     funcs |-> Functions(rec, c), events |-> <<rec.event>>, out |-> <<>>,
     errors |-> IF config[c] = "absent" THEN <<Err("Error", "none", rec.event, RetryCount)>> ELSE <<>>]

(* onMessage() starts: rotorMessageHandler() for every connection of the header *)
Started(task) ==
    [at |-> task.at, rec |-> task.rec, chains |-> [c \in task.rec.conns |-> Chain(task.rec, c)]]

(* A connection the functions server does not know drops the event *)
Missing(task) == {Pair(task.rec, c) : c \in {d \in task.rec.conns : config[d] = "missing"}}
Begin(task) ==
    /\ dropped' = dropped \cup Missing(task)
    /\ tries' = [x \in DOMAIN tries |->
                    IF \E c \in task.rec.conns : x = Pair(task.rec, c) /\ tries[x] <= RetryCount
                    THEN tries[x] + 1 ELSE tries[x]]
    /\ UNCHANGED <<lost, budget>>

(* ... or it throws before the first of them, outside of every catch: this is  *)
(* logged, and nothing is left of the event                                    *)
Throws(task) ==
    /\ Spend("throw")
    /\ lost' = lost \cup {Pair(task.rec, c) : c \in task.rec.conns}
    /\ UNCHANGED <<slots, dropped, tries>>

(* queue.add(): the task starts when there is room; the callback is over *)
Add(p) ==
    /\ feed[p] # None /\ feed[p].go
    /\ LET task == Task(p, feed[p].offset)
           free == {s \in Slots : slots[s] = None} IN
       \/ /\ free # {}
          /\ \/ slots' = [slots EXCEPT ![CHOOSE s \in free : TRUE] = Started(task)] /\ Begin(task)
             \/ Throws(task)
          /\ UNCHANGED queue
       \/ /\ free = {} /\ queue' = Append(queue, task) /\ UNCHANGED <<slots, dropped, lost, tries, budget>>
    /\ stored' = [stored EXCEPT ![p] = feed[p].offset]
    /\ feed' = [feed EXCEPT ![p] = None]
    /\ UNCHANGED <<log, position, committed, retryLog, dead, status, config, delivered, clean, failed>>

(* The timer of the consumer commits what the callbacks are done with *)
AutoCommit ==
    /\ status = "running" /\ committed # stored
    /\ committed' = stored
    /\ UNCHANGED <<log, position, stored, retryLog, dead, work, config, history, budget>>

(* All chains of a task are over: the next one starts (one that throws is over  *)
(* at once), and every callback that waits for the queue looks at its size      *)
Finish(s) ==
    /\ slots[s] # None /\ \A c \in DOMAIN slots[s].chains : slots[s].chains[c].pc = "done"
    /\ LET rest == IF queue = <<>> THEN <<>> ELSE Tail(queue) IN
       /\ queue' = rest
       /\ \/ /\ queue = <<>> /\ slots' = [slots EXCEPT ![s] = None]
             /\ UNCHANGED <<dropped, lost, tries, budget>>
          \/ queue # <<>> /\ slots' = [slots EXCEPT ![s] = Started(Head(queue))] /\ Begin(Head(queue))
          \/ queue # <<>> /\ Throws(Head(queue))
       /\ feed' = [p \in Partitions |-> IF feed[p] # None /\ MayQueue(rest) THEN [feed[p] EXCEPT !.go = TRUE] ELSE feed[p]]
    /\ UNCHANGED <<kafka, status, config, delivered, clean, failed>>

-----------------------------------------------------------------------------
(* runChain(): one function is called with one event.                        *)

Outcomes(f) ==
    {"ok", "Error", "RetryError", "DropRetryError", "NoRetryError"}
        \cup (IF f = "udf" THEN {"multiply", "unreachable"} ELSE {})
        \cup (IF f = "destination" THEN {} ELSE {"drop"})

(* The event a successful function makes *)
Processed(f, e) ==
    CASE f = "transformation" -> <<[e EXCEPT !.transformed = @ + 1]>>
      [] f = "udf" -> <<[e EXCEPT !.processed = @ + 1]>>
      [] OTHER -> <<e>>

(* The events that go on: a transformation or destination that fails returns    *)
(* nothing, and its event goes on as it was; so does the one of a failing UDF   *)
Result(f, outcome, e) ==
    CASE outcome = "ok" -> Processed(f, e)
      [] outcome = "multiply" -> <<[e EXCEPT !.processed = @ + 1, !.part = 1], [e EXCEPT !.processed = @ + 1, !.part = 2]>>
      [] outcome \in {"Error", "RetryError"} -> <<e>>
      [] OTHER -> <<>>

(* The attempts an error of f may ask for: config.retryPolicy of a user's function *)
Policies(f) == {RetryCount} \cup (IF f = "udf" THEN CustomAttempts ELSE {})

(* What a failed call leaves in the execution log.  Plain errors of user code    *)
(* are only reported; errors of a UDF name it by its bare id, failures to reach  *)
(* the functions server are those of the pipeline and have no policy             *)
Errors(f, outcome, e, attempts) ==
    IF f # "udf"
    THEN IF outcome \in {"ok", "drop"} THEN <<>> ELSE <<Err(outcome, f, e, attempts)>>
    ELSE IF outcome \in {"RetryError", "DropRetryError", "NoRetryError"} THEN <<Err(outcome, "udf", e, attempts)>>
    ELSE IF outcome = "unreachable" THEN <<Err("DropRetryError", "pipeline", e, RetryCount)>>
    ELSE <<>>

Retryable(name) == name \in {"RetryError", "DropRetryError"}

(* The next event of the current function, and the next function behind the last one *)
Advance(chain, out, errors) ==
    IF Len(chain.events) > 1 THEN [chain EXCEPT !.events = Tail(@), !.out = out, !.errors = errors]
    ELSE IF out = <<>> \/ Len(chain.funcs) = 1
    THEN [chain EXCEPT !.pc = "check", !.events = <<>>, !.out = <<>>, !.funcs = <<>>, !.errors = errors]
    ELSE [chain EXCEPT !.funcs = Tail(@), !.events = out, !.out = <<>>, !.errors = errors]

Exec(s, c) ==
    /\ slots[s] # None /\ c \in DOMAIN slots[s].chains
    /\ LET chain == slots[s].chains[c]
           f == Head(chain.funcs)
           e == Head(chain.events)
           what == [msg |-> slots[s].rec.msg, conn |-> c, event |-> e] IN
       /\ chain.pc = "run"
       /\ \E outcome \in Outcomes(f), attempts \in Policies(f) :
            /\ outcome = "multiply" => e.part = 0
            /\ IF outcome = "ok" THEN UNCHANGED budget
               ELSE budget.failures < MaxFailures /\ budget' = [budget EXCEPT !.failures = @ + 1]
            /\ slots' = [slots EXCEPT ![s].chains[c] =
                            Advance(chain, chain.out \o Result(f, outcome, e), chain.errors \o Errors(f, outcome, e, attempts))]
            /\ delivered' = IF f = "destination" /\ outcome = "ok" THEN delivered \cup {what} ELSE delivered
            /\ failed' = IF f = "destination" /\ Retryable(outcome) THEN failed \cup {what} ELSE failed
            /\ dropped' = IF outcome = "drop" THEN dropped \cup {Pair(slots[s].rec, c)} ELSE dropped
    /\ UNCHANGED <<kafka, feed, queue, status, config, lost, clean, tries>>

(* A faulty variant: errors that will be retried are taken for handled *)
FirstError_Permanent(errors) ==
    SelectSeq(errors, LAMBDA x : ~Retryable(x.name))

(* checkError(): the first error of the log is thrown *)
FirstError(errors) == IF errors = <<>> THEN <<>> ELSE <<Head(errors)>>

CheckError(s, c) ==
    /\ slots[s] # None /\ c \in DOMAIN slots[s].chains
    /\ LET chain == slots[s].chains[c]
           first == FirstError(chain.errors) IN
       /\ chain.pc = "check"
       /\ slots' = [slots EXCEPT ![s].chains[c] = [chain EXCEPT !.pc = IF first = <<>> THEN "done" ELSE "failed", !.errors = first]]
       /\ clean' = IF first = <<>> THEN clean \cup {Pair(slots[s].rec, c)} ELSE clean
    /\ UNCHANGED <<kafka, feed, queue, status, config, delivered, dropped, lost, failed, tries, budget>>

(* getRetryPolicy(): its attempts *)
Attempts(err) ==
    IF ~Retryable(err.name) THEN 0
    ELSE IF err.attempts < RetryCount THEN err.attempts ELSE RetryCount

(* A faulty variant: one attempt too few *)
MayRetry_OneLess(err, retries) == retries + 1 < Attempts(err)

(* retryBackOffTime() *)
MayRetry(err, retries) == retries + 1 <= Attempts(err)

(* A faulty variant: the message is retried for all of its connections *)
Requeued_AllConnections(rec, c, err) ==
    [rec EXCEPT !.func = err.func, !.event = err.event]

(* The message put into the retry or the dead-letter topic *)
Requeued(rec, c, err) ==
    [rec EXCEPT !.conns = {c}, !.func = err.func, !.event = err.event]

(* The catch block of onMessage(); a failing send is only logged *)
Requeue(s, c) ==
    /\ slots[s] # None /\ c \in DOMAIN slots[s].chains /\ slots[s].chains[c].pc = "failed"
    /\ LET chain == slots[s].chains[c]
           err == Head(chain.errors)
           rec == slots[s].rec IN
       \/ /\ IF MayRetry(err, rec.retries)
             THEN retryLog' = Append(retryLog, Requeued(rec, c, err)) /\ UNCHANGED dead
             ELSE /\ dead' = dead \cup {[rec |-> Requeued(rec, c, err), conn |-> c,
                                          name |-> err.name, attempts |-> err.attempts]}
                  /\ UNCHANGED retryLog
          /\ UNCHANGED <<lost, budget>>
       \/ /\ Spend("send")
          /\ lost' = lost \cup {Pair(rec, c)}
          /\ UNCHANGED <<retryLog, dead>>
    /\ slots' = [slots EXCEPT ![s].chains[c] = [@ EXCEPT !.pc = "done", !.errors = <<>>]]
    /\ UNCHANGED <<log, position, stored, committed, feed, queue, status, config,
                   delivered, dropped, clean, failed, tries>>

-----------------------------------------------------------------------------
(* The life of the process.                                                  *)

(* close(): the consumer leaves once its callbacks are over, and commits *)
Disconnect ==
    /\ status = "running" /\ \A p \in Partitions : feed[p] = None
    /\ Spend("close")
    /\ status' = "disconnected" /\ committed' = stored
    /\ UNCHANGED <<log, position, stored, retryLog, dead, feed, queue, slots, config, history>>

(* A faulty variant: the queue is not waited for *)
Idle_Anyway == TRUE

(* queue.onIdle() *)
Idle == queue = <<>> /\ \A s \in Slots : slots[s] = None

(* ... then the queue runs empty, and a new process takes over *)
Restart ==
    /\ status = "disconnected" /\ Idle
    /\ status' = "running" /\ position' = committed /\ stored' = committed
    /\ feed' = [p \in Partitions |-> None] /\ queue' = <<>> /\ slots' = [s \in Slots |-> None]
    /\ UNCHANGED <<log, committed, retryLog, dead, config, history, budget>>

(* Tasks whose messages the group has committed *)
Orphans ==
    {t \in {queue[i] : i \in DOMAIN queue} \cup {[at |-> slots[s].at, rec |-> slots[s].rec] : s \in {x \in Slots : slots[x] # None}} :
        t.at[2] <= committed[t.at[1]]}

(* The process dies; another one starts at the committed offsets *)
Crash ==
    /\ Spend("crash")
    /\ lost' = lost \cup UNION {{Pair(t.rec, c) : c \in t.rec.conns} : t \in Orphans}
    /\ status' = "running" /\ position' = committed /\ stored' = committed
    /\ feed' = [p \in Partitions |-> None] /\ queue' = <<>> /\ slots' = [s \in Slots |-> None]
    /\ UNCHANGED <<log, committed, retryLog, dead, config, delivered, dropped, clean, failed, tries>>

(* The stores are replaced by what the console exports now *)
Reconfigure(c) ==
    /\ Spend("config")
    /\ \E v \in {"absent", "missing", "empty", "functions"} : v # config[c] /\ config' = [config EXCEPT ![c] = v]
    /\ UNCHANGED <<kafka, work, history>>

Rotor ==
    \/ \E p \in Partitions : EachMessage(p) \/ Add(p)
    \/ AutoCommit
    \/ \E s \in Slots : \/ Finish(s)
                        \/ \E c \in Connections : Exec(s, c) \/ CheckError(s, c) \/ Requeue(s, c)
    \/ Restart

Next ==
    \/ \E m \in Messages : Produce(m)
    \/ Redeliver \/ Rotor
    \/ Disconnect \/ Crash
    \/ \E c \in Connections : Reconfigure(c)

Spec == Init /\ [][Next]_vars

(* The consumer polls, the queue works its tasks off, functions answer or time *)
(* out, and bulker's cron runs the retry consumer.                              *)
FairSpec == Spec /\ WF_vars(Rotor) /\ WF_vars(Redeliver)

-----------------------------------------------------------------------------
(* Properties.                                                               *)

(* Records that are still to be handled *)
Unread == UNION {{log[p][i] : i \in (position[p] + 1) .. Len(log[p])} : p \in Partitions}
Fed == {log[p][feed[p].offset] : p \in {q \in Partitions : feed[q] # None}}
Waiting == {queue[i].rec : i \in DOMAIN queue}
Requeues == {retryLog[i] : i \in DOMAIN retryLog}
Open == Unread \cup Fed \cup Waiting \cup Requeues
Working(x) ==
    \E s \in Slots : slots[s] # None /\ slots[s].rec.msg = x[1] /\ x[2] \in DOMAIN slots[s].chains
                     /\ slots[s].chains[x[2]].pc # "done"
Pending(x) == Working(x) \/ \E r \in Open : r.msg = x[1] /\ x[2] \in r.conns

Delivered(x) == \E d \in delivered : d.msg = x[1] /\ d.conn = x[2]
Dead(x) == \E d \in dead : d.rec.msg = x[1] /\ d.conn = x[2]
Settled(x) == Delivered(x) \/ Dead(x) \/ x \in dropped \cup lost

(* Types of the state. *)
TypeOK ==
    /\ \A p \in Partitions : committed[p] <= stored[p] /\ stored[p] <= position[p] /\ position[p] <= Len(log[p])
    /\ \A r \in Open : r.retries \in 0 .. RetryCount /\ r.conns \subseteq Connections /\ r.conns # {}
    /\ status \in {"running", "disconnected"}
    /\ tries \in [Messages \X Connections -> 0 .. (RetryCount + 1)]
    /\ \A s \in Slots : slots[s] # None => \A c \in DOMAIN slots[s].chains :
         slots[s].chains[c].pc \in {"run", "check", "failed", "done"}

(* Of every event and connection the rotor knows what became of it: it is      *)
(* still to be handled, or it was delivered, dropped, dead-lettered - or lost  *)
(* with a process that died after the commit of its offset, a failed send, or  *)
(* an exception of onMessage() outside of its catch.  A shutdown loses nothing. *)
NothingDisappears == \A x \in Produced \X Connections : Pending(x) \/ Settled(x)

(* "so if more than one destination fails - they will be retried              *)
(* independently" (rotor.ts): a connection whose chain ended without an error  *)
(* does not get the event again because another one failed (unless a process  *)
(* died before it committed).                                                  *)
RetriedIndependently ==
    ~budget.crashed => \A x \in clean : ~\E r \in Open : r.msg = x[1] /\ x[2] \in r.conns

(* "When all retry attempts are exhausted, the event is sent to dead-letter    *)
(* storage" (JITSU_FUNCTIONS_PIPELINE.md): and not before.  The attempts are   *)
(* those of the function's own policy, "Cannot exceed" those of the system.     *)
DeadAfterAllAttempts ==
    \A d \in dead : Retryable(d.name) =>
        tries[<<d.rec.msg, d.conn>>] > d.attempts \/ tries[<<d.rec.msg, d.conn>>] > RetryCount

(* "make sure that queue has no more entities than concurrency limit"          *)
(* (rotor.ts).                                                                 *)
QueueWithinLimit == Len(queue) <= Concurrency

(* "Event is sent to retry queue": an event that a destination refused for     *)
(* now is retried, dead-lettered or delivered later, also when it is one of    *)
(* several a user's function made.                                             *)
Kept(x) ==
    LET Same(e) == e.part \in {0, x.event.part} IN
    \/ Working(<<x.msg, x.conn>>)
    \/ \E r \in Open : r.msg = x.msg /\ x.conn \in r.conns /\ Same(r.event)
    \/ \E d \in delivered : d.msg = x.msg /\ d.conn = x.conn /\ d.event.part = x.event.part
    \/ \E d \in dead : d.rec.msg = x.msg /\ d.conn = x.conn /\ Same(d.rec.event)
    \/ <<x.msg, x.conn>> \in lost
FailedEventsKept == \A x \in failed : Kept(x)

(* "Retried events skip already processed steps": a transformation is applied  *)
(* to an event once.                                                           *)
StepsOnce == \A d \in delivered : d.event.transformed <= 1

(* Every event is settled for every connection in the end.                     *)
EventuallySettled == \A x \in Messages \X Connections : x[1] \in Produced ~> Settled(x)
=============================================================================
