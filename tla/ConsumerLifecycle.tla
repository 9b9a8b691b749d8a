-------------------------- MODULE ConsumerLifecycle --------------------------
(***************************************************************************)
(* The life of a batch consumer between and beside its batches.  Cron runs  *)
(* the job; after it, and while a long load lasts, the Kafka consumer is    *)
(* paused and a heartbeat goroutine polls it so that it stays in its group; *)
(* or it is closed until the next run; a retired consumer is closed for     *)
(* good by whoever finds it idle.                                           *)
(*                                                                          *)
(* The job, the callback of the timer of a long load and the heartbeats     *)
(* share the Kafka consumer, atomic flags, a buffered channel (resume) and  *)
(* an unbuffered one (stop).  Polls do not fail and loads succeed here; the *)
(* faults of a batch are in BatchDelivery.                                  *)
(***************************************************************************)
EXTENDS Integers, FiniteSets

CONSTANTS
    MaxMessages,  \* bound: messages of the topic
    BatchSize,
    Suspends      \* SUSPEND_CONSUMERS, and a batch period of more than a minute

ASSUME ConstantsAssumption ==
    MaxMessages \in Nat /\ BatchSize \in Nat \ {0} /\ Suspends \in BOOLEAN

VARIABLES
    end,        \* messages in the topic
    committed,  \* offset of the group: messages up to it count as done
    loaded,     \* messages in the warehouse
    kafka,      \* the Kafka consumer: open (bc.consumer is not nil), assigned, paused, position
    bc,         \* running, extra (extraRunScheduled), retired, idle, paused
    signal,     \* whether resumeChannel holds a signal
    job,        \* RunJob under way
    timer,      \* the callback of pauseTimer
    beat,       \* heartbeats; one may start while another still ends
    raced       \* history: "message" when a heartbeat took a message in the
                \* middle of a batch, "pause" when the pause() after a job
                \* found the flag of a heartbeat that was about to leave

vars == <<end, committed, loaded, kafka, bc, signal, job, timer, beat, raced>>
topic == <<end, committed, loaded>>
shared == <<kafka, bc, signal>>

Messages == 1 .. MaxMessages
Beats == {1, 2}  \* bound: heartbeats at a time
NoJob == [pc |-> "none", high |-> 0, batch |-> {}, count |-> 0, latest |-> 0]
NoBeat == [pc |-> "none", held |-> 0]
NoConsumer == [open |-> FALSE, assigned |-> FALSE, paused |-> FALSE, position |-> 0]

(* The history label is noted when the condition holds *)
Note(label, condition) == raced' = raced \cup {l \in {label} : condition}

Init ==
    /\ end = 0 /\ committed = 0 /\ loaded = {} /\ kafka = NoConsumer
    /\ bc = [running |-> FALSE, extra |-> FALSE, retired |-> FALSE, idle |-> TRUE, paused |-> FALSE]
    /\ signal = FALSE /\ job = NoJob /\ timer = "off" /\ beat = [h \in Beats |-> NoBeat] /\ raced = {}

-----------------------------------------------------------------------------
(* The Kafka consumer.                                                       *)

(* Partitions are assigned by the first poll; rebalanceCallback() pauses them *)
(* when the batch consumer is paused.                                         *)
Join ==
    /\ kafka.open /\ ~kafka.assigned
    /\ kafka' = [kafka EXCEPT !.assigned = TRUE, !.paused = bc.paused, !.position = committed]

(* A poll that returns message m *)
Take(m) ==
    /\ kafka.assigned /\ ~kafka.paused /\ kafka.position < end /\ m = kafka.position + 1
    /\ kafka' = [kafka EXCEPT !.position = m]

(* Pause() and Resume() of the assigned partitions *)
SetPaused(value) == kafka' = [kafka EXCEPT !.paused = IF kafka.assigned THEN value ELSE @]

-----------------------------------------------------------------------------
(* Producers, cron and the topic manager.                                    *)

Produce ==
    /\ end < MaxMessages /\ end' = end + 1
    /\ UNCHANGED <<committed, loaded, shared, job, timer, beat, raced>>

(* RunJob().  The topic manager takes a consumer from cron before it retires *)
(* it; a call that still comes would find it retired and do nothing.          *)
RunJob ==
    /\ ~bc.retired
    /\ IF bc.running THEN bc' = [bc EXCEPT !.extra = TRUE] /\ UNCHANGED job
       ELSE bc' = [bc EXCEPT !.running = TRUE] /\ job' = [NoJob EXCEPT !.pc = "consume"]
    /\ UNCHANGED <<topic, kafka, signal, timer, beat, raced>>

(* Retire() *)
Retire ==
    /\ ~bc.retired /\ bc' = [bc EXCEPT !.retired = TRUE]
    /\ UNCHANGED <<topic, kafka, signal, job, timer, beat, raced>>

-----------------------------------------------------------------------------
(* The job.                                                                  *)

At(pc) == job.pc = pc
Goto(pc) == job' = [job EXCEPT !.pc = pc]

(* ConsumeAll() *)
ConsumeAll ==
    /\ At("consume") /\ Goto(IF bc.retired THEN "again" ELSE "enter")
    /\ UNCHANGED <<topic, shared, timer, beat, raced>>

Enter ==
    /\ At("enter") /\ bc' = [bc EXCEPT !.idle = FALSE] /\ Goto("init")
    /\ UNCHANGED <<topic, kafka, signal, timer, beat, raced>>

(* LeaseDestination() finds none *)
DestinationGone ==
    /\ At("init") /\ bc' = [bc EXCEPT !.retired = TRUE] /\ Goto("again")
    /\ UNCHANGED <<topic, kafka, signal, timer, beat, raced>>

(* initConsumer(false), and shouldConsume() *)
InitConsumer ==
    /\ At("init")
    /\ kafka' = [kafka EXCEPT !.open = TRUE]
    /\ job' = [job EXCEPT !.high = end, !.pc = IF end = 0 \/ committed = end THEN "again" ELSE "batch"]
    /\ UNCHANGED <<topic, bc, signal, timer, beat, raced>>

(* The batch loop is left: retired, or the destination is not what was leased *)
StopBatches ==
    /\ At("batch") /\ Goto("again")
    /\ UNCHANGED <<topic, shared, timer, beat, raced>>

(* resume(), and the batch begins *)
StartBatch ==
    /\ At("batch") /\ ~bc.retired
    /\ job' = [job EXCEPT !.pc = IF bc.paused THEN "signal" ELSE "read", !.batch = {}, !.count = 0, !.latest = 0]
    /\ UNCHANGED <<topic, shared, timer, beat, raced>>

(* No heartbeat comes back to its channels *)
NobodyListens == (\A h \in Beats : beat[h].pc \in {"none", "resumed"}) /\ timer \in {"off", "begin"}

(* The signal fits into the channel, or nobody takes the one that is in it    *)
(* and resume() gives up after KafkaMaxPollIntervalMs                         *)
SendSignal ==
    /\ At("signal")
    /\ \/ ~signal /\ signal' = TRUE /\ Goto("resume")
       \/ signal /\ NobodyListens /\ Goto("read") /\ UNCHANGED signal
    /\ UNCHANGED <<topic, kafka, bc, timer, beat, raced>>

ResumeKafka ==
    /\ At("resume") /\ SetPaused(FALSE) /\ Goto("read")
    /\ UNCHANGED <<topic, bc, signal, timer, beat, raced>>

BatchFull == job.count = BatchSize \/ (job.latest # 0 /\ job.latest >= job.high)

(* processBatchImpl(): the reading loop *)
Read ==
    /\ At("read") /\ ~bc.retired /\ ~BatchFull
    /\ \/ Join /\ UNCHANGED <<job, raced>>
       \/ \E m \in Messages :
            /\ Take(m) /\ Note("message", \E h \in Beats : beat[h].held # 0)
            /\ job' = [job EXCEPT !.batch = @ \cup {m}, !.count = @ + 1, !.latest = m]
    /\ UNCHANGED <<topic, bc, signal, timer, beat>>

(* A poll that times out ends the batch, retirement aborts one that is not full *)
EndReading ==
    /\ At("read")
    /\ Goto(IF job.count = 0 \/ (bc.retired /\ job.count < BatchSize) THEN "again" ELSE "load")
    /\ UNCHANGED <<topic, shared, timer, beat, raced>>

(* Complete() takes longer than half of KafkaMaxPollIntervalMs *)
TimerFires ==
    /\ At("load") /\ timer = "off" /\ timer' = "begin" /\ Goto("longLoad")
    /\ UNCHANGED <<topic, shared, beat, raced>>

Load ==
    /\ At("load") \/ At("longLoad")
    /\ loaded' = loaded \cup job.batch /\ Goto("commit")
    /\ UNCHANGED <<end, committed, shared, timer, beat, raced>>

(* CommitMessage() *)
Commit ==
    /\ At("commit") /\ committed' = job.latest
    /\ Goto(IF job.count = BatchSize THEN "batch" ELSE "again")
    /\ UNCHANGED <<end, loaded, shared, timer, beat, raced>>

(* A faulty variant: extraRunScheduled is not looked at *)
Again_Once ==
    /\ At("again") /\ timer = "off"
    /\ job' = [NoJob EXCEPT !.pc = "leave"] /\ bc' = [bc EXCEPT !.idle = TRUE]
    /\ UNCHANGED <<topic, kafka, signal, timer, beat, raced>>

(* The loop over extraRunScheduled.  The callback of the timer does not       *)
(* outlast the job: it has a commit and a query of the watermark to finish.   *)
Again ==
    /\ At("again")
    /\ IF bc.extra
       THEN job' = [NoJob EXCEPT !.pc = "consume"] /\ bc' = [bc EXCEPT !.extra = FALSE]
       ELSE timer = "off" /\ job' = [NoJob EXCEPT !.pc = "leave"] /\ bc' = [bc EXCEPT !.idle = TRUE]
    /\ UNCHANGED <<topic, kafka, signal, timer, beat, raced>>

(* pauseOrSuspend() *)
PauseOrSuspend ==
    /\ At("leave")
    /\ \/ bc.retired /\ Goto("done") /\ kafka' = NoConsumer
       \/ ~bc.retired /\ ~kafka.open /\ Goto("done") /\ UNCHANGED kafka
       \/ ~bc.retired /\ kafka.open /\ Suspends /\ Goto("unpause") /\ UNCHANGED kafka
       \/ ~bc.retired /\ kafka.open /\ Goto("begin") /\ UNCHANGED kafka  \* the next run is near
    /\ UNCHANGED <<topic, bc, signal, timer, beat, raced>>

(* A faulty variant: the stop signal is left in a buffer *)
Unpause_Buffered ==
    /\ At("unpause") /\ Goto("close")
    /\ UNCHANGED <<topic, shared, timer, beat, raced>>

(* _unpause(): nothing to stop, or nobody receives until the timeout *)
Unpause ==
    /\ At("unpause") /\ Goto("close")
    /\ ~bc.paused \/ NobodyListens
    /\ UNCHANGED <<topic, shared, timer, beat, raced>>

Suspend ==
    /\ At("close") /\ kafka' = NoConsumer /\ Goto("done")
    /\ UNCHANGED <<topic, bc, signal, timer, beat, raced>>

EndJob ==
    /\ At("done") /\ bc' = [bc EXCEPT !.running = FALSE] /\ job' = NoJob
    /\ UNCHANGED <<topic, kafka, signal, timer, beat, raced>>

-----------------------------------------------------------------------------
(* pause(), called by the job and by the timer.                              *)

Callers == {"job", "timer"}
PcOf(caller) == IF caller = "job" THEN job.pc ELSE timer
Advance(caller, pc) ==
    IF caller = "job" THEN Goto(pc) /\ UNCHANGED timer
    ELSE timer' = (IF pc = "done" THEN "off" ELSE pc) /\ UNCHANGED job

(* paused.CompareAndSwap(false, true) *)
PauseOnce(caller) ==
    /\ PcOf(caller) = "begin"
    /\ Advance(caller, IF bc.paused THEN "done" ELSE "drain")
    /\ bc' = [bc EXCEPT !.paused = TRUE]
    /\ Note("pause", bc.paused /\ caller = "job" /\ signal)
    /\ UNCHANGED <<topic, kafka, signal, beat>>

(* A faulty variant: a signal of the cycle before stays in the channel *)
DrainSignal_Not(caller) ==
    /\ PcOf(caller) = "drain" /\ Advance(caller, "start")
    /\ UNCHANGED <<topic, shared, beat, raced>>

(* A stale signal is taken out of the channel *)
DrainSignal(caller) ==
    /\ PcOf(caller) = "drain" /\ signal' = FALSE /\ Advance(caller, "start")
    /\ UNCHANGED <<topic, kafka, bc, beat, raced>>

(* pauseKafkaConsumer(), and the heartbeat starts; the timer's polls at once *)
StartBeat(caller) ==
    /\ PcOf(caller) = "start" /\ SetPaused(TRUE) /\ Advance(caller, "done")
    /\ \E h \in Beats :
        /\ beat[h] = NoBeat /\ \A g \in Beats : g < h => beat[g] # NoBeat
        /\ beat' = [beat EXCEPT ![h] = [NoBeat EXCEPT !.pc = IF caller = "timer" THEN "first" ELSE "check"]]
    /\ UNCHANGED <<topic, bc, signal, raced>>

-----------------------------------------------------------------------------
(* The heartbeat.                                                            *)

BeatAt(h, pc) == beat[h].pc = pc
BeatTo(h, pc) == beat' = [beat EXCEPT ![h] = [NoBeat EXCEPT !.pc = pc]]
Poll == IF kafka.open THEN "read" ELSE "check"

(* Faulty variants: a heartbeat closes a consumer whose job is at work, or none *)
Check_NotIdle(h) ==
    /\ beat[h].pc \in {"first", "check"}
    /\ BeatTo(h, IF bc.retired THEN "close" ELSE IF BeatAt(h, "first") THEN Poll ELSE "wait")
    /\ UNCHANGED <<topic, shared, job, timer, raced>>

Check_KeepsRetired(h) ==
    /\ beat[h].pc \in {"first", "check"}
    /\ BeatTo(h, IF BeatAt(h, "first") THEN Poll ELSE "wait")
    /\ UNCHANGED <<topic, shared, job, timer, raced>>

(* The head of the loop *)
Check(h) ==
    /\ beat[h].pc \in {"first", "check"}
    /\ BeatTo(h, IF bc.idle /\ bc.retired THEN "close" ELSE IF BeatAt(h, "first") THEN Poll ELSE "wait")
    /\ UNCHANGED <<topic, shared, job, timer, raced>>

(* A retired consumer closes itself *)
CloseRetired(h) ==
    /\ BeatAt(h, "close") /\ kafka' = NoConsumer /\ BeatTo(h, "none")
    /\ UNCHANGED <<topic, bc, signal, job, timer, raced>>

(* <-resumeChannel *)
TakeSignal(h) ==
    /\ BeatAt(h, "wait") /\ signal /\ signal' = FALSE
    /\ bc' = [bc EXCEPT !.paused = FALSE] /\ BeatTo(h, "resumed")
    /\ UNCHANGED <<topic, kafka, job, timer, raced>>

ResumeAgain(h) ==
    /\ BeatAt(h, "resumed") /\ SetPaused(FALSE) /\ BeatTo(h, "none")
    /\ UNCHANGED <<topic, bc, signal, job, timer, raced>>

(* <-stopChannel: the job is sending in _unpause() *)
StopBeat(h) ==
    /\ BeatAt(h, "wait") /\ At("unpause") /\ bc.paused /\ Goto("close")
    /\ bc' = [bc EXCEPT !.paused = FALSE] /\ BeatTo(h, "none")
    /\ UNCHANGED <<topic, kafka, signal, timer, raced>>

(* <-pauseTicker.C *)
Tick(h) ==
    /\ BeatAt(h, "wait") /\ BeatTo(h, Poll)
    /\ UNCHANGED <<topic, shared, job, timer, raced>>

(* ReadMessage() *)
ReadPaused(h) ==
    /\ BeatAt(h, "read")
    /\ \/ Join /\ UNCHANGED <<beat, raced>>
       \/ \E m \in Messages :
            /\ Take(m) /\ Note("message", job.batch # {})
            /\ beat' = [beat EXCEPT ![h] = [pc |-> "seek", held |-> m]]
       \/ BeatTo(h, "check") /\ UNCHANGED <<kafka, raced>>  \* the rule: it times out
    /\ UNCHANGED <<topic, bc, signal, job, timer>>

(* A faulty variant: back to behind the message *)
SeekBack_Behind(h) ==
    /\ BeatAt(h, "seek") /\ BeatTo(h, "repause")
    /\ kafka' = IF kafka.open THEN [kafka EXCEPT !.position = beat[h].held] ELSE kafka
    /\ UNCHANGED <<topic, bc, signal, job, timer, raced>>

(* A message slipped through: SeekPartitions() ... *)
SeekBack(h) ==
    /\ BeatAt(h, "seek") /\ BeatTo(h, "repause")
    /\ kafka' = IF kafka.open THEN [kafka EXCEPT !.position = beat[h].held - 1] ELSE kafka
    /\ UNCHANGED <<topic, bc, signal, job, timer, raced>>

(* ... and pauseKafkaConsumer() *)
PauseAgain(h) ==
    /\ BeatAt(h, "repause") /\ SetPaused(TRUE) /\ BeatTo(h, "check")
    /\ UNCHANGED <<topic, bc, signal, job, timer, raced>>

-----------------------------------------------------------------------------

Job ==
    \/ ConsumeAll \/ Enter \/ InitConsumer \/ StartBatch \/ SendSignal \/ ResumeKafka \/ Read \/ EndReading
    \/ Load \/ Commit \/ Again \/ PauseOrSuspend \/ Unpause \/ Suspend \/ EndJob
    \/ PauseOnce("job") \/ DrainSignal("job") \/ StartBeat("job")

Timer == PauseOnce("timer") \/ DrainSignal("timer") \/ StartBeat("timer")

Beat(h) ==
    \/ Check(h) \/ CloseRetired(h) \/ TakeSignal(h) \/ ResumeAgain(h) \/ StopBeat(h) \/ Tick(h)
    \/ ReadPaused(h) \/ SeekBack(h) \/ PauseAgain(h)

Next ==
    \/ Produce \/ RunJob \/ Retire \/ DestinationGone \/ StopBatches \/ TimerFires
    \/ Job \/ Timer \/ \E h \in Beats : Beat(h)

Spec == Init /\ [][Next]_vars

(* Cron calls until the consumer is retired, every goroutine runs, and a      *)
(* select takes a channel that is ready again and again.                      *)
FairSpec ==
    /\ Spec
    /\ WF_vars(RunJob /\ ~bc.running) /\ WF_vars(Job) /\ WF_vars(Timer) /\ WF_vars(StopBatches /\ bc.retired)
    /\ \A h \in Beats : WF_vars(Beat(h)) /\ SF_vars(TakeSignal(h)) /\ SF_vars(StopBeat(h))

-----------------------------------------------------------------------------
(* Properties.                                                               *)

(* Types of the state. *)
TypeOK ==
    /\ end \in 0 .. MaxMessages /\ committed \in 0 .. end /\ loaded \subseteq 1 .. end
    /\ kafka \in [open : BOOLEAN, assigned : BOOLEAN, paused : BOOLEAN, position : 0 .. MaxMessages]
    /\ bc \in [running : BOOLEAN, extra : BOOLEAN, retired : BOOLEAN, idle : BOOLEAN, paused : BOOLEAN]
    /\ signal \in BOOLEAN /\ raced \subseteq {"message", "pause"}
    /\ \A h \in Beats : beat[h].held \in 0 .. MaxMessages

(* Every message up to the offset of the group is in the warehouse. *)
NothingSkipped == 1 .. committed \subseteq loaded

(* Polls of heartbeats and batches share one consumer, and a heartbeat sets   *)
(* back what it takes: CommitMessage() passes no message that is not loaded,  *)
(* unless a heartbeat took a message in the middle of a batch.  (resume()     *)
(* does not wait for the heartbeat to leave ReadMessage(), so it may.)        *)
SkippedOnlyBeside == "message" \notin raced => NothingSkipped

(* A job that is at work on batches has a Kafka consumer: neither a heartbeat *)
(* that closes a retired consumer nor pauseOrSuspend() takes it away.         *)
JobHasConsumer ==
    job.pc \in {"signal", "resume", "read", "load", "longLoad", "commit", "drain", "start"} => kafka.open

(* Between jobs an open consumer has a heartbeat that keeps it in the group,  *)
(* unless pause() took the flag of a heartbeat with a signal to leave for its *)
(* own.                                                                       *)
Attended == kafka.open /\ ~bc.running /\ "pause" \notin raced => \E h \in Beats : beat[h].pc # "none"

(* The rendezvous of _unpause() does what its comment says: the consumer is   *)
(* suspended while no heartbeat is between ReadMessage() and the end of its   *)
(* iteration.                                                                 *)
SuspendsQuietly ==
    [][At("close") /\ ~At("close")' => \A h \in Beats : beat[h].pc \notin {"read", "seek", "repause"}]_vars

(* A retired consumer is closed in the end, by its job or by its heartbeat,   *)
(* with the same exception as in Attended.                                    *)
RetiredCloses == bc.retired ~> (~kafka.open \/ "pause" \in raced)

(* A call of RunJob() during a job is answered by one more ConsumeAll(), if   *)
(* only by the next job when it came after the last look at                   *)
(* extraRunScheduled.                                                         *)
ExtraRuns == bc.extra ~> (~bc.extra \/ bc.retired)

(* A retired consumer is closed in the end, without exception. *)
RetiredAlwaysCloses == bc.retired ~> ~kafka.open
=============================================================================
