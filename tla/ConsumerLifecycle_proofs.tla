----------------------- MODULE ConsumerLifecycle_proofs -----------------------
(***************************************************************************)
(* Proofs about ConsumerLifecycle, for topics and batches of any size: the  *)
(* type invariant; that a job at work has a Kafka consumer and a consumer    *)
(* between jobs a heartbeat; that a consumer is suspended quietly; and that   *)
(* no message is skipped unless a heartbeat took one in the middle of a batch. *)
(***************************************************************************)
EXTENDS ConsumerLifecycle, TLAPS

(* Where the job, the callback of the timer and a heartbeat may be. *)
Working == {"signal", "resume", "read", "load", "longLoad", "commit"}
Entering == {"consume", "enter", "init", "batch", "again"}
Leaving == {"leave", "unpause", "close", "begin", "drain", "start", "done"}
JobPlaces == {"none"} \cup Entering \cup Working \cup Leaving
TimerPlaces == {"off", "begin", "drain", "start"}
BeatPlaces == {"none", "first", "check", "wait", "close", "resumed", "read", "seek", "repause"}

(* Types of the records. *)
Kafkas == [open : BOOLEAN, assigned : BOOLEAN, paused : BOOLEAN, position : 0 .. MaxMessages]
Flags == [running : BOOLEAN, extra : BOOLEAN, retired : BOOLEAN, idle : BOOLEAN, paused : BOOLEAN]
Jobs == [pc : JobPlaces, high : Nat, batch : SUBSET Messages, count : Nat, latest : Nat]
BeatStates == [pc : BeatPlaces, held : 0 .. MaxMessages]

(* TypeOK, with the places, and what it takes to be inductive: only messages *)
(* that were produced are in a batch, or held by a heartbeat.                 *)
TopicType == end \in 0 .. MaxMessages /\ committed \in 0 .. end /\ loaded \subseteq 1 .. end
KafkaType == kafka \in Kafkas /\ kafka.position <= end
JobType == job \in Jobs /\ job.batch \subseteq 1 .. end /\ job.latest <= end
BcType == bc \in Flags
SmallType == signal \in BOOLEAN /\ raced \subseteq {"message", "pause"} /\ timer \in TimerPlaces
BeatType ==
    /\ beat \in [Beats -> BeatStates]
    /\ \A h \in Beats : beat[h].held <= end /\ (beat[h].pc = "seek" => beat[h].held # 0)
TypeInv == TopicType /\ KafkaType /\ JobType /\ BcType /\ SmallType /\ BeatType

(* A heartbeat that will come back to its channels, and a pause() under way   *)
(* that will start one.                                                       *)
Listening(h) == beat[h].pc \notin {"none", "resumed"}
Starting == job.pc \in {"drain", "start"} \/ timer \in {"drain", "start"}

(* The callback of the timer belongs to a job that has not left its loop. *)
TimerInv == timer # "off" => job.pc \in Entering \cup Working

(* The flag paused belongs to one heartbeat, or to the pause() that starts it. *)
PausedInv ==
    /\ \A g, h \in Beats : Listening(g) /\ Listening(h) => g = h
    /\ \A h \in Beats : Listening(h) => bc.paused /\ ~Starting
    /\ Starting => bc.paused

(* Who closes a consumer has seen it retired, and no job at work. *)
CloseInv ==
    /\ \A h \in Beats : beat[h].pc = "close" => bc.retired /\ job.pc \notin Working
    /\ job.pc \in Working \cup {"init", "batch"} => ~bc.idle

(* When the Kafka consumer is open. *)
OpenInv ==
    /\ job.pc \in Working \cup {"drain", "start"} => kafka.open
    /\ job.pc = "batch" => kafka.open \/ bc.retired
    /\ job.pc = "begin" => kafka.open \/ (bc.paused /\ \A h \in Beats : ~Listening(h))
    /\ kafka.assigned => kafka.open
    /\ (bc.paused \/ timer # "off") /\ ~kafka.open => bc.retired

(* The flag of an open consumer has its heartbeat, except while a job of a   *)
(* retired consumer is about to give up.                                      *)
HeardInv ==
    bc.paused /\ kafka.open /\ ~Starting =>
        (\E h \in Beats : Listening(h)) \/ (bc.retired /\ job.pc \in Entering \cup {"leave"})

(* A consumer left open after its job has a heartbeat that no signal will    *)
(* send away.                                                                 *)
LeftInv ==
    /\ bc.running <=> job.pc # "none"
    /\ job.pc = "start" => ~signal
    /\ job.pc \in {"done", "none"} /\ kafka.open /\ "pause" \notin raced
            => ~signal /\ \E h \in Beats : Listening(h)

(* A consumer about to be suspended has no heartbeat. *)
QuietInv == job.pc = "close" => (bc.paused => bc.retired) /\ \A h \in Beats : ~Listening(h)

ControlInv == TimerInv /\ PausedInv /\ CloseInv /\ OpenInv /\ HeardInv /\ LeftInv /\ QuietInv

(* A heartbeat holds the message the consumer has just returned to it; a      *)
(* batch is not empty when it is loaded, and its messages are in the           *)
(* warehouse afterwards, unless retirement aborted it.                         *)
HeldInv ==
    /\ \A h \in Beats : beat[h].held # 0 <=> beat[h].pc = "seek"
    /\ \A h \in Beats : beat[h].held # 0 =>
          \/ kafka.assigned /\ ("message" \notin raced => kafka.position = beat[h].held)
          \/ bc.retired /\ job.pc \in {"done", "none"}
    /\ job.count = 0 <=> job.batch = {}
    /\ job.pc \in {"load", "longLoad", "commit"} => job.batch # {}
    /\ job.pc = "commit" \/ (~bc.retired /\ job.pc \notin {"read", "load", "longLoad"}) => job.batch \subseteq loaded

(* As long as no heartbeat took a message in the middle of a batch: what is   *)
(* committed is loaded; what the consumer has passed is loaded, in the batch   *)
(* or held by a heartbeat; and a batch that has begun ends where the consumer  *)
(* stands.                                                                     *)
PassedInv ==
    "message" \notin raced =>
        /\ NothingSkipped
        /\ kafka.assigned /\ (~bc.retired \/ job.pc \in Working) =>
              \A m \in 1 .. kafka.position : m \in loaded \cup job.batch \/ \E h \in Beats : m = beat[h].held
        /\ job.batch # {} => \A h \in Beats : beat[h].held = 0
        /\ job.batch # {} /\ job.pc \in Working => kafka.assigned /\ job.latest = kafka.position

DataInv == HeldInv /\ PassedInv

-----------------------------------------------------------------------------
(* What the operators on the shared records do, field by field.               *)

(* A part of the state that a step leaves alone keeps its type. *)
LEMMA Kept ==
    ASSUME TypeInv, end' = end
    PROVE  /\ UNCHANGED topic => TopicType'
           /\ UNCHANGED kafka => KafkaType'
           /\ UNCHANGED job => JobType'
           /\ UNCHANGED bc => BcType'
           /\ UNCHANGED <<signal, raced, timer>> => SmallType'
           /\ UNCHANGED beat => BeatType'
BY DEF TypeInv, TopicType, KafkaType, JobType, BcType, SmallType, BeatType, topic

(* Goto() moves the job and keeps its batch. *)
LEMMA GotoFields ==
    ASSUME TypeInv, end' = end, NEW pc \in JobPlaces, Goto(pc)
    PROVE  /\ JobType' /\ job'.pc = pc
           /\ job'.high = job.high /\ job'.batch = job.batch /\ job'.count = job.count /\ job'.latest = job.latest
BY DEF Goto, Jobs, TypeInv, JobType

(* BeatTo() moves one heartbeat, which then holds no message. *)
LEMMA BeatToFields ==
    ASSUME TypeInv, end' = end, NEW h \in Beats, NEW pc \in BeatPlaces \ {"seek"}, BeatTo(h, pc)
    PROVE  /\ BeatType' /\ beat'[h].pc = pc /\ beat'[h].held = 0
           /\ \A g \in Beats : g # h => beat'[g] = beat[g]
<1>1. /\ beat' \in [Beats -> BeatStates] /\ beat'[h].pc = pc /\ beat'[h].held = 0
      /\ \A g \in Beats : g # h => beat'[g] = beat[g]
  BY ConstantsAssumption DEF BeatTo, NoBeat, BeatStates, TypeInv, BeatType
<1>2. QED
  BY <1>1 DEF TypeInv, BeatType, TopicType

(* SetPaused() touches nothing but the flag of the partitions. *)
LEMMA SetPausedFields ==
    ASSUME TypeInv, end' = end, NEW v \in BOOLEAN, SetPaused(v)
    PROVE  /\ KafkaType' /\ kafka'.open = kafka.open /\ kafka'.assigned = kafka.assigned
           /\ kafka'.position = kafka.position
BY DEF SetPaused, Kafkas, TypeInv, KafkaType

(* A poll that joins the group starts from the committed offset. *)
LEMMA JoinFields ==
    ASSUME TypeInv, end' = end, Join
    PROVE  /\ KafkaType' /\ kafka.open /\ ~kafka.assigned
           /\ kafka'.open /\ kafka'.assigned /\ kafka'.position = committed
<1>1. kafka \in Kafkas /\ bc.paused \in BOOLEAN /\ committed \in 0 .. MaxMessages /\ committed <= end
  BY ConstantsAssumption DEF TypeInv, KafkaType, TopicType, BcType, Flags
<1>2. /\ kafka' \in Kafkas /\ kafka.open /\ ~kafka.assigned
      /\ kafka'.open /\ kafka'.assigned /\ kafka'.position = committed
  BY <1>1 DEF Join, Kafkas
<1>3. QED
  BY <1>1, <1>2 DEF KafkaType

(* A poll that returns a message passes that one only. *)
LEMMA TakeFields ==
    ASSUME TypeInv, end' = end, NEW m \in Messages, Take(m)
    PROVE  /\ KafkaType' /\ kafka.assigned /\ kafka'.assigned /\ kafka'.open = kafka.open
           /\ m = kafka.position + 1 /\ m \in 1 .. end /\ kafka'.position = m
BY ConstantsAssumption DEF Take, Kafkas, Messages, TypeInv, KafkaType, TopicType

(* The two cases of a poll of the batch loop. *)
ReadOne(m) ==
    /\ Take(m) /\ Note("message", \E h \in Beats : beat[h].held # 0)
    /\ job' = [job EXCEPT !.batch = @ \cup {m}, !.count = @ + 1, !.latest = m]

(* A poll of the batch loop joins the group or returns a message. *)
LEMMA ReadCases ==
    ASSUME Read
    PROVE  \/ Join /\ UNCHANGED <<job, raced>>
           \/ \E m \in Messages : ReadOne(m)
BY Zenon DEF Read, ReadOne

(* A message that is read is the last one of the batch. *)
LEMMA ReadOneFields ==
    ASSUME TypeInv, end' = end, NEW m \in Messages, ReadOne(m)
    PROVE  /\ KafkaType' /\ JobType' /\ kafka.assigned /\ kafka'.assigned /\ kafka'.open = kafka.open
           /\ m = kafka.position + 1 /\ m \in 1 .. end /\ kafka'.position = m
           /\ job'.pc = job.pc /\ job'.batch = job.batch \cup {m} /\ job'.count = job.count + 1 /\ job'.latest = m
<1>1. /\ KafkaType' /\ kafka.assigned /\ kafka'.assigned /\ kafka'.open = kafka.open
      /\ m = kafka.position + 1 /\ m \in 1 .. end /\ kafka'.position = m
  BY TakeFields DEF ReadOne
<1>2. /\ job \in Jobs /\ job.batch \subseteq 1 .. end /\ end \in Nat
      /\ job.batch \cup {m} \in SUBSET Messages /\ job.count + 1 \in Nat /\ m \in Nat
  BY <1>1, ConstantsAssumption DEF TypeInv, JobType, TopicType, Jobs, Messages
<1>3. job' = [job EXCEPT !.batch = job.batch \cup {m}, !.count = job.count + 1, !.latest = m]
  BY Zenon DEF ReadOne
<1>4. job'.pc = job.pc /\ job'.batch = job.batch \cup {m} /\ job'.count = job.count + 1 /\ job'.latest = m
  BY <1>2, <1>3 DEF Jobs
<1>5. job' \in Jobs
  BY <1>2, <1>3 DEF Jobs
<1>6. QED
  BY <1>1, <1>2, <1>4, <1>5 DEF JobType

(* The cases of a poll of a heartbeat. *)
HoldOne(h, m) ==
    /\ Take(m) /\ Note("message", job.batch # {})
    /\ beat' = [beat EXCEPT ![h] = [pc |-> "seek", held |-> m]]

(* A poll of a heartbeat joins the group, returns a message or times out. *)
LEMMA ReadPausedCases ==
    ASSUME NEW h \in Beats, ReadPaused(h)
    PROVE  \/ Join /\ UNCHANGED <<beat, raced>>
           \/ \E m \in Messages : HoldOne(h, m)
           \/ BeatTo(h, "check") /\ UNCHANGED <<kafka, raced>>
BY Zenon DEF ReadPaused, HoldOne

(* A heartbeat that takes a message holds it. *)
LEMMA HoldFields ==
    ASSUME TypeInv, end' = end, NEW h \in Beats, NEW m \in Messages, m <= end,
           beat' = [beat EXCEPT ![h] = [pc |-> "seek", held |-> m]]
    PROVE  /\ BeatType' /\ beat'[h].pc = "seek" /\ beat'[h].held = m
           /\ \A g \in Beats : g # h => beat'[g] = beat[g]
<1>1. m \in 0 .. MaxMessages /\ m # 0
  BY ConstantsAssumption DEF Messages
<1>2. /\ beat' \in [Beats -> BeatStates] /\ beat'[h].pc = "seek" /\ beat'[h].held = m
      /\ \A g \in Beats : g # h => beat'[g] = beat[g]
  BY <1>1 DEF BeatStates, BeatPlaces, TypeInv, BeatType
<1>3. QED
  BY <1>1, <1>2 DEF TypeInv, BeatType

(* A heartbeat that takes a message sets the consumer back to it. *)
LEMMA SeekBackFields ==
    ASSUME TypeInv, end' = end, NEW h \in Beats, SeekBack(h)
    PROVE  /\ KafkaType' /\ kafka'.open = kafka.open /\ kafka'.assigned = kafka.assigned
           /\ beat[h].held \in 1 .. end
           /\ IF kafka.open THEN kafka'.position = beat[h].held - 1 ELSE kafka'.position = kafka.position
<1>1. beat[h].held \in 1 .. end /\ beat[h].held \in 1 .. MaxMessages /\ end \in Nat /\ kafka \in Kafkas
  BY ConstantsAssumption DEF SeekBack, BeatAt, TypeInv, KafkaType, BeatType, BeatStates, TopicType
<1>2. CASE kafka.open
  <2>1. kafka' = [kafka EXCEPT !.position = beat[h].held - 1] /\ beat[h].held - 1 \in 0 .. MaxMessages
    BY <1>1, <1>2, ConstantsAssumption DEF SeekBack
  <2>2. /\ kafka' \in Kafkas /\ kafka'.open = kafka.open /\ kafka'.assigned = kafka.assigned
        /\ kafka'.position = beat[h].held - 1
    BY <1>1, <2>1 DEF Kafkas
  <2>3. QED
    BY <1>1, <1>2, <2>2 DEF KafkaType
<1>3. CASE ~kafka.open
  BY <1>1, <1>3, Kept DEF SeekBack
<1>4. QED
  BY <1>2, <1>3

(* A closed consumer has no partitions. *)
LEMMA ClosedFields ==
    ASSUME TypeInv, end' = end, kafka' = NoConsumer
    PROVE  KafkaType' /\ ~kafka'.open /\ ~kafka'.assigned
BY ConstantsAssumption DEF NoConsumer, Kafkas, TypeInv, KafkaType, TopicType

(* A job that begins or ends has no batch. *)
LEMMA NewJobFields ==
    ASSUME TypeInv, end' = end, NEW pc \in JobPlaces, job' = [NoJob EXCEPT !.pc = pc]
    PROVE  JobType' /\ job'.pc = pc /\ job'.batch = {} /\ job'.count = 0
<1>1. [NoJob EXCEPT !.pc = pc] = [pc |-> pc, high |-> 0, batch |-> {}, count |-> 0, latest |-> 0]
  BY DEF NoJob
<1>2. QED
  BY <1>1, ConstantsAssumption DEF Jobs, TypeInv, JobType, TopicType

(* pause() advances its caller and nobody else. *)
LEMMA AdvanceFields ==
    ASSUME TypeInv, end' = end, NEW c \in Callers, NEW pc \in {"done", "drain", "start"}, Advance(c, pc)
    PROVE  /\ JobType' /\ timer' \in TimerPlaces
           /\ job'.batch = job.batch /\ job'.count = job.count /\ job'.latest = job.latest
           /\ c = "job" => job'.pc = pc /\ timer' = timer
           /\ c = "timer" => job'.pc = job.pc /\ timer' = IF pc = "done" THEN "off" ELSE pc
<1>1. CASE c = "job"
  <2>1. Goto(pc) /\ timer' = timer
    BY <1>1 DEF Advance
  <2>2. pc \in JobPlaces /\ timer \in TimerPlaces
    BY DEF JobPlaces, Leaving, TypeInv, SmallType
  <2>3. QED
    BY <1>1, <2>1, <2>2, GotoFields
<1>2. CASE c = "timer"
  BY <1>2, Kept DEF Advance, TimerPlaces
<1>3. QED
  BY <1>1, <1>2 DEF Callers

-----------------------------------------------------------------------------
(* The type invariant holds initially. *)
LEMMA TypeInit == Init => TypeInv
<1> SUFFICES ASSUME Init PROVE TypeInv
  OBVIOUS
<1>1. TopicType
  BY ConstantsAssumption DEF Init, TopicType
<1>2. BcType
  BY DEF Init, Flags, BcType
<1>3. SmallType
  BY DEF Init, SmallType, TimerPlaces
<1>4. KafkaType
  BY ConstantsAssumption DEF Init, KafkaType, Kafkas, NoConsumer
<1>5. JobType
  BY ConstantsAssumption DEF Init, JobType, Jobs, NoJob, JobPlaces
<1>6. BeatType
  BY ConstantsAssumption DEF Init, BeatType, BeatStates, NoBeat, BeatPlaces
<1>7. QED
  BY <1>1, <1>2, <1>3, <1>4, <1>5, <1>6 DEF TypeInv

(* The type invariant is preserved by every step. *)
LEMMA TypeStep == TypeInv /\ [Next]_vars => TypeInv'
<1> SUFFICES ASSUME TypeInv, [Next]_vars PROVE TypeInv'
  OBVIOUS
<1> USE DEF TypeInv, topic, shared
<1>1. CASE Produce
  BY <1>1, ConstantsAssumption DEF Produce, TopicType, KafkaType, JobType, BcType, SmallType, BeatType, Kafkas,
     Jobs, BeatStates
<1>2. CASE RunJob
  <2>1. BcType'
    BY <1>2 DEF RunJob, Flags, BcType
  <2>2. JobType'
    BY <1>2, NewJobFields, Kept DEF RunJob, JobPlaces, Entering
  <2>3. QED
    BY <1>2, <2>1, <2>2, Kept DEF RunJob
<1>3. CASE Retire
  <2>1. BcType'
    BY <1>3 DEF Retire, Flags, BcType
  <2>2. QED
    BY <1>3, <2>1, Kept DEF Retire
<1>4. CASE DestinationGone
  <2>1. BcType'
    BY <1>4 DEF DestinationGone, Flags, BcType
  <2>2. QED
    BY <1>4, <2>1, Kept, GotoFields DEF DestinationGone, JobPlaces, Entering
<1>5. CASE StopBatches
  BY <1>5, Kept, GotoFields DEF StopBatches, JobPlaces, Entering
<1>6. CASE TimerFires
  BY <1>6, Kept, GotoFields DEF TimerFires, JobPlaces, Working, TimerPlaces, SmallType
<1>7. CASE ConsumeAll
  BY <1>7, Kept, GotoFields DEF ConsumeAll, JobPlaces, Entering
<1>8. CASE Enter
  <2>1. BcType'
    BY <1>8 DEF Enter, Flags, BcType
  <2>2. QED
    BY <1>8, <2>1, Kept, GotoFields DEF Enter, JobPlaces, Entering
<1>9. CASE InitConsumer
  <2>1. KafkaType'
    BY <1>9 DEF InitConsumer, KafkaType, Kafkas
  <2>2. JobType'
    <3>1. PICK pc \in JobPlaces : job' = [job EXCEPT !.high = end, !.pc = pc]
      BY <1>9 DEF InitConsumer, JobPlaces, Entering
    <3>2. job \in Jobs /\ end \in Nat /\ end' = end
      BY <1>9 DEF InitConsumer, JobType, TopicType
    <3>3. job' \in Jobs /\ job'.batch = job.batch /\ job'.latest = job.latest
      BY <3>1, <3>2 DEF Jobs
    <3>4. QED
      BY <3>2, <3>3 DEF JobType
  <2>3. QED
    BY <1>9, <2>1, <2>2, Kept DEF InitConsumer
<1>10. CASE StartBatch
  <2>1. JobType'
    <3>1. PICK pc \in JobPlaces : job' = [job EXCEPT !.pc = pc, !.batch = {}, !.count = 0, !.latest = 0]
      BY <1>10 DEF StartBatch, JobPlaces, Working
    <3>2. job \in Jobs /\ end \in Nat /\ end' = end
      BY <1>10 DEF StartBatch, JobType, TopicType
    <3>3. job' \in Jobs /\ job'.batch = {} /\ job'.latest = 0
      BY <3>1, <3>2 DEF Jobs
    <3>4. QED
      BY <3>2, <3>3 DEF JobType
  <2>2. QED
    BY <1>10, <2>1, Kept DEF StartBatch
<1>11. CASE SendSignal
  <2>1. SmallType' /\ JobType'
    BY <1>11, GotoFields DEF SendSignal, SmallType, JobPlaces, Working
  <2>2. QED
    BY <1>11, <2>1, Kept DEF SendSignal
<1>12. CASE ResumeKafka
  BY <1>12, Kept, GotoFields, SetPausedFields DEF ResumeKafka, JobPlaces, Working
<1>13. CASE Read
  <2>1. end' = end /\ UNCHANGED <<topic, bc, signal, timer, beat>>
    BY <1>13 DEF Read
  <2>2. CASE Join /\ UNCHANGED <<job, raced>>
    BY <2>1, <2>2, Kept, JoinFields
  <2>3. CASE \E m \in Messages : ReadOne(m)
    <3>1. PICK m \in Messages : ReadOne(m)
      BY <2>3
    <3>2. KafkaType' /\ JobType'
      BY <2>1, <3>1, ReadOneFields
    <3>3. SmallType'
      BY <2>1, <3>1 DEF ReadOne, Note, SmallType
    <3>4. QED
      BY <2>1, <3>2, <3>3, Kept
  <2>4. QED
    BY <1>13, <2>2, <2>3, ReadCases
<1>14. CASE EndReading
  BY <1>14, Kept, GotoFields DEF EndReading, JobPlaces, Entering, Working
<1>15. CASE Load
  <2>1. TopicType'
    BY <1>15 DEF Load, TopicType, JobType
  <2>2. QED
    BY <1>15, <2>1, Kept, GotoFields DEF Load, JobPlaces, Working
<1>16. CASE Commit
  <2>1. TopicType'
    BY <1>16 DEF Commit, TopicType, JobType, Jobs
  <2>2. QED
    BY <1>16, <2>1, Kept, GotoFields DEF Commit, JobPlaces, Entering
<1>17. CASE Again
  <2>1. JobType'
    BY <1>17, NewJobFields DEF Again, JobPlaces, Entering, Leaving
  <2>2. BcType'
    BY <1>17 DEF Again, Flags, BcType
  <2>3. QED
    BY <1>17, <2>1, <2>2, Kept DEF Again
<1>18. CASE PauseOrSuspend
  <2>1. KafkaType'
    BY <1>18, Kept, ClosedFields DEF PauseOrSuspend
  <2>2. JobType'
    BY <1>18, GotoFields DEF PauseOrSuspend, JobPlaces, Leaving
  <2>3. QED
    BY <1>18, <2>1, <2>2, Kept DEF PauseOrSuspend
<1>19. CASE Unpause
  BY <1>19, Kept, GotoFields DEF Unpause, JobPlaces, Leaving
<1>20. CASE Suspend
  BY <1>20, Kept, GotoFields, ClosedFields DEF Suspend, JobPlaces, Leaving
<1>21. CASE EndJob
  <2>1. BcType'
    BY <1>21 DEF EndJob, Flags, BcType
  <2>2. job' = [NoJob EXCEPT !.pc = "none"]
    BY <1>21 DEF EndJob, NoJob
  <2>3. QED
    BY <1>21, <2>1, <2>2, Kept, NewJobFields DEF EndJob, JobPlaces
<1>22. ASSUME NEW c \in Callers, PauseOnce(c) PROVE TypeInv'
  <2>1. JobType' /\ timer' \in TimerPlaces
    BY <1>22, AdvanceFields DEF PauseOnce
  <2>2. BcType'
    BY <1>22 DEF PauseOnce, Flags, BcType
  <2>3. SmallType'
    BY <1>22, <2>1 DEF PauseOnce, Note, SmallType
  <2>4. QED
    BY <1>22, <2>1, <2>2, <2>3, Kept DEF PauseOnce
<1>23. ASSUME NEW c \in Callers, DrainSignal(c) PROVE TypeInv'
  <2>1. SmallType' /\ JobType'
    BY <1>23, AdvanceFields DEF DrainSignal, SmallType
  <2>2. QED
    BY <1>23, <2>1, Kept DEF DrainSignal
<1>24. ASSUME NEW c \in Callers, StartBeat(c) PROVE TypeInv'
  <2>1. JobType' /\ SmallType'
    BY <1>24, AdvanceFields DEF StartBeat, SmallType
  <2>2. PICK h \in Beats, pc \in BeatPlaces \ {"seek"} : BeatTo(h, pc)
    BY <1>24 DEF StartBeat, BeatTo, BeatPlaces
  <2>3. QED
    BY <1>24, <2>1, <2>2, Kept, BeatToFields, SetPausedFields DEF StartBeat
<1>25. ASSUME NEW h \in Beats, Check(h) PROVE TypeInv'
  BY <1>25, Kept, BeatToFields DEF Check, BeatPlaces, Poll
<1>26. ASSUME NEW h \in Beats, CloseRetired(h) PROVE TypeInv'
  BY <1>26, Kept, BeatToFields, ClosedFields DEF CloseRetired, BeatPlaces
<1>27. ASSUME NEW h \in Beats, TakeSignal(h) PROVE TypeInv'
  <2>1. BcType' /\ SmallType'
    BY <1>27 DEF TakeSignal, BcType, Flags, SmallType
  <2>2. QED
    BY <1>27, <2>1, Kept, BeatToFields DEF TakeSignal, BeatPlaces
<1>28. ASSUME NEW h \in Beats, ResumeAgain(h) PROVE TypeInv'
  BY <1>28, Kept, BeatToFields, SetPausedFields DEF ResumeAgain, BeatPlaces
<1>29. ASSUME NEW h \in Beats, StopBeat(h) PROVE TypeInv'
  <2>1. BcType'
    BY <1>29 DEF StopBeat, BcType, Flags
  <2>2. QED
    BY <1>29, <2>1, Kept, BeatToFields, GotoFields DEF StopBeat, BeatPlaces, JobPlaces, Leaving
<1>30. ASSUME NEW h \in Beats, Tick(h) PROVE TypeInv'
  BY <1>30, Kept, BeatToFields DEF Tick, BeatPlaces, Poll
<1>31. ASSUME NEW h \in Beats, ReadPaused(h) PROVE TypeInv'
  <2>1. end' = end /\ UNCHANGED <<topic, bc, signal, job, timer>>
    BY <1>31 DEF ReadPaused
  <2>2. CASE Join /\ UNCHANGED <<beat, raced>>
    BY <2>1, <2>2, Kept, JoinFields
  <2>3. CASE \E m \in Messages : HoldOne(h, m)
    <3>1. PICK m \in Messages : HoldOne(h, m)
      BY <2>3
    <3>2. KafkaType' /\ m <= end
      BY <2>1, <3>1, TakeFields DEF HoldOne
    <3>3. BeatType'
      BY <2>1, <3>1, <3>2, HoldFields DEF HoldOne
    <3>4. SmallType'
      BY <2>1, <3>1 DEF HoldOne, Note, SmallType
    <3>5. QED
      BY <2>1, <3>2, <3>3, <3>4, Kept
  <2>4. CASE BeatTo(h, "check") /\ UNCHANGED <<kafka, raced>>
    BY <2>1, <2>4, Kept, BeatToFields DEF BeatPlaces
  <2>5. QED
    BY <1>31, <2>2, <2>3, <2>4, ReadPausedCases
<1>32. ASSUME NEW h \in Beats, SeekBack(h) PROVE TypeInv'
  BY <1>32, Kept, BeatToFields, SeekBackFields DEF SeekBack, BeatPlaces
<1>33. ASSUME NEW h \in Beats, PauseAgain(h) PROVE TypeInv'
  BY <1>33, Kept, BeatToFields, SetPausedFields DEF PauseAgain, BeatPlaces
<1>34. CASE UNCHANGED vars
  BY <1>34, Kept DEF vars
<1>35. QED
  BY <1>1, <1>2, <1>3, <1>4, <1>5, <1>6, <1>7, <1>8, <1>9, <1>10, <1>11, <1>12, <1>13, <1>14, <1>15, <1>16,
     <1>17, <1>18, <1>19, <1>20, <1>21, <1>22, <1>23, <1>24, <1>25, <1>26, <1>27, <1>28, <1>29, <1>30, <1>31,
     <1>32, <1>33, <1>34
  DEF Next, Job, Timer, Beat, Callers

-----------------------------------------------------------------------------
(* What the actions do, field by field.                                       *)

(* The job moves and keeps its batch; the flags but those named stay. *)
JobTo(pc) == job'.pc = pc /\ job'.batch = job.batch /\ job'.count = job.count /\ job'.latest = job.latest
FlagsStay == bc'.running = bc.running /\ bc'.retired = bc.retired /\ bc'.idle = bc.idle /\ bc'.paused = bc.paused
BeatGoes(h, pc) ==
    /\ beat'[h].pc = pc /\ beat'[h].held = 0
    /\ \A g \in Beats : g # h => beat'[g] = beat[g]

(* The cases of a job action that only moves the job. *)
OnlyMoves == UNCHANGED <<end, committed, loaded, kafka, bc, signal, timer, beat, raced>>

(* RunJob() starts a job, or leaves a note for the one under way. *)
LEMMA RunJobStep ==
    ASSUME TypeInv, RunJob
    PROVE  /\ ~bc.retired /\ bc'.running /\ bc'.retired = bc.retired /\ bc'.idle = bc.idle /\ bc'.paused = bc.paused
           /\ \/ bc.running /\ UNCHANGED job
              \/ ~bc.running /\ job'.pc = "consume" /\ job'.batch = {} /\ job'.count = 0
           /\ UNCHANGED <<end, committed, loaded, kafka, signal, timer, beat, raced>>
<1>1. ~bc.retired /\ bc'.running /\ bc'.retired = bc.retired /\ bc'.idle = bc.idle /\ bc'.paused = bc.paused
  BY DEF RunJob, TypeInv, BcType, Flags
<1>2. QED
  BY <1>1, NewJobFields DEF RunJob, topic, JobPlaces, Entering

(* Retire() sets its flag. *)
LEMMA RetireStep ==
    ASSUME TypeInv, Retire
    PROVE  /\ ~bc.retired /\ bc'.running = bc.running /\ bc'.retired /\ bc'.idle = bc.idle /\ bc'.paused = bc.paused
           /\ UNCHANGED <<end, committed, loaded, kafka, signal, job, timer, beat, raced>>
BY DEF Retire, TypeInv, BcType, Flags, topic

(* A job whose destination is gone retires the consumer. *)
LEMMA DestinationGoneStep ==
    ASSUME TypeInv, DestinationGone
    PROVE  /\ At("init") /\ JobTo("again")
           /\ bc'.running = bc.running /\ bc'.retired /\ bc'.idle = bc.idle /\ bc'.paused = bc.paused
           /\ UNCHANGED <<end, committed, loaded, kafka, signal, timer, beat, raced>>
<1>1. bc'.running = bc.running /\ bc'.retired /\ bc'.idle = bc.idle /\ bc'.paused = bc.paused
  BY DEF DestinationGone, TypeInv, BcType, Flags
<1>2. QED
  BY <1>1, GotoFields DEF DestinationGone, JobTo, topic, JobPlaces, Entering

(* The batch loop ends. *)
LEMMA StopBatchesStep ==
    ASSUME TypeInv, StopBatches
    PROVE  /\ At("batch") /\ JobTo("again")
           /\ OnlyMoves
BY GotoFields DEF StopBatches, OnlyMoves, JobTo, topic, shared, JobPlaces, Entering, Working, Leaving

(* ConsumeAll() of a retired consumer does nothing. *)
LEMMA ConsumeAllStep ==
    ASSUME TypeInv, ConsumeAll
    PROVE  /\ At("consume") /\ (JobTo("again") \/ JobTo("enter"))
           /\ OnlyMoves
BY GotoFields DEF ConsumeAll, OnlyMoves, JobTo, topic, shared, JobPlaces, Entering, Working, Leaving

(* _unpause() ends without a receiver when nobody listens. *)
LEMMA UnpauseStep ==
    ASSUME TypeInv, Unpause
    PROVE  /\ At("unpause") /\ JobTo("close")
           /\ ~bc.paused \/ NobodyListens
           /\ OnlyMoves
BY GotoFields DEF Unpause, OnlyMoves, JobTo, topic, shared, JobPlaces, Entering, Working, Leaving

(* A batch that is read is loaded, unless it is empty or was aborted. *)
LEMMA EndReadingStep ==
    ASSUME TypeInv, EndReading
    PROVE  /\ At("read") /\ OnlyMoves
           /\ \/ JobTo("load") /\ job.count # 0
              \/ JobTo("again") /\ (job.count = 0 \/ bc.retired)
BY GotoFields DEF EndReading, OnlyMoves, JobTo, topic, shared, JobPlaces, Entering, Working

(* The timer of a long load fires. *)
LEMMA TimerFiresStep ==
    ASSUME TypeInv, TimerFires
    PROVE  /\ At("load") /\ timer = "off" /\ timer' = "begin" /\ JobTo("longLoad")
           /\ UNCHANGED <<end, committed, loaded, kafka, bc, signal, beat, raced>>
BY GotoFields DEF TimerFires, JobTo, topic, shared, JobPlaces, Working

(* A job at work is not idle. *)
LEMMA EnterStep ==
    ASSUME TypeInv, Enter
    PROVE  /\ At("enter") /\ JobTo("init")
           /\ bc'.running = bc.running /\ bc'.retired = bc.retired /\ ~bc'.idle /\ bc'.paused = bc.paused
           /\ UNCHANGED <<end, committed, loaded, kafka, signal, timer, beat, raced>>
<1>1. bc'.running = bc.running /\ bc'.retired = bc.retired /\ ~bc'.idle /\ bc'.paused = bc.paused
  BY DEF Enter, TypeInv, BcType, Flags
<1>2. QED
  BY <1>1, GotoFields DEF Enter, JobTo, topic, JobPlaces, Entering

(* initConsumer() opens the consumer. *)
LEMMA InitConsumerStep ==
    ASSUME TypeInv, InitConsumer
    PROVE  /\ At("init") /\ (JobTo("again") \/ JobTo("batch"))
           /\ kafka'.open /\ kafka'.assigned = kafka.assigned /\ kafka'.position = kafka.position
           /\ UNCHANGED <<end, committed, loaded, bc, signal, timer, beat, raced>>
<1>1. kafka'.open /\ kafka'.assigned = kafka.assigned /\ kafka'.position = kafka.position
  BY DEF InitConsumer, TypeInv, KafkaType, Kafkas
<1>2. PICK pc \in {"again", "batch"} : job' = [job EXCEPT !.high = end, !.pc = pc]
  BY DEF InitConsumer
<1>3. job'.pc = pc /\ job'.batch = job.batch /\ job'.count = job.count /\ job'.latest = job.latest
  BY <1>2 DEF TypeInv, JobType, Jobs
<1>4. QED
  BY <1>1, <1>3 DEF InitConsumer, JobTo, topic

(* A batch begins empty, after resume(). *)
LEMMA StartBatchStep ==
    ASSUME TypeInv, StartBatch
    PROVE  /\ At("batch") /\ ~bc.retired /\ job'.pc \in {"signal", "read"} /\ job'.batch = {} /\ job'.count = 0
           /\ OnlyMoves
<1>1. PICK pc \in {"signal", "read"} : job' = [job EXCEPT !.pc = pc, !.batch = {}, !.count = 0, !.latest = 0]
  BY DEF StartBatch
<1>2. job'.pc = pc /\ job'.batch = {} /\ job'.count = 0
  BY <1>1 DEF TypeInv, JobType, Jobs
<1>3. QED
  BY <1>2 DEF StartBatch, OnlyMoves, topic, shared

(* The signal is sent, or the job gives up. *)
LEMMA SendSignalStep ==
    ASSUME TypeInv, SendSignal
    PROVE  /\ At("signal") /\ (JobTo("resume") \/ JobTo("read"))
           /\ UNCHANGED <<end, committed, loaded, kafka, bc, timer, beat, raced>>
BY GotoFields DEF SendSignal, JobTo, topic, JobPlaces, Working

(* The partitions are resumed. *)
LEMMA ResumeKafkaStep ==
    ASSUME TypeInv, ResumeKafka
    PROVE  /\ At("resume") /\ JobTo("read")
           /\ kafka'.open = kafka.open /\ kafka'.assigned = kafka.assigned /\ kafka'.position = kafka.position
           /\ UNCHANGED <<end, committed, loaded, bc, signal, timer, beat, raced>>
BY GotoFields, SetPausedFields DEF ResumeKafka, JobTo, topic, JobPlaces, Working

(* The batch gets into the warehouse. *)
LEMMA LoadStep ==
    ASSUME TypeInv, Load
    PROVE  /\ job.pc \in {"load", "longLoad"} /\ JobTo("commit") /\ loaded' = loaded \cup job.batch
           /\ UNCHANGED <<end, committed, kafka, bc, signal, timer, beat, raced>>
BY GotoFields DEF Load, JobTo, At, shared, JobPlaces, Working

(* The offset of the last message read is committed. *)
LEMMA CommitStep ==
    ASSUME TypeInv, Commit
    PROVE  /\ At("commit") /\ (JobTo("batch") \/ JobTo("again")) /\ committed' = job.latest
           /\ UNCHANGED <<end, loaded, kafka, bc, signal, timer, beat, raced>>
BY GotoFields DEF Commit, JobTo, shared, JobPlaces, Entering

(* ConsumeAll() is run again, or the job leaves as idle. *)
LEMMA AgainStep ==
    ASSUME TypeInv, Again
    PROVE  /\ At("again") /\ job'.batch = {} /\ job'.count = 0
           /\ bc'.running = bc.running /\ bc'.retired = bc.retired /\ bc'.paused = bc.paused
           /\ \/ job'.pc = "consume" /\ bc'.idle = bc.idle
              \/ job'.pc = "leave" /\ timer = "off"
           /\ UNCHANGED <<end, committed, loaded, kafka, signal, timer, beat, raced>>
<1>1. /\ bc'.running = bc.running /\ bc'.retired = bc.retired /\ bc'.paused = bc.paused
      /\ bc.extra => bc'.idle = bc.idle
  BY DEF Again, TypeInv, BcType, Flags
<1>2. /\ job'.batch = {} /\ job'.count = 0
      /\ job'.pc = IF bc.extra THEN "consume" ELSE "leave"
  BY NewJobFields DEF Again, JobPlaces, Entering, Leaving, topic
<1>3. QED
  BY <1>1, <1>2 DEF Again, topic

(* The cases of pauseOrSuspend(). *)
LEMMA PauseOrSuspendStep ==
    ASSUME TypeInv, PauseOrSuspend
    PROVE  /\ At("leave")
           /\ \/ bc.retired /\ JobTo("done") /\ ~kafka'.open /\ ~kafka'.assigned
              \/ ~bc.retired /\ ~kafka.open /\ JobTo("done") /\ UNCHANGED kafka
              \/ ~bc.retired /\ kafka.open /\ (JobTo("unpause") \/ JobTo("begin")) /\ UNCHANGED kafka
           /\ UNCHANGED <<end, committed, loaded, bc, signal, timer, beat, raced>>
<1>1. bc.retired \in BOOLEAN /\ kafka.open \in BOOLEAN
  BY DEF TypeInv, BcType, Flags, KafkaType, Kafkas
<1>2. QED
  BY <1>1, GotoFields, ClosedFields DEF PauseOrSuspend, JobTo, topic, JobPlaces, Leaving

(* The consumer is closed until the next run. *)
LEMMA SuspendStep ==
    ASSUME TypeInv, Suspend
    PROVE  /\ At("close") /\ JobTo("done") /\ ~kafka'.open /\ ~kafka'.assigned
           /\ UNCHANGED <<end, committed, loaded, bc, signal, timer, beat, raced>>
BY GotoFields, ClosedFields DEF Suspend, JobTo, topic, JobPlaces, Leaving

(* The job ends. *)
LEMMA EndJobStep ==
    ASSUME TypeInv, EndJob
    PROVE  /\ At("done") /\ job'.pc = "none" /\ job'.batch = {} /\ job'.count = 0
           /\ ~bc'.running /\ bc'.retired = bc.retired /\ bc'.idle = bc.idle /\ bc'.paused = bc.paused
           /\ UNCHANGED <<end, committed, loaded, kafka, signal, timer, beat, raced>>
<1>1. ~bc'.running /\ bc'.retired = bc.retired /\ bc'.idle = bc.idle /\ bc'.paused = bc.paused
  BY DEF EndJob, TypeInv, BcType, Flags
<1>2. QED
  BY <1>1 DEF EndJob, NoJob, topic

(* pause() takes the flag, or finds it taken. *)
LEMMA PauseOnceStep ==
    ASSUME TypeInv, NEW c \in Callers, PauseOnce(c)
    PROVE  /\ job'.batch = job.batch /\ job'.count = job.count /\ job'.latest = job.latest
           /\ bc'.running = bc.running /\ bc'.retired = bc.retired /\ bc'.idle = bc.idle /\ bc'.paused
           /\ c = "job" => job.pc = "begin" /\ job'.pc = (IF bc.paused THEN "done" ELSE "drain") /\ timer' = timer
           /\ c = "timer" => timer = "begin" /\ job'.pc = job.pc /\ timer' = IF bc.paused THEN "off" ELSE "drain"
           /\ raced \subseteq raced' /\ ("message" \in raced' => "message" \in raced)
           /\ c = "job" /\ bc.paused /\ signal => "pause" \in raced'
           /\ UNCHANGED <<end, committed, loaded, kafka, signal, beat>>
<1>1. bc'.running = bc.running /\ bc'.retired = bc.retired /\ bc'.idle = bc.idle /\ bc'.paused
  BY DEF PauseOnce, TypeInv, BcType, Flags
<1>2. /\ raced \subseteq raced' /\ ("message" \in raced' => "message" \in raced)
      /\ c = "job" /\ bc.paused /\ signal => "pause" \in raced'
  BY DEF PauseOnce, Note
<1>3. end' = end /\ PcOf(c) = "begin" /\ Advance(c, IF bc.paused THEN "done" ELSE "drain")
  BY DEF PauseOnce, topic
<1>4. bc.paused \in BOOLEAN
  BY DEF TypeInv, BcType, Flags
<1>5. CASE bc.paused
  BY <1>1, <1>2, <1>3, <1>5, AdvanceFields DEF PauseOnce, PcOf, topic
<1>6. CASE ~bc.paused
  BY <1>1, <1>2, <1>3, <1>6, AdvanceFields DEF PauseOnce, PcOf, topic
<1>7. QED
  BY <1>4, <1>5, <1>6

(* A stale signal is taken out. *)
LEMMA DrainSignalStep ==
    ASSUME TypeInv, NEW c \in Callers, DrainSignal(c)
    PROVE  /\ job'.batch = job.batch /\ job'.count = job.count /\ job'.latest = job.latest
           /\ ~signal'
           /\ c = "job" => job.pc = "drain" /\ job'.pc = "start" /\ timer' = timer
           /\ c = "timer" => timer = "drain" /\ job'.pc = job.pc /\ timer' = "start"
           /\ UNCHANGED <<end, committed, loaded, kafka, bc, beat, raced>>
BY AdvanceFields DEF DrainSignal, PcOf, topic

(* The heartbeat starts. *)
LEMMA StartBeatStep ==
    ASSUME TypeInv, NEW c \in Callers, StartBeat(c)
    PROVE  /\ job'.batch = job.batch /\ job'.count = job.count /\ job'.latest = job.latest
           /\ kafka'.open = kafka.open /\ kafka'.assigned = kafka.assigned /\ kafka'.position = kafka.position
           /\ c = "job" => job.pc = "start" /\ job'.pc = "done" /\ timer' = timer
           /\ c = "timer" => timer = "start" /\ job'.pc = job.pc /\ timer' = "off"
           /\ \E h \in Beats : beat[h].pc = "none" /\ beat[h].held = 0 /\ (BeatGoes(h, "first") \/ BeatGoes(h, "check"))
           /\ UNCHANGED <<end, committed, loaded, bc, signal, raced>>
<1>1. end' = end /\ PcOf(c) = "start" /\ Advance(c, "done") /\ SetPaused(TRUE) /\ UNCHANGED <<topic, bc, signal, raced>>
  BY DEF StartBeat, topic
<1>2. PICK h \in Beats, pc \in {"first", "check"} : beat[h] = NoBeat /\ BeatTo(h, pc)
  BY DEF StartBeat, BeatTo
<1>3. beat[h].pc = "none" /\ beat[h].held = 0 /\ BeatGoes(h, pc)
  BY <1>1, <1>2, BeatToFields DEF BeatGoes, BeatPlaces, NoBeat
<1>4. QED
  BY <1>1, <1>3, AdvanceFields, SetPausedFields DEF PcOf, topic

(* A heartbeat goes on, or finds the consumer retired and idle. *)
LEMMA CheckStep ==
    ASSUME TypeInv, NEW h \in Beats, Check(h)
    PROVE  /\ beat[h].pc \in {"first", "check"}
           /\ \/ BeatGoes(h, "close") /\ bc.idle /\ bc.retired
              \/ BeatGoes(h, "read") \/ BeatGoes(h, "check") \/ BeatGoes(h, "wait")
           /\ UNCHANGED <<end, committed, loaded, kafka, bc, signal, job, timer, raced>>
<1>1. bc.idle \in BOOLEAN /\ bc.retired \in BOOLEAN
  BY DEF TypeInv, BcType, Flags
<1>2. QED
  BY <1>1, BeatToFields DEF Check, Poll, BeatGoes, BeatPlaces, topic, shared

(* A heartbeat closes the consumer. *)
LEMMA CloseRetiredStep ==
    ASSUME TypeInv, NEW h \in Beats, CloseRetired(h)
    PROVE  /\ beat[h].pc = "close" /\ BeatGoes(h, "none") /\ ~kafka'.open /\ ~kafka'.assigned
           /\ UNCHANGED <<end, committed, loaded, bc, signal, job, timer, raced>>
BY ClosedFields, BeatToFields DEF CloseRetired, BeatAt, BeatGoes, BeatPlaces, topic, shared

(* A heartbeat gives the flag back. *)
LEMMA TakeSignalStep ==
    ASSUME TypeInv, NEW h \in Beats, TakeSignal(h)
    PROVE  /\ beat[h].pc = "wait" /\ signal /\ ~signal' /\ BeatGoes(h, "resumed")
           /\ bc'.running = bc.running /\ bc'.retired = bc.retired /\ bc'.idle = bc.idle /\ ~bc'.paused
           /\ UNCHANGED <<end, committed, loaded, kafka, job, timer, raced>>
<1>1. bc'.running = bc.running /\ bc'.retired = bc.retired /\ bc'.idle = bc.idle /\ ~bc'.paused
  BY DEF TakeSignal, TypeInv, BcType, Flags
<1>2. QED
  BY <1>1, BeatToFields DEF TakeSignal, BeatAt, BeatGoes, BeatPlaces, topic, shared

(* A heartbeat that was sent away resumes the partitions, and ends. *)
LEMMA ResumeAgainStep ==
    ASSUME TypeInv, NEW h \in Beats, ResumeAgain(h)
    PROVE  /\ beat[h].pc = "resumed" /\ BeatGoes(h, "none")
           /\ kafka'.open = kafka.open /\ kafka'.assigned = kafka.assigned /\ kafka'.position = kafka.position
           /\ UNCHANGED <<end, committed, loaded, bc, signal, job, timer, raced>>
BY SetPausedFields, BeatToFields DEF ResumeAgain, BeatAt, BeatGoes, BeatPlaces, topic, shared

(* A heartbeat that is stopped gives the flag back and ends. *)
LEMMA StopBeatStep ==
    ASSUME TypeInv, NEW h \in Beats, StopBeat(h)
    PROVE  /\ beat[h].pc = "wait" /\ At("unpause") /\ JobTo("close") /\ BeatGoes(h, "none")
           /\ bc'.running = bc.running /\ bc'.retired = bc.retired /\ bc'.idle = bc.idle /\ ~bc'.paused
           /\ UNCHANGED <<end, committed, loaded, kafka, signal, timer, raced>>
<1>1. bc'.running = bc.running /\ bc'.retired = bc.retired /\ bc'.idle = bc.idle /\ ~bc'.paused
  BY DEF StopBeat, TypeInv, BcType, Flags
<1>2. QED
  BY <1>1, GotoFields, BeatToFields DEF StopBeat, BeatAt, BeatGoes, BeatPlaces, topic, shared, JobTo,
     JobPlaces, Leaving

(* A heartbeat polls, if there is a consumer. *)
LEMMA TickStep ==
    ASSUME TypeInv, NEW h \in Beats, Tick(h)
    PROVE  /\ beat[h].pc = "wait" /\ (BeatGoes(h, "read") \/ BeatGoes(h, "check"))
           /\ UNCHANGED <<end, committed, loaded, kafka, bc, signal, job, timer, raced>>
BY BeatToFields DEF Tick, BeatAt, BeatGoes, BeatPlaces, topic, shared, Poll

(* The consumer is set back. *)
LEMMA SeekBackStep ==
    ASSUME TypeInv, NEW h \in Beats, SeekBack(h)
    PROVE  /\ beat[h].pc = "seek" /\ BeatGoes(h, "repause")
           /\ kafka'.open = kafka.open /\ kafka'.assigned = kafka.assigned /\ beat[h].held \in 1 .. end
           /\ IF kafka.open THEN kafka'.position = beat[h].held - 1 ELSE kafka'.position = kafka.position
           /\ UNCHANGED <<end, committed, loaded, bc, signal, job, timer, raced>>
BY SeekBackFields, BeatToFields DEF SeekBack, BeatAt, BeatGoes, BeatPlaces, topic, shared

(* The partitions are paused again. *)
LEMMA PauseAgainStep ==
    ASSUME TypeInv, NEW h \in Beats, PauseAgain(h)
    PROVE  /\ beat[h].pc = "repause" /\ BeatGoes(h, "check")
           /\ kafka'.open = kafka.open /\ kafka'.assigned = kafka.assigned /\ kafka'.position = kafka.position
           /\ UNCHANGED <<end, committed, loaded, bc, signal, job, timer, raced>>
BY SetPausedFields, BeatToFields DEF PauseAgain, BeatAt, BeatGoes, BeatPlaces, topic, shared

-----------------------------------------------------------------------------
(* The control invariant.                                                     *)

(* It holds initially. *)
LEMMA ControlInit == Init => ControlInv
BY DEF Init, NoJob, NoBeat, NoConsumer, ControlInv, TimerInv, PausedInv, CloseInv, OpenInv, HeardInv, LeftInv,
   QuietInv,
   Listening, Starting, Entering, Working

(* It depends on these parts of the state only. *)
LEMMA ControlKept == ControlInv /\ UNCHANGED <<kafka, bc, signal, job, timer, beat, raced>> => ControlInv'
BY DEF ControlInv, TimerInv, PausedInv, CloseInv, OpenInv, HeardInv, LeftInv, QuietInv, Listening, Starting

(* It is preserved by every step. *)
LEMMA ControlStep == TypeInv /\ TypeInv' /\ ControlInv /\ [Next]_vars => ControlInv'
<1> SUFFICES ASSUME TypeInv, TypeInv', ControlInv, [Next]_vars PROVE ControlInv'
  OBVIOUS
<1>0. /\ job.pc \in JobPlaces /\ timer \in TimerPlaces /\ signal \in BOOLEAN
      /\ bc.running \in BOOLEAN /\ bc.retired \in BOOLEAN /\ bc.idle \in BOOLEAN /\ bc.paused \in BOOLEAN
      /\ kafka.open \in BOOLEAN /\ kafka.assigned \in BOOLEAN
      /\ \A h \in Beats : beat[h].pc \in BeatPlaces
  BY DEF TypeInv, JobType, Jobs, SmallType, BcType, Flags, KafkaType, Kafkas, BeatType, BeatStates
<1> USE DEF ControlInv, TimerInv, PausedInv, CloseInv, OpenInv, HeardInv, LeftInv, QuietInv,
      Listening, Starting, Entering, Working
<1>1. CASE Produce
  BY <1>1, ControlKept DEF Produce, shared
<1>2. CASE RunJob
  BY <1>0, <1>2, RunJobStep
<1>3. CASE Retire
  BY <1>0, <1>3, RetireStep
<1>4. CASE DestinationGone
  BY <1>0, <1>4, DestinationGoneStep DEF JobTo, At
<1>5. CASE StopBatches
  BY <1>0, <1>5, StopBatchesStep DEF JobTo, At, OnlyMoves
<1>6. CASE TimerFires
  BY <1>0, <1>6, TimerFiresStep DEF JobTo, At
<1>7. CASE ConsumeAll
  BY <1>0, <1>7, ConsumeAllStep DEF JobTo, At, OnlyMoves
<1>8. CASE Enter
  BY <1>0, <1>8, EnterStep DEF JobTo, At
<1>9. CASE InitConsumer
  BY <1>0, <1>9, InitConsumerStep DEF JobTo, At
<1>10. CASE StartBatch
  BY <1>0, <1>10, StartBatchStep DEF At, OnlyMoves
<1>11. CASE SendSignal
  BY <1>0, <1>11, SendSignalStep DEF JobTo, At
<1>12. CASE ResumeKafka
  BY <1>0, <1>12, ResumeKafkaStep DEF JobTo, At
<1>13. CASE Read
  <2>1. end' = end /\ At("read") /\ UNCHANGED <<bc, signal, timer, beat>>
    BY <1>13 DEF Read, topic
  <2>2. /\ job'.pc = job.pc /\ kafka'.open = kafka.open /\ kafka'.assigned
        /\ "pause" \in raced => "pause" \in raced'
    BY <1>13, <2>1, ReadCases, JoinFields, ReadOneFields DEF ReadOne, Note
  <2>3. QED
    BY <2>1, <2>2 DEF At
<1>14. CASE EndReading
  BY <1>0, <1>14, EndReadingStep DEF JobTo, At, OnlyMoves
<1>15. CASE Load
  BY <1>0, <1>15, LoadStep DEF JobTo
<1>16. CASE Commit
  BY <1>0, <1>16, CommitStep DEF JobTo, At
<1>17. CASE Again
  BY <1>0, <1>17, AgainStep DEF At
<1>18. CASE PauseOrSuspend
  BY <1>0, <1>18, PauseOrSuspendStep DEF JobTo, At
<1>19. CASE Unpause
  BY <1>0, <1>19, UnpauseStep DEF JobTo, At, OnlyMoves, NobodyListens
<1>20. CASE Suspend
  BY <1>0, <1>20, SuspendStep DEF JobTo, At
<1>21. CASE EndJob
  BY <1>0, <1>21, EndJobStep DEF At
<1>22. ASSUME NEW c \in Callers, PauseOnce(c) PROVE ControlInv'
  BY <1>0, <1>22, PauseOnceStep DEF Callers
<1>23. ASSUME NEW c \in Callers, DrainSignal(c) PROVE ControlInv'
  BY <1>0, <1>23, DrainSignalStep DEF Callers
<1>24. ASSUME NEW c \in Callers, StartBeat(c) PROVE ControlInv'
  BY <1>0, <1>24, StartBeatStep DEF Callers, BeatGoes
<1>25. ASSUME NEW h \in Beats, Check(h) PROVE ControlInv'
  BY <1>0, <1>25, CheckStep DEF BeatGoes
<1>26. ASSUME NEW h \in Beats, CloseRetired(h) PROVE ControlInv'
  BY <1>0, <1>26, CloseRetiredStep DEF BeatGoes
<1>27. ASSUME NEW h \in Beats, TakeSignal(h) PROVE ControlInv'
  BY <1>0, <1>27, TakeSignalStep DEF BeatGoes
<1>28. ASSUME NEW h \in Beats, ResumeAgain(h) PROVE ControlInv'
  BY <1>0, <1>28, ResumeAgainStep DEF BeatGoes
<1>29. ASSUME NEW h \in Beats, StopBeat(h) PROVE ControlInv'
  BY <1>0, <1>29, StopBeatStep DEF BeatGoes, JobTo, At
<1>30. ASSUME NEW h \in Beats, Tick(h) PROVE ControlInv'
  BY <1>0, <1>30, TickStep DEF BeatGoes
<1>31. ASSUME NEW h \in Beats, ReadPaused(h) PROVE ControlInv'
  <2>1. end' = end /\ beat[h].pc = "read" /\ UNCHANGED <<bc, signal, job, timer>>
    BY <1>31 DEF ReadPaused, BeatAt, topic
  <2>2. /\ kafka'.open = kafka.open /\ (kafka'.assigned => kafka.open)
        /\ "pause" \in raced => "pause" \in raced'
        /\ Listening(h)' /\ beat'[h].pc # "close" /\ \A g \in Beats : g # h => beat'[g] = beat[g]
    <3>1. CASE Join /\ UNCHANGED <<beat, raced>>
      BY <2>1, <3>1, JoinFields
    <3>2. ASSUME NEW m \in Messages, HoldOne(h, m) PROVE <2>2!:
      <4>1. kafka'.open = kafka.open /\ kafka.assigned /\ m <= end
        BY <2>1, <3>2, TakeFields DEF HoldOne
      <4>2. beat'[h].pc = "seek" /\ \A g \in Beats : g # h => beat'[g] = beat[g]
        BY <2>1, <3>2, <4>1, HoldFields DEF HoldOne
      <4>3. QED
        BY <3>2, <4>1, <4>2 DEF HoldOne, Note
    <3>3. CASE BeatTo(h, "check") /\ UNCHANGED <<kafka, raced>>
      BY <2>1, <3>3, BeatToFields DEF BeatPlaces
    <3>4. QED
      BY <1>31, <3>1, <3>2, <3>3, ReadPausedCases
  <2>3. QED
    BY <2>1, <2>2
<1>32. ASSUME NEW h \in Beats, SeekBack(h) PROVE ControlInv'
  BY <1>0, <1>32, SeekBackStep DEF BeatGoes
<1>33. ASSUME NEW h \in Beats, PauseAgain(h) PROVE ControlInv'
  BY <1>0, <1>33, PauseAgainStep DEF BeatGoes
<1>34. CASE UNCHANGED vars
  BY <1>34, ControlKept DEF vars
<1>35. QED
  BY <1>1, <1>2, <1>3, <1>4, <1>5, <1>6, <1>7, <1>8, <1>9, <1>10, <1>11, <1>12, <1>13, <1>14, <1>15, <1>16,
     <1>17, <1>18, <1>19, <1>20, <1>21, <1>22, <1>23, <1>24, <1>25, <1>26, <1>27, <1>28, <1>29, <1>30, <1>31,
     <1>32, <1>33, <1>34
  DEF Next, Job, Timer, Beat, Callers

-----------------------------------------------------------------------------
(* What the consumer has passed.                                              *)

(* The data invariant holds initially. *)
LEMMA DataInit == Init => DataInv
BY DEF Init, NoJob, NoBeat, NoConsumer, DataInv, HeldInv, PassedInv, NothingSkipped, Working

(* The data invariant is preserved by every step. *)
LEMMA DataStep == TypeInv /\ ControlInv /\ DataInv /\ [Next]_vars => DataInv'
<1> SUFFICES ASSUME TypeInv, ControlInv, DataInv, [Next]_vars PROVE DataInv'
  OBVIOUS
<1>0. /\ job.pc \in JobPlaces /\ job.batch \subseteq 1 .. end /\ job.latest \in Nat /\ job.count \in Nat
      /\ bc.running \in BOOLEAN /\ bc.retired \in BOOLEAN /\ bc.idle \in BOOLEAN /\ bc.paused \in BOOLEAN
      /\ kafka.open \in BOOLEAN /\ kafka.assigned \in BOOLEAN /\ kafka.position \in Nat /\ kafka.position <= end
      /\ end \in Nat /\ committed \in Nat /\ committed <= end
      /\ \A h \in Beats : beat[h].pc \in BeatPlaces /\ beat[h].held \in Nat
  BY DEF TypeInv, TopicType, JobType, Jobs, BcType, Flags, KafkaType, Kafkas, BeatType, BeatStates
<1> USE DEF DataInv, HeldInv, PassedInv, NothingSkipped, Working
<1>1. CASE Produce
  BY <1>0, <1>1 DEF Produce, shared
<1>2. CASE RunJob
  BY <1>0, <1>2, RunJobStep DEF ControlInv, TimerInv, PausedInv, CloseInv, OpenInv, LeftInv, QuietInv,
     Listening, Starting, Entering
<1>3. CASE Retire
  BY <1>0, <1>3, RetireStep
<1>4. CASE DestinationGone
  BY <1>0, <1>4, DestinationGoneStep DEF JobTo, At
<1>5. CASE StopBatches
  BY <1>0, <1>5, StopBatchesStep DEF JobTo, At, OnlyMoves
<1>6. CASE TimerFires
  BY <1>0, <1>6, TimerFiresStep DEF JobTo, At
<1>7. CASE ConsumeAll
  BY <1>0, <1>7, ConsumeAllStep DEF JobTo, At, OnlyMoves
<1>8. CASE Enter
  BY <1>0, <1>8, EnterStep DEF JobTo, At
<1>9. CASE InitConsumer
  BY <1>0, <1>9, InitConsumerStep DEF JobTo, At, ControlInv, TimerInv, PausedInv, CloseInv, OpenInv, LeftInv,
     QuietInv, Listening, Starting, Entering
<1>10. CASE StartBatch
  BY <1>0, <1>10, StartBatchStep DEF At, OnlyMoves
<1>11. CASE SendSignal
  BY <1>0, <1>11, SendSignalStep DEF JobTo, At
<1>12. CASE ResumeKafka
  BY <1>0, <1>12, ResumeKafkaStep DEF JobTo, At
<1>13. CASE Read
  <2>1. At("read") /\ ~bc.retired /\ UNCHANGED <<end, committed, loaded, bc, signal, timer, beat>>
    BY <1>13 DEF Read, topic
  <2>2. CASE Join /\ UNCHANGED <<job, raced>>
    BY <1>0, <2>1, <2>2, JoinFields DEF At
  <2>3. ASSUME NEW m \in Messages, ReadOne(m) PROVE DataInv'
    <3>1. /\ kafka.assigned /\ kafka'.assigned /\ kafka'.open = kafka.open
          /\ m = kafka.position + 1 /\ kafka'.position = m
          /\ job'.pc = job.pc /\ job'.batch = job.batch \cup {m} /\ job'.count = job.count + 1 /\ job'.latest = m
      BY <2>1, <2>3, ReadOneFields
    <3>2. "message" \notin raced' => "message" \notin raced /\ \A h \in Beats : beat[h].held = 0
      BY <2>3 DEF ReadOne, Note
    <3>3. HeldInv'
      BY <1>0, <2>1, <3>1, <3>2 DEF At
    <3>4. PassedInv'
      BY <1>0, <2>1, <3>1, <3>2 DEF At
    <3>5. QED
      BY <3>3, <3>4
  <2>4. QED
    BY <1>13, <2>2, <2>3, ReadCases
<1>14. CASE EndReading
  BY <1>0, <1>14, EndReadingStep DEF JobTo, At, OnlyMoves
<1>15. CASE Load
  BY <1>0, <1>15, LoadStep DEF JobTo
<1>16. CASE Commit
  BY <1>0, <1>16, CommitStep DEF JobTo, At
<1>17. CASE Again
  BY <1>0, <1>17, AgainStep DEF At
<1>18. CASE PauseOrSuspend
  BY <1>0, <1>18, PauseOrSuspendStep DEF JobTo, At, ControlInv, TimerInv, PausedInv, CloseInv, OpenInv,
     LeftInv, QuietInv, Listening, Starting, Entering
<1>19. CASE Unpause
  BY <1>0, <1>19, UnpauseStep DEF JobTo, At, OnlyMoves
<1>20. CASE Suspend
  BY <1>0, <1>20, SuspendStep DEF JobTo, At, ControlInv, TimerInv, PausedInv, CloseInv, OpenInv, LeftInv,
     QuietInv, Listening, Starting, Entering
<1>21. CASE EndJob
  BY <1>0, <1>21, EndJobStep DEF At
<1>22. ASSUME NEW c \in Callers, PauseOnce(c) PROVE DataInv'
  BY <1>0, <1>22, PauseOnceStep DEF Callers
<1>23. ASSUME NEW c \in Callers, DrainSignal(c) PROVE DataInv'
  BY <1>0, <1>23, DrainSignalStep DEF Callers
<1>24. ASSUME NEW c \in Callers, StartBeat(c) PROVE DataInv'
  BY <1>0, <1>24, StartBeatStep DEF Callers, BeatGoes
<1>25. ASSUME NEW h \in Beats, Check(h) PROVE DataInv'
  BY <1>0, <1>25, CheckStep DEF BeatGoes
<1>26. ASSUME NEW h \in Beats, CloseRetired(h) PROVE DataInv'
  BY <1>0, <1>26, CloseRetiredStep DEF BeatGoes, ControlInv, TimerInv, PausedInv, CloseInv, OpenInv, LeftInv,
     QuietInv, Listening, Starting, Entering
<1>27. ASSUME NEW h \in Beats, TakeSignal(h) PROVE DataInv'
  BY <1>0, <1>27, TakeSignalStep DEF BeatGoes
<1>28. ASSUME NEW h \in Beats, ResumeAgain(h) PROVE DataInv'
  BY <1>0, <1>28, ResumeAgainStep DEF BeatGoes
<1>29. ASSUME NEW h \in Beats, StopBeat(h) PROVE DataInv'
  BY <1>0, <1>29, StopBeatStep DEF BeatGoes, JobTo, At
<1>30. ASSUME NEW h \in Beats, Tick(h) PROVE DataInv'
  BY <1>0, <1>30, TickStep DEF BeatGoes
<1>31. ASSUME NEW h \in Beats, ReadPaused(h) PROVE DataInv'
  <2>1. beat[h].pc = "read" /\ UNCHANGED <<end, committed, loaded, bc, signal, job, timer>>
    BY <1>31 DEF ReadPaused, BeatAt, topic
  <2>2. CASE Join /\ UNCHANGED <<beat, raced>>
    BY <1>0, <2>1, <2>2, JoinFields
  <2>3. ASSUME NEW m \in Messages, HoldOne(h, m) PROVE DataInv'
    <3>1. /\ kafka.assigned /\ kafka'.assigned /\ kafka'.open = kafka.open
          /\ m = kafka.position + 1 /\ kafka'.position = m /\ m <= end
      BY <2>1, <2>3, TakeFields DEF HoldOne
    <3>2. "message" \notin raced' => "message" \notin raced /\ job.batch = {}
      BY <2>3 DEF HoldOne, Note
    <3>3. beat'[h].pc = "seek" /\ beat'[h].held = m /\ \A g \in Beats : g # h => beat'[g] = beat[g]
      BY <2>1, <2>3, <3>1, HoldFields DEF HoldOne
    <3>4. \A g \in Beats : g # h => beat[g].pc # "seek" /\ beat[g].held = 0
      BY <2>1 DEF ControlInv, PausedInv, Listening
    <3>5. HeldInv'
      BY <1>0, <2>1, <3>1, <3>2, <3>3, <3>4
    <3>6. PassedInv'
      BY <1>0, <2>1, <3>1, <3>2, <3>3, <3>4
    <3>7. QED
      BY <3>5, <3>6
  <2>4. CASE BeatTo(h, "check") /\ UNCHANGED <<kafka, raced>>
    <3>1. beat[h].held = 0
      BY <2>1
    <3>2. QED
      BY <1>0, <2>1, <2>4, <3>1, BeatToFields DEF BeatPlaces
  <2>5. QED
    BY <1>31, <2>2, <2>3, <2>4, ReadPausedCases
<1>32. ASSUME NEW h \in Beats, SeekBack(h) PROVE DataInv'
  BY <1>0, <1>32, SeekBackStep DEF BeatGoes, ControlInv, TimerInv, PausedInv, CloseInv, OpenInv, LeftInv,
     QuietInv, Listening, Starting, Entering
<1>33. ASSUME NEW h \in Beats, PauseAgain(h) PROVE DataInv'
  BY <1>0, <1>33, PauseAgainStep DEF BeatGoes
<1>34. CASE UNCHANGED vars
  BY <1>34 DEF vars
<1>35. QED
  BY <1>1, <1>2, <1>3, <1>4, <1>5, <1>6, <1>7, <1>8, <1>9, <1>10, <1>11, <1>12, <1>13, <1>14, <1>15, <1>16,
     <1>17, <1>18, <1>19, <1>20, <1>21, <1>22, <1>23, <1>24, <1>25, <1>26, <1>27, <1>28, <1>29, <1>30, <1>31,
     <1>32, <1>33, <1>34
  DEF Next, Job, Timer, Beat, Callers

-----------------------------------------------------------------------------
(* The theorems.                                                              *)

(* The invariants hold together in every reachable state. *)
LEMMA Invariants == Spec => [](TypeInv /\ ControlInv /\ DataInv)
<1>1. Init => TypeInv /\ ControlInv /\ DataInv
  BY TypeInit, ControlInit, DataInit
<1>2. TypeInv /\ ControlInv /\ DataInv /\ [Next]_vars => (TypeInv /\ ControlInv /\ DataInv)'
  BY TypeStep, ControlStep, DataStep
<1>3. QED
  BY <1>1, <1>2, PTL DEF Spec

(* The state keeps its types. *)
THEOREM TypeCorrect == Spec => []TypeOK
<1>1. TypeInv => TypeOK
  BY DEF TypeInv, TopicType, KafkaType, BcType, SmallType, BeatType, BeatStates, Kafkas, Flags, TypeOK
<1>2. QED
  BY <1>1, Invariants, PTL

(* A job at work on batches, or in pause(), has a Kafka consumer, whatever    *)
(* heartbeats, retirement and pauseOrSuspend() do meanwhile.                   *)
THEOREM ConsumerOfJob == Spec => []JobHasConsumer
<1>1. ControlInv => JobHasConsumer
  BY DEF ControlInv, OpenInv, JobHasConsumer, Working
<1>2. QED
  BY <1>1, Invariants, PTL

(* A consumer left open between jobs has a heartbeat, unless pause() took the *)
(* flag of a heartbeat with a signal to leave for its own.                     *)
THEOREM HeartbeatBetweenJobs == Spec => []Attended
<1>1. ControlInv => Attended
  BY DEF ControlInv, LeftInv, Attended, Listening
<1>2. QED
  BY <1>1, Invariants, PTL

(* When the consumer is suspended, no heartbeat is using it. *)
THEOREM QuietSuspension == Spec => SuspendsQuietly
<1>1. ControlInv /\ [Next]_vars =>
        [At("close") /\ ~At("close")' => \A h \in Beats : beat[h].pc \notin {"read", "seek", "repause"}]_vars
  BY DEF ControlInv, QuietInv, Listening, At
<1>2. QED
  BY <1>1, Invariants, PTL DEF Spec, SuspendsQuietly

(* No offset is committed past a message that is not loaded, unless a         *)
(* heartbeat took a message in the middle of a batch.                          *)
THEOREM SkipsOnlyBeside == Spec => []SkippedOnlyBeside
<1>1. DataInv => SkippedOnlyBeside
  BY DEF DataInv, PassedInv, SkippedOnlyBeside
<1>2. QED
  BY <1>1, Invariants, PTL
===============================================================================
