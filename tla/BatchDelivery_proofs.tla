------------------------ MODULE BatchDelivery_proofs ------------------------
(***************************************************************************)
(* Theorems about the delivery pipeline, for every set of messages, every   *)
(* batch size, every retry budget and every number of faults.               *)
(***************************************************************************)
EXTENDS BatchDelivery, FiniteSetTheorems, TLAPS

-----------------------------------------------------------------------------
(* The inductive invariant *)

(* A batch that has read a message has a first position, one that has not has none. *)
BatchShape ==
    /\ bPc = "read" => (bRead = 0 <=> bFirst = 0)
    /\ bPc \in {"complete", "commit", "rollback", "move"} => bFirst # 0

(* The same for the retry consumer. *)
RetryShape ==
    /\ rPc = "read" => (rRead = 0 <=> rFirst = 0)
    /\ rPc = "commit" => rFirst # 0

(* The types, and the shapes that make them inductive. *)
TypeInv == TypeOK /\ BatchShape /\ RetryShape

(* The messages of a sequence of records. *)
Msgs(s) == {s[i].msg : i \in 1..Len(s)}

(***************************************************************************)
(* A committed offset may move back: a rebalance puts a consumer before the *)
(* offset it then commits, and it commits smaller ones afterwards.  So the  *)
(* invariant speaks of offsets b and r up to which records were acknowledged *)
(* at some time: a message whose records are all among them is settled.      *)
(***************************************************************************)
KeptOne(m, b, r) ==
    \/ Settled(m)
    \/ \E i \in (b + 1)..Len(batchLog) : batchLog[i].msg = m
    \/ \E i \in (r + 1)..Len(retryLog) : retryLog[i].msg = m

Kept(b, r) == \A m \in Produced : KeptOne(m, b, r)

(* The batch consumer has read nothing beyond b that it does not still hold. *)
BatchHolds(b) ==
    /\ bPc = "idle" => bPos <= b
    /\ bPc \in {"read", "complete"} =>
         \A i \in (b + 1)..Len(batchLog) :
             i <= bPos \/ i <= bLast => batchLog[i].msg \in staged
    /\ bPc = "commit" =>
         \A i \in (b + 1)..Len(batchLog) :
             i <= bPos \/ i <= bLast => Settled(batchLog[i].msg)
    /\ bPc = "move" =>
         \A i \in (b + 1)..Len(batchLog) :
             i <= bPos => batchLog[i].msg \in txDead \cup Msgs(txRetry)
    /\ bPc = "read" /\ bFirst = 0 => bPos <= b /\ bLast = 0 /\ staged = {}
    /\ bFirst <= b + 1

(* The retry consumer has read nothing beyond r that is not in its transaction. *)
RetryHolds(r) ==
    /\ rPc = "idle" => rPos <= r
    /\ rPc \in {"read", "commit"} =>
         \A i \in (r + 1)..Len(retryLog) :
             i <= rPos \/ i <= rLast =>
                 retryLog[i].msg \in rtxSkip \cup Msgs(rtxBatch) \cup Msgs(rtxAgain)
    /\ rPc = "read" /\ rFirst = 0 => rPos <= r /\ rLast = 0
    /\ rFirst <= r + 1

(* Offsets b and r, not beyond the committed ones, separate what is kept from what is held. *)
Held(b, r) ==
    /\ bCommitted <= b /\ rCommitted <= r
    /\ Kept(b, r)
    /\ BatchHolds(b)
    /\ RetryHolds(r)

(* There are such offsets: the invariant behind NothingIsLost. *)
LossInv == \E b \in 0..Len(batchLog), r \in 0..Len(retryLog) : Held(b, r)

(* The faults under which nothing is lost. *)
ToleratedFaults == "readError" \notin Faults /\ "seekError" \notin Faults

-----------------------------------------------------------------------------
(* Sequences and frames *)

(* t is s with records appended to it. *)
Grown(s, t) == Len(s) <= Len(t) /\ \A i \in 1..Len(s) : t[i] = s[i]

(* What concatenation does to a log. *)
LEMMA ConcatGrows ==
    ASSUME NEW R, NEW s \in Seq(R), NEW t \in Seq(R)
    PROVE  /\ s \o t \in Seq(R)
           /\ Len(s \o t) = Len(s) + Len(t)
           /\ Grown(s, s \o t)
           /\ \A i \in 1..Len(t) : (s \o t)[Len(s) + i] = t[i]
  BY DEF Grown

(* The batch consumer's actions leave the retry consumer and its own topic alone. *)
LEMMA BatchFrame ==
    ASSUME BatchStep \/ BatchTrouble
    PROVE  /\ UNCHANGED <<rCommitted, rPc, rPos, rHigh, rFirst, rLast, rRead, rNext,
                          rtxBatch, rtxAgain, rtxSkip, batchLog, rDue, skipped>>
           /\ retryLog' = retryLog \/ retryLog' = retryLog \o txRetry
<1> USE DEF topics, outcomes, batchMem, retryMem, batchVars, retryVars
<1>1. CASE RunJob \/ ConsumeJSON \/ ConsumeJSONFails \/ StopReading
  BY <1>1 DEF RunJob, ConsumeJSON, ConsumeJSONFails, StopReading
<1>2. CASE \E S \in SUBSET staged : Complete(S) \/ CompleteFails(S)
  BY <1>2 DEF Complete, CompleteFails
<1>3. CASE CommitMessage \/ Rollback \/ MoveFailed \/ CommitMove
  BY <1>3 DEF CommitMessage, Rollback, MoveFailed, CommitMove, MoveTransaction, MovedOffset
<1>4. CASE BatchTrouble
  BY <1>4 DEF BatchTrouble, ConfigChanged, Retired, ReadFails, CommitMessageFails,
     MoveReadRetried, CommitMoveUnknown, MoveTransaction, MovedOffset, ProcessFailedFails,
     BatchRebalance
<1> QED
  BY <1>1, <1>2, <1>3, <1>4 DEF BatchStep

(* The retry consumer's actions leave the batch consumer and its outcomes alone. *)
LEMMA RetryFrame ==
    ASSUME RetryStep \/ RetryTrouble
    PROVE  /\ UNCHANGED <<bCommitted, bPc, bPos, bHigh, bFirst, bLast, bRead, bNext, staged,
                          txRetry, txDead, dead, rDue, delivered, rejected, failures>>
           /\ \/ UNCHANGED <<batchLog, retryLog, skipped, rCommitted>>
              \/ RetryTransaction
<1> USE DEF topics, outcomes, batchMem, retryMem, batchVars, retryVars
<1>1. CASE RetryStep
  BY <1>1 DEF RetryStep, RetryRunJob, Resend, RetryReceive, RetryStopReading, RetryCommit,
     RetryTransaction
<1>2. CASE RetryTrouble
  BY <1>2 DEF RetryTrouble, RetrySeekFails, SkipOversized, RetryReceive, RetryCommitUnknown,
     RetryTransaction, RetryFails, RetryRetired, RetryRebalance
<1> QED
  BY <1>1, <1>2

-----------------------------------------------------------------------------
(* Types *)

(* Both logs only grow, and keep their types. *)
LEMMA LogsGrow ==
    ASSUME TypeInv, [Next]_vars
    PROVE  /\ batchLog' \in Seq(Record) /\ Grown(batchLog, batchLog')
           /\ retryLog' \in Seq(RetryRecord) /\ Grown(retryLog, retryLog')
<1>0. /\ batchLog \in Seq(Record) /\ retryLog \in Seq(RetryRecord)
      /\ txRetry \in Seq(RetryRecord)
      /\ rtxBatch \in Seq(Record) /\ rtxAgain \in Seq(RetryRecord)
  BY DEF TypeInv, TypeOK, TopicsOK, BatchOK, RetryOK
<1>a. Grown(batchLog, batchLog) /\ Grown(retryLog, retryLog)
  BY <1>0 DEF Grown
<1>1. ASSUME NEW m \in Messages, Produce(m)
      PROVE  /\ batchLog' \in Seq(Record) /\ Grown(batchLog, batchLog')
             /\ retryLog' = retryLog
  <2>1. [msg |-> m, retries |-> 0] \in Record
    BY ConstantsAssumption DEF Record
  <2> QED
    BY <1>0, <1>1, <2>1 DEF Produce, Grown
<1>2. CASE BatchStep \/ BatchTrouble
  <2>1. retryLog \o txRetry \in Seq(RetryRecord) /\ Grown(retryLog, retryLog \o txRetry)
    BY <1>0, ConcatGrows
  <2>2. batchLog' = batchLog /\ (retryLog' = retryLog \/ retryLog' = retryLog \o txRetry)
    BY <1>2, BatchFrame
  <2> QED
    BY <1>0, <1>a, <2>1, <2>2
<1>3. CASE RetryStep \/ RetryTrouble
  <2>1. batchLog \o rtxBatch \in Seq(Record) /\ Grown(batchLog, batchLog \o rtxBatch)
    BY <1>0, ConcatGrows
  <2>2. retryLog \o rtxAgain \in Seq(RetryRecord) /\ Grown(retryLog, retryLog \o rtxAgain)
    BY <1>0, ConcatGrows
  <2>3. \/ batchLog' = batchLog /\ retryLog' = retryLog
        \/ batchLog' = batchLog \o rtxBatch /\ retryLog' = retryLog \o rtxAgain
    BY <1>3, RetryFrame DEF RetryTransaction
  <2> QED
    BY <1>0, <1>a, <2>1, <2>2, <2>3
<1>4. CASE UNCHANGED <<batchLog, retryLog>>
  BY <1>0, <1>a, <1>4
<1>5. ASSUME NEW i \in 1..Len(retryLog), RetryTimeComes(i)
      PROVE  UNCHANGED <<batchLog, retryLog>>
  BY <1>5 DEF RetryTimeComes
<1>6. CASE Crash
  BY <1>6, <1>4 DEF Crash, topics
<1>7. CASE UNCHANGED vars
  BY <1>7, <1>4 DEF vars, topics
<1> QED
  BY <1>0, <1>a, <1>1, <1>2, <1>3, <1>4, <1>5, <1>6, <1>7 DEF Next

(* The topics and the committed offsets keep their types: a moved record has an attempt left. *)
LEMMA TopicsStep == ASSUME TypeInv, [Next]_vars PROVE TopicsOK'
<1>1. /\ batchLog' \in Seq(Record) /\ Len(batchLog) <= Len(batchLog')
      /\ retryLog' \in Seq(RetryRecord) /\ Len(retryLog) <= Len(retryLog')
  BY LogsGrow DEF Grown
<1>2. TopicsOK /\ BatchOK /\ RetryOK
  BY DEF TypeInv, TypeOK
<1>3. ASSUME dead' \subseteq Messages, bCommitted' \in 0..Len(batchLog),
             rDue' \subseteq 1..Len(retryLog), rCommitted' \in 0..Len(retryLog)
      PROVE  TopicsOK'
  BY <1>1, <1>2, <1>3 DEF TopicsOK
<1>4. ASSUME UNCHANGED <<dead, rDue, bCommitted, rCommitted>> PROVE TopicsOK'
  BY <1>2, <1>3, <1>4 DEF TopicsOK
<1>5. ASSUME NEW m \in Messages, Produce(m) PROVE TopicsOK'
  BY <1>4, <1>5 DEF Produce, batchVars, retryVars
<1>6. CASE BatchStep \/ BatchTrouble
  <2> USE <1>2 DEF topics, batchVars, TopicsOK, BatchOK
  <2>1. CASE RunJob \/ ConsumeJSON \/ ConsumeJSONFails \/ StopReading
    BY <1>4, <2>1 DEF RunJob, ConsumeJSON, ConsumeJSONFails, StopReading, retryVars
  <2>2. CASE \E S \in SUBSET staged : Complete(S) \/ CompleteFails(S)
    BY <1>4, <2>2 DEF Complete, CompleteFails, retryVars
  <2>3. CASE Rollback \/ MoveFailed
    BY <1>4, <2>3 DEF Rollback, MoveFailed, retryVars
  <2>4. CASE CommitMessage \/ CommitMessageFails
    BY <1>3, <2>4 DEF CommitMessage, CommitMessageFails, retryVars
  <2>5. CASE CommitMove \/ CommitMoveUnknown
    BY <1>3, <2>5 DEF CommitMove, CommitMoveUnknown, MoveTransaction, MovedOffset, retryVars
  <2>6. CASE ConfigChanged \/ Retired \/ ReadFails \/ MoveReadRetried
             \/ ProcessFailedFails \/ BatchRebalance
    BY <1>4, <2>6 DEF ConfigChanged, Retired, ReadFails, MoveReadRetried,
       ProcessFailedFails, BatchRebalance, retryVars
  <2> QED
    BY <1>6, <2>1, <2>2, <2>3, <2>4, <2>5, <2>6 DEF BatchStep, BatchTrouble
<1>7. CASE RetryStep \/ RetryTrouble
  <2>1. UNCHANGED <<dead, rDue, bCommitted>> /\ (rCommitted' = rCommitted \/ rCommitted' = rLast)
    BY <1>7, RetryFrame DEF RetryTransaction
  <2> QED
    BY <1>2, <1>3, <2>1 DEF TopicsOK, RetryOK
<1>8. ASSUME NEW i \in 1..Len(retryLog), RetryTimeComes(i) PROVE TopicsOK'
  BY <1>2, <1>3, <1>8 DEF RetryTimeComes, batchVars, retryVars, TopicsOK
<1>9. CASE Crash \/ UNCHANGED vars
  BY <1>4, <1>9 DEF Crash, vars, topics, batchVars, retryVars
<1> QED
  BY <1>5, <1>6, <1>7, <1>8, <1>9 DEF Next

(* The sets of outcomes keep their types, and failures are counted up to the budget. *)
LEMMA OutcomesStep == ASSUME TypeInv, [Next]_vars PROVE OutcomesOK'
<1>1. OutcomesOK /\ staged \subseteq Messages /\ rtxSkip \subseteq Messages
  BY DEF TypeInv, TypeOK, BatchOK, RetryOK
<1>2. ASSUME NEW S, CountFailure(S)
      PROVE  failures' \in [Messages -> 0..Budget]
  BY <1>1, <1>2, ConstantsAssumption DEF CountFailure, Budget, OutcomesOK
<1>3. CASE RunJob \/ ConsumeJSON
  BY <1>1, <1>3 DEF RunJob, ConsumeJSON, outcomes, OutcomesOK
<1>4. CASE ConsumeJSONFails
  BY <1>1, <1>2, <1>4 DEF ConsumeJSONFails, OutcomesOK
<1>5. CASE StopReading
  BY <1>1, <1>5, ConstantsAssumption DEF StopReading, Fault, outcomes, OutcomesOK
<1>6. ASSUME NEW S \in SUBSET staged, Complete(S) \/ CompleteFails(S) PROVE OutcomesOK'
  <2>1. CASE Complete(S)
    BY <1>1, <2>1 DEF Complete, OutcomesOK
  <2>2. CASE CompleteFails(S)
    <3>1. faults' \in 0..MaxFaults
      BY <1>1, <2>2, ConstantsAssumption DEF CompleteFails, Fault, OutcomesOK
    <3> QED
      BY <1>1, <1>2, <2>2, <3>1 DEF CompleteFails, OutcomesOK
  <2> QED
    BY <1>6, <2>1, <2>2
<1>7. CASE CommitMessage \/ Rollback \/ MoveFailed \/ CommitMove
  BY <1>1, <1>7
  DEF CommitMessage, Rollback, MoveFailed, CommitMove, MoveTransaction, MovedOffset, outcomes,
      OutcomesOK
<1>8. CASE BatchTrouble
  BY <1>1, <1>8, ConstantsAssumption
  DEF BatchTrouble, ConfigChanged, Retired, ReadFails, CommitMessageFails, CommitMoveUnknown,
      MoveTransaction, MovedOffset, MoveReadRetried, ProcessFailedFails, BatchRebalance, Fault,
      outcomes, OutcomesOK
<1>9. CASE RetryRunJob \/ Resend \/ RetryStopReading
  BY <1>1, <1>9, ConstantsAssumption
  DEF RetryRunJob, Resend, RetryReceive, RetryStopReading, Fault, outcomes, OutcomesOK
<1>10. CASE RetryCommit \/ RetryCommitUnknown
  BY <1>1, <1>10, ConstantsAssumption
  DEF RetryCommit, RetryCommitUnknown, RetryTransaction, Fault, OutcomesOK
<1>11. CASE RetrySeekFails \/ SkipOversized \/ RetryFails \/ RetryRetired \/ RetryRebalance
  BY <1>1, <1>11, ConstantsAssumption
  DEF RetrySeekFails, SkipOversized, RetryReceive, RetryFails, RetryRetired, RetryRebalance,
      Fault, outcomes, OutcomesOK
<1>12. ASSUME NEW m \in Messages, Produce(m) PROVE OutcomesOK'
  BY <1>1, <1>12 DEF Produce, outcomes, OutcomesOK
<1>13. ASSUME NEW i \in 1..Len(retryLog), RetryTimeComes(i) PROVE OutcomesOK'
  BY <1>1, <1>13 DEF RetryTimeComes, outcomes, OutcomesOK
<1>14. CASE Crash \/ UNCHANGED vars
  BY <1>1, <1>14, ConstantsAssumption DEF Crash, Fault, vars, outcomes, OutcomesOK
<1> QED
  BY <1>3, <1>4, <1>5, <1>6, <1>7, <1>8, <1>9, <1>10, <1>11, <1>12, <1>13, <1>14
  DEF Next, BatchStep, RetryStep, RetryTrouble

(* nextBatch stays a Boolean in both consumers. *)
LEMMA FlagsStep == ASSUME TypeInv, [Next]_vars PROVE FlagsOK'
<1>1. FlagsOK
  BY DEF TypeInv, TypeOK
<1>2. CASE RunJob \/ ConfigChanged \/ Retired \/ ReadFails \/ CommitMessage
           \/ CommitMessageFails \/ CommitMoveUnknown \/ ProcessFailedFails
  BY <1>1, <1>2
  DEF RunJob, ConfigChanged, Retired, ReadFails, CommitMessage, CommitMessageFails, BatchEnd,
      CommitMoveUnknown, MoveTransaction, MovedOffset, ProcessFailedFails, NewBatch, retryVars,
      retryMem, FlagsOK
<1>3. CASE ConsumeJSON \/ StopReading \/ Rollback \/ MoveFailed \/ MoveReadRetried
           \/ CommitMove \/ BatchRebalance
  BY <1>1, <1>3
  DEF ConsumeJSON, StopReading, Rollback, MoveFailed, MoveReadRetried, CommitMove,
      MoveTransaction, MovedOffset, BatchEnd, NewBatch, BatchRebalance, retryVars, retryMem,
      FlagsOK
<1>4. CASE ConsumeJSONFails
  BY <1>1, <1>4
  DEF ConsumeJSONFails, NextAfterFailure, retryVars, retryMem, FlagsOK
<1>5. ASSUME NEW S \in SUBSET staged, Complete(S) \/ CompleteFails(S) PROVE FlagsOK'
  BY <1>1, <1>5 DEF Complete, CompleteFails, NextAfterFailure, retryVars, retryMem, FlagsOK
<1>6. CASE RetryStep
  BY <1>1, <1>6
  DEF RetryStep, RetryRunJob, Resend, RetryReceive, RetryStopReading, RetryCommit,
      RetryTransaction, NewRetryBatch, batchVars, batchMem, FlagsOK
<1>7. CASE RetryTrouble
  BY <1>1, <1>7
  DEF RetryTrouble, RetrySeekFails, SkipOversized, RetryReceive, RetryCommitUnknown,
      RetryTransaction, RetryFails, RetryRetired, RetryRebalance, NewRetryBatch, batchVars,
      batchMem, FlagsOK
<1>8. ASSUME NEW m \in Messages, Produce(m) PROVE FlagsOK'
  BY <1>1, <1>8 DEF Produce, batchVars, batchMem, retryVars, retryMem, FlagsOK
<1>9. ASSUME NEW i \in 1..Len(retryLog), RetryTimeComes(i) PROVE FlagsOK'
  BY <1>1, <1>9 DEF RetryTimeComes, batchVars, batchMem, retryVars, retryMem, FlagsOK
<1>10. CASE Crash \/ UNCHANGED vars
  BY <1>1, <1>10
  DEF Crash, NewBatch, NewRetryBatch, vars, batchVars, batchMem, retryVars, retryMem, FlagsOK
<1> QED
  BY <1>2, <1>3, <1>4, <1>5, <1>6, <1>7, <1>8, <1>9, <1>10
  DEF Next, BatchStep, BatchTrouble

(* The memory of the batch consumer keeps its types and its shape, action by action. *)
LEMMA BatchTypesStep == ASSUME TypeInv, [Next]_vars PROVE BatchOK' /\ BatchShape'
<1>1. TopicsOK /\ BatchOK /\ BatchShape
  BY DEF TypeInv, TypeOK
<1>2. Len(batchLog) \in Nat /\ Len(batchLog') \in Nat /\ Len(batchLog) <= Len(batchLog')
  BY <1>1, LogsGrow DEF Grown, TopicsOK
<1>3. ASSUME UNCHANGED <<bPc, bPos, bHigh, bFirst, bLast, bRead, staged, txRetry, txDead>>
      PROVE  BatchOK' /\ BatchShape'
  BY <1>1, <1>2, <1>3 DEF BatchOK, BatchShape
<1>4. ASSUME NewBatch("idle") \/ NewBatch("read"),
             bPos' \in 0..Len(batchLog), bHigh' \in 0..Len(batchLog)
      PROVE  BatchOK' /\ BatchShape'
  <2>1. /\ bPc' \in {"idle", "read"} /\ bFirst' = 0 /\ bLast' = 0 /\ bRead' = 0
        /\ staged' = {} /\ txRetry' = <<>> /\ txDead' = {}
    BY <1>4 DEF NewBatch
  <2> QED
    BY <1>2, <1>4, <2>1 DEF BatchOK, BatchShape
<1>5. CASE RunJob \/ ConfigChanged \/ Retired \/ ReadFails \/ ProcessFailedFails
  <2>1. NewBatch("idle") \/ NewBatch("read")
    BY <1>5 DEF RunJob, ConfigChanged, Retired, ReadFails, ProcessFailedFails
  <2>2. bPos' \in 0..Len(batchLog) /\ bHigh' \in 0..Len(batchLog)
    BY <1>1, <1>2, <1>5
    DEF RunJob, ConfigChanged, Retired, ReadFails, ProcessFailedFails, BatchOK, TopicsOK
  <2> QED
    BY <1>4, <2>1, <2>2
<1>6. CASE CommitMessage \/ CommitMessageFails \/ CommitMoveUnknown
  <2>1. NewBatch("idle") \/ NewBatch("read")
    BY <1>6 DEF CommitMessage, CommitMessageFails, CommitMoveUnknown, BatchEnd, NewBatch
  <2>2. bPos' \in 0..Len(batchLog) /\ bHigh' \in 0..Len(batchLog)
    BY <1>1, <1>2, <1>6
    DEF CommitMessage, CommitMessageFails, CommitMoveUnknown, MoveTransaction, MovedOffset,
        BatchOK, TopicsOK
  <2> QED
    BY <1>4, <2>1, <2>2
<1>7. CASE ConsumeJSON \/ ConsumeJSONFails
  <2>1. Receive /\ batchLog' = batchLog
    BY <1>7 DEF ConsumeJSON, ConsumeJSONFails, topics
  <2>a. bPos + 1 \in 1..Len(batchLog)
    BY <1>1, <1>2, <2>1 DEF Receive, BatchOK
  <2>b. batchLog[bPos + 1] \in Record
    BY <1>1, <2>a DEF TopicsOK
  <2>2. batchLog[bPos + 1].msg \in Messages
    BY <2>b DEF Record
  <2>3. staged' \subseteq Messages
    BY <1>1, <1>7, <2>2 DEF ConsumeJSON, ConsumeJSONFails, BatchOK
  <2>4. bPc' \in {"read", "rollback"} /\ bHigh' = bHigh /\ txRetry' = txRetry /\ txDead' = txDead
    BY <1>7 DEF ConsumeJSON, ConsumeJSONFails, Receive, MayRead
  <2>5. /\ bPos' \in 1..Len(batchLog) /\ bLast' \in 1..Len(batchLog)
        /\ bFirst' \in 1..Len(batchLog) /\ bRead' \in Nat \ {0}
    BY <1>1, <2>1, <2>a DEF Receive, BatchOK
  <2> QED
    BY <1>1, <1>2, <2>3, <2>4, <2>5 DEF BatchOK, BatchShape
<1>8. CASE StopReading
  <2>1. /\ UNCHANGED <<bPos, bHigh, bFirst, bLast, bRead, staged, txRetry, txDead, batchLog>>
        /\ bPc = "read" /\ bPc' = IF bRead > 0 THEN "complete" ELSE "idle"
    BY <1>8 DEF StopReading, topics
  <2> QED
    BY <1>1, <1>2, <2>1 DEF BatchOK, BatchShape
<1>9. ASSUME NEW S \in SUBSET staged, Complete(S) \/ CompleteFails(S)
      PROVE  BatchOK' /\ BatchShape'
  <2>1. /\ bPc = "complete" /\ bPc' \in {"commit", "rollback"}
        /\ bPos' = bPos /\ bHigh' = bHigh /\ bFirst' = bFirst /\ bLast' = bLast /\ bRead' = bRead
        /\ staged' \subseteq staged /\ txRetry' = txRetry /\ txDead' = txDead
    BY <1>9 DEF Complete, CompleteFails
  <2> QED
    BY <1>1, <1>2, <2>1 DEF BatchOK, BatchShape
<1>10. CASE Rollback
  BY <1>1, <1>2, <1>10 DEF Rollback, RollbackPosition, BatchOK, BatchShape
<1>11. CASE MoveFailed
  <2> DEFINE rec == batchLog[bPos + 1]
  <2>1. rec \in Record /\ bPos + 1 \in 1..Len(batchLog)
    BY <1>1, <1>2, <1>11 DEF MoveFailed, BatchOK, TopicsOK
  <2>2. rec.msg \in Messages
    BY <2>1 DEF Record
  <2>3. ASSUME ~NoAttemptsLeft(rec) PROVE rec \in RetryRecord
    BY <2>1, <2>3, ConstantsAssumption DEF NoAttemptsLeft, Record, RetryRecord
  <2>a. \/ txDead' = txDead \cup {rec.msg} /\ txRetry' = txRetry
        \/ txRetry' = Append(txRetry, rec) /\ txDead' = txDead /\ rec \in RetryRecord
    BY <1>11, <2>3 DEF MoveFailed
  <2>4. txRetry' \in Seq(RetryRecord) /\ txDead' \subseteq Messages
    <3>1. txRetry \in Seq(RetryRecord) /\ txDead \subseteq Messages
      BY <1>1 DEF BatchOK
    <3> HIDE DEF rec
    <3> QED
      BY <2>2, <2>a, <3>1
  <2> QED
    BY <1>1, <1>2, <1>11, <2>1, <2>4 DEF MoveFailed, topics, BatchOK, BatchShape
<1>12. CASE CommitMove
  <2>1. CASE bPos = bLast
    BY <1>1, <1>2, <1>4, <1>12, <2>1 DEF CommitMove, MoveTransaction, MovedOffset, BatchEnd, BatchOK
  <2>2. CASE bPos # bLast
    BY <1>1, <1>2, <1>12, <2>2 DEF CommitMove, MoveTransaction, MovedOffset, BatchOK, BatchShape
  <2> QED
    BY <2>1, <2>2
<1>13. CASE BatchRebalance \/ MoveReadRetried
  BY <1>1, <1>2, <1>13
  DEF BatchRebalance, MoveReadRetried, topics, BatchOK, BatchShape, TopicsOK
<1>14. CASE RetryStep \/ RetryTrouble
  BY <1>3, <1>14, RetryFrame
<1>15. ASSUME NEW m \in Messages, Produce(m) PROVE BatchOK' /\ BatchShape'
  BY <1>3, <1>15 DEF Produce, batchVars, batchMem
<1>16. ASSUME NEW i \in 1..Len(retryLog), RetryTimeComes(i) PROVE BatchOK' /\ BatchShape'
  BY <1>3, <1>16 DEF RetryTimeComes, batchVars, batchMem
<1>17. CASE Crash
  BY <1>1, <1>2, <1>4, <1>17 DEF Crash, BatchOK, TopicsOK
<1>18. CASE UNCHANGED vars
  BY <1>3, <1>18 DEF vars, batchVars, batchMem
<1> QED
  BY <1>5, <1>6, <1>7, <1>8, <1>9, <1>10, <1>11, <1>12, <1>13, <1>14, <1>15, <1>16, <1>17,
     <1>18
  DEF Next, BatchStep, BatchTrouble

(* The memory of the retry consumer keeps its types and its shape, action by action. *)
LEMMA RetryTypesStep == ASSUME TypeInv, [Next]_vars PROVE RetryOK' /\ RetryShape'
<1>1. TopicsOK /\ RetryOK /\ RetryShape
  BY DEF TypeInv, TypeOK
<1>2. Len(retryLog) \in Nat /\ Len(retryLog') \in Nat /\ Len(retryLog) <= Len(retryLog')
  BY <1>1, LogsGrow DEF Grown, TopicsOK
<1>3. ASSUME UNCHANGED <<rPc, rPos, rHigh, rFirst, rLast, rRead, rtxBatch, rtxAgain, rtxSkip>>
      PROVE  RetryOK' /\ RetryShape'
  BY <1>1, <1>2, <1>3 DEF RetryOK, RetryShape
<1>4. ASSUME NewRetryBatch("idle") \/ NewRetryBatch("read"),
             rPos' \in 0..Len(retryLog), rHigh' \in 0..Len(retryLog)
      PROVE  RetryOK' /\ RetryShape'
  <2>1. /\ rPc' \in {"idle", "read"} /\ rFirst' = 0 /\ rLast' = 0 /\ rRead' = 0
        /\ rtxBatch' = <<>> /\ rtxAgain' = <<>> /\ rtxSkip' = {}
    BY <1>4 DEF NewRetryBatch
  <2> QED
    BY <1>2, <1>4, <2>1 DEF RetryOK, RetryShape
<1>5. CASE RetryRunJob \/ RetrySeekFails
  <2>1. NewRetryBatch("idle") \/ NewRetryBatch("read")
    BY <1>5 DEF RetryRunJob, RetrySeekFails
  <2>2. rPos' \in 0..Len(retryLog) /\ rHigh' \in 0..Len(retryLog)
    BY <1>1, <1>2, <1>5 DEF RetryRunJob, RetrySeekFails, Ready, RetryOK
  <2> QED
    BY <1>4, <2>1, <2>2
<1>6. CASE RetryCommit \/ RetryCommitUnknown
  <2>1. NewRetryBatch("idle") \/ NewRetryBatch("read")
    BY <1>6 DEF RetryCommit, RetryCommitUnknown
  <2>2. rPos' \in 0..Len(retryLog) /\ rHigh' \in 0..Len(retryLog)
    BY <1>1, <1>2, <1>6
    DEF RetryCommit, RetryCommitUnknown, RetryTransaction, RetryOK, RetryShape
  <2> QED
    BY <1>4, <2>1, <2>2
<1>7. CASE RetryFails \/ RetryRetired
  <2>1. NewRetryBatch("idle") \/ NewRetryBatch("read")
    BY <1>7 DEF RetryFails, RetryRetired
  <2>2. rPos' \in 0..Len(retryLog) /\ rHigh' \in 0..Len(retryLog)
    BY <1>1, <1>2, <1>7 DEF RetryFails, RetryRetired, RetryOK, RetryShape, TopicsOK
  <2> QED
    BY <1>4, <2>1, <2>2
<1>15. CASE RetryRebalance
  <2>1. /\ rPos' = rCommitted
        /\ UNCHANGED <<rHigh, rFirst, rLast, rRead, rtxBatch, rtxAgain, rtxSkip>>
        /\ rPc' = rPc \/ (rPc = "read" /\ rRead > 0 /\ rPc' = "commit")
    BY <1>15 DEF RetryRebalance, RetryMayRead
  <2> QED
    BY <1>1, <1>2, <2>1 DEF RetryOK, RetryShape, TopicsOK
<1>8. CASE Resend \/ SkipOversized
  <2> DEFINE rec == retryLog[rPos + 1]
  <2>1. RetryReceive /\ retryLog' = retryLog /\ rPc = "read" /\ rPc' = rPc /\ rHigh' = rHigh
    BY <1>8 DEF Resend, SkipOversized, RetryReceive, RetryMayRead, topics
  <2>2. rPos + 1 \in 1..Len(retryLog)
    BY <1>1, <1>2, <2>1 DEF RetryReceive, RetryOK
  <2>3. rec \in RetryRecord
    BY <1>1, <2>2 DEF TopicsOK
  <2>4. rec.msg \in Messages /\ [rec EXCEPT !.retries = @ + 1] \in Record
    BY <2>3, ConstantsAssumption DEF Record, RetryRecord
  <2>5. /\ rPos' \in 1..Len(retryLog) /\ rLast' \in 1..Len(retryLog)
        /\ rFirst' \in 1..Len(retryLog) /\ rRead' \in Nat \ {0}
    BY <1>1, <2>1, <2>2 DEF RetryReceive, RetryOK
  <2>6. rtxBatch \in Seq(Record) /\ rtxAgain \in Seq(RetryRecord) /\ rtxSkip \subseteq Messages
    BY <1>1 DEF RetryOK
  <2>7. /\ rtxBatch' = rtxBatch \/ rtxBatch' = Append(rtxBatch, [rec EXCEPT !.retries = @ + 1])
        /\ rtxAgain' = rtxAgain \/ rtxAgain' = Append(rtxAgain, rec)
        /\ rtxSkip' = rtxSkip \/ rtxSkip' = rtxSkip \cup {rec.msg}
    BY <1>8 DEF Resend, SkipOversized
  <2>8. rtxBatch' \in Seq(Record) /\ rtxAgain' \in Seq(RetryRecord) /\ rtxSkip' \subseteq Messages
    <3> DEFINE again == [rec EXCEPT !.retries = @ + 1]
    <3> HIDE DEF rec, again
    <3>1. rtxBatch' \in Seq(Record)
      BY <2>4, <2>6, <2>7 DEF again
    <3>2. rtxAgain' \in Seq(RetryRecord)
      BY <2>3, <2>6, <2>7
    <3>3. rtxSkip' \subseteq Messages
      BY <2>4, <2>6, <2>7
    <3> QED
      BY <3>1, <3>2, <3>3
  <2>9. rHigh \in 0..Len(retryLog)
    BY <1>1 DEF RetryOK
  <2> QED
    BY <1>2, <2>1, <2>5, <2>8, <2>9 DEF RetryOK, RetryShape
<1>9. CASE RetryStopReading
  <2>1. /\ UNCHANGED <<rPos, rHigh, rFirst, rLast, rRead, rtxBatch, rtxAgain, rtxSkip, retryLog>>
        /\ rPc = "read" /\ rPc' = IF rRead > 0 THEN "commit" ELSE "idle"
    BY <1>9 DEF RetryStopReading, topics
  <2> QED
    BY <1>1, <1>2, <2>1 DEF RetryOK, RetryShape
<1>10. CASE BatchStep \/ BatchTrouble
  BY <1>3, <1>10, BatchFrame
<1>11. ASSUME NEW m \in Messages, Produce(m) PROVE RetryOK' /\ RetryShape'
  BY <1>3, <1>11 DEF Produce, retryVars, retryMem
<1>12. ASSUME NEW i \in 1..Len(retryLog), RetryTimeComes(i) PROVE RetryOK' /\ RetryShape'
  BY <1>3, <1>12 DEF RetryTimeComes, retryVars, retryMem
<1>13. CASE Crash
  BY <1>1, <1>2, <1>4, <1>13 DEF Crash, RetryOK, TopicsOK
<1>14. CASE UNCHANGED vars
  BY <1>3, <1>14 DEF vars, retryVars, retryMem
<1> QED
  BY <1>5, <1>6, <1>7, <1>8, <1>9, <1>10, <1>11, <1>12, <1>13, <1>14, <1>15
  DEF Next, RetryStep, RetryTrouble

(* The type invariant is inductive. *)
LEMMA TypeStep == TypeInv /\ [Next]_vars => TypeInv'
  BY TopicsStep, OutcomesStep, BatchTypesStep, RetryTypesStep, FlagsStep DEF TypeInv, TypeOK

(* It holds in the initial state. *)
LEMMA TypeInit == Init => TypeInv
<1> SUFFICES ASSUME Init PROVE TypeInv
  OBVIOUS
<1> USE ConstantsAssumption DEF Init
<1>1. TopicsOK
  BY DEF TopicsOK
<1>2. OutcomesOK
  BY DEF OutcomesOK, Budget
<1>3. BatchOK /\ BatchShape
  BY DEF BatchOK, BatchShape
<1>4. RetryOK /\ RetryShape
  BY DEF RetryOK, RetryShape
<1>5. FlagsOK
  BY DEF FlagsOK
<1> QED
  BY <1>1, <1>2, <1>3, <1>4, <1>5 DEF TypeInv, TypeOK

(* The pipeline's state has its types in every reachable state; in particular *)
(* no record of the destination topic has more than MessagesRetryCount        *)
(* retries and none of the retry topic is without an attempt left.            *)
THEOREM TypeCorrect == Spec => []TypeOK
<1>1. TypeInv => TypeOK
  BY DEF TypeInv
<1> QED
  BY <1>1, TypeInit, TypeStep, PTL DEF Spec
-----------------------------------------------------------------------------
(* No message is lost *)

(* The messages of a longer sequence, and where concatenation puts them. *)
LEMMA MsgsAppend ==
    ASSUME NEW R, NEW s \in Seq(R), NEW x \in R
    PROVE  Msgs(Append(s, x)) = Msgs(s) \cup {x.msg}
<1>1. Len(Append(s, x)) = Len(s) + 1 /\ Len(s) \in Nat
  OBVIOUS
<1>2. \A i \in 1..Len(s) : Append(s, x)[i] = s[i]
  OBVIOUS
<1>3. Append(s, x)[Len(s) + 1] = x
  OBVIOUS
<1>4. \A m : m \in Msgs(Append(s, x)) <=> m \in Msgs(s) \/ m = x.msg
  <2> TAKE m
  <2>1. ASSUME m \in Msgs(Append(s, x)) PROVE m \in Msgs(s) \/ m = x.msg
    <3>1. PICK i \in 1..(Len(s) + 1) : Append(s, x)[i].msg = m
      BY <1>1, <2>1 DEF Msgs
    <3>2. i \in 1..Len(s) \/ i = Len(s) + 1
      BY <1>1
    <3> QED
      BY <1>2, <1>3, <3>1, <3>2 DEF Msgs
  <2>2. ASSUME m \in Msgs(s) PROVE m \in Msgs(Append(s, x))
    <3>1. PICK i \in 1..Len(s) : s[i].msg = m
      BY <2>2 DEF Msgs
    <3>2. i \in 1..Len(Append(s, x)) /\ Append(s, x)[i].msg = m
      BY <1>1, <1>2, <3>1
    <3> QED
      BY <3>2 DEF Msgs
  <2>3. x.msg \in Msgs(Append(s, x))
    <3>1. Len(s) + 1 \in 1..Len(Append(s, x))
      BY <1>1
    <3> QED
      BY <1>3, <3>1 DEF Msgs
  <2> QED
    BY <2>1, <2>2, <2>3
<1> QED
  BY <1>4

(* The messages of a concatenation are those of its two parts. *)
LEMMA MsgsConcat ==
    ASSUME NEW R, NEW s \in Seq(R), NEW t \in Seq(R), NEW m \in Msgs(t)
    PROVE  \E i \in (Len(s) + 1)..Len(s \o t) : (s \o t)[i].msg = m
<1>1. PICK j \in 1..Len(t) : t[j].msg = m
  BY DEF Msgs
<1>2. (s \o t)[Len(s) + j] = t[j] /\ Len(s \o t) = Len(s) + Len(t)
  BY ConcatGrows
<1>3. Len(s) + j \in (Len(s) + 1)..Len(s \o t)
  BY <1>2
<1> QED
  BY <1>1, <1>2, <1>3

(* Acknowledging records up to b1 and r1 is safe when their messages are kept. *)
LEMMA KeptStep ==
    ASSUME TypeInv, [Next]_vars,
           NEW b \in 0..Len(batchLog), NEW r \in 0..Len(retryLog), Kept(b, r),
           NEW b1 \in b..Len(batchLog), NEW r1 \in r..Len(retryLog),
           \A m \in Messages : Settled(m) => Settled(m)',
           \A i \in (b + 1)..b1, m \in Messages :
               batchLog[i].msg = m => KeptOne(m, b1, r1)',
           \A i \in (r + 1)..r1, m \in Messages :
               retryLog[i].msg = m => KeptOne(m, b1, r1)'
    PROVE  Kept(b1, r1)'
<1>1. /\ batchLog \in Seq(Record) /\ batchLog' \in Seq(Record) /\ Grown(batchLog, batchLog')
      /\ retryLog \in Seq(RetryRecord) /\ Grown(retryLog, retryLog')
      /\ retryLog' \in Seq(RetryRecord)
  BY LogsGrow DEF TypeInv, TypeOK, TopicsOK
<1>2. ASSUME NEW m \in Messages, KeptOne(m, b, r) PROVE KeptOne(m, b1, r1)'
  <2>1. CASE Settled(m)
    BY <2>1 DEF KeptOne
  <2>2. ASSUME NEW i \in (b + 1)..Len(batchLog), batchLog[i].msg = m
        PROVE  KeptOne(m, b1, r1)'
    <3>1. CASE i <= b1
      BY <2>2, <3>1
    <3>2. CASE ~(i <= b1)
      <4>1. i \in (b1 + 1)..Len(batchLog') /\ batchLog'[i].msg = m
        BY <1>1, <2>2, <3>2 DEF Grown
      <4> QED
        BY <4>1 DEF KeptOne
    <3> QED
      BY <3>1, <3>2
  <2>3. ASSUME NEW i \in (r + 1)..Len(retryLog), retryLog[i].msg = m
        PROVE  KeptOne(m, b1, r1)'
    <3>1. CASE i <= r1
      BY <2>3, <3>1
    <3>2. CASE ~(i <= r1)
      <4>1. i \in (r1 + 1)..Len(retryLog') /\ retryLog'[i].msg = m
        BY <1>1, <2>3, <3>2 DEF Grown
      <4> QED
        BY <4>1 DEF KeptOne
    <3> QED
      BY <3>1, <3>2
  <2> QED
    BY <1>2, <2>1, <2>2, <2>3 DEF KeptOne
<1>3. ASSUME NEW m, NEW j \in 1..Len(batchLog'), batchLog'[j].msg = m
      PROVE  KeptOne(m, b1, r1)'
  <2>1. m \in Messages
    <3>1. batchLog'[j] \in Record
      BY <1>1
    <3> QED
      BY <1>3, <3>1 DEF Record
  <2>2. CASE j \in 1..Len(batchLog)
    <3>1. batchLog[j].msg = m
      BY <1>1, <1>3, <2>2 DEF Grown
    <3>2. m \in Produced
      BY <2>2, <3>1 DEF Produced
    <3> QED
      BY <1>2, <2>1, <3>2 DEF Kept
  <2>3. CASE j \notin 1..Len(batchLog)
    <3>1. j \in (b1 + 1)..Len(batchLog')
      BY <1>1, <2>3
    <3> QED
      BY <1>3, <3>1 DEF KeptOne
  <2> QED
    BY <2>2, <2>3
<1> QED
  BY <1>3 DEF Kept, Produced

(* A consumer's part of the invariant survives the other consumer's steps. *)
LEMMA RetryHoldsFrame ==
    ASSUME TypeInv, [Next]_vars, NEW r \in 0..Len(retryLog), RetryHolds(r),
           UNCHANGED <<rPc, rPos, rFirst, rLast, rtxBatch, rtxAgain, rtxSkip>>
    PROVE  RetryHolds(r)'
<1>1. /\ retryLog \in Seq(RetryRecord) /\ retryLog' \in Seq(RetryRecord)
      /\ Grown(retryLog, retryLog') /\ rPos \in 0..Len(retryLog) /\ rLast \in 0..Len(retryLog)
  BY LogsGrow DEF TypeInv, TypeOK, TopicsOK, RetryOK
<1>2. ASSUME NEW i \in (r + 1)..Len(retryLog'), i <= rPos \/ i <= rLast
      PROVE  i \in (r + 1)..Len(retryLog) /\ retryLog'[i] = retryLog[i]
  BY <1>1, <1>2 DEF Grown
<1>3. Msgs(rtxBatch)' = Msgs(rtxBatch) /\ Msgs(rtxAgain)' = Msgs(rtxAgain)
  BY DEF Msgs
<1> QED
  BY <1>2, <1>3 DEF RetryHolds

(* The batch consumer holds what it held when only logs grew at their ends. *)
LEMMA BatchHoldsFrame ==
    ASSUME TypeInv, [Next]_vars, NEW b \in 0..Len(batchLog), BatchHolds(b),
           UNCHANGED <<bPc, bPos, bFirst, bLast, staged, txRetry, txDead>>,
           \A m : Settled(m) => Settled(m)'
    PROVE  BatchHolds(b)'
<1>1. /\ batchLog \in Seq(Record) /\ batchLog' \in Seq(Record)
      /\ Grown(batchLog, batchLog') /\ bPos \in 0..Len(batchLog) /\ bLast \in 0..Len(batchLog)
  BY LogsGrow DEF TypeInv, TypeOK, TopicsOK, BatchOK
<1>2. ASSUME NEW i \in (b + 1)..Len(batchLog'), i <= bPos \/ i <= bLast
      PROVE  i \in (b + 1)..Len(batchLog) /\ batchLog'[i] = batchLog[i]
  BY <1>1, <1>2 DEF Grown
<1> QED
  BY <1>2 DEF BatchHolds, Msgs

(* A fresh batch begins at or before b. *)
LEMMA NewBatchHolds ==
    ASSUME NEW b \in Nat, bPos' <= b, NewBatch("idle") \/ NewBatch("read"),
           bPos' \in Nat
    PROVE  BatchHolds(b)'
<1>1. /\ bPc' \in {"idle", "read"} /\ bFirst' = 0 /\ bLast' = 0 /\ staged' = {}
  BY DEF NewBatch
<1>2. \A i \in (b + 1)..Len(batchLog') : ~(i <= bPos' \/ i <= bLast')
  BY <1>1
<1> QED
  BY <1>1, <1>2 DEF BatchHolds

(* The steps of the batch consumer that acknowledge nothing. *)
LEMMA BatchReads ==
    ASSUME ToleratedFaults, TypeInv, [Next]_vars, NEW b \in 0..Len(batchLog),
           bCommitted <= b, BatchHolds(b),
           \/ RunJob \/ ConsumeJSON \/ ConsumeJSONFails \/ StopReading
           \/ \E S \in SUBSET staged : Complete(S) \/ CompleteFails(S)
           \/ Rollback \/ MoveFailed \/ ConfigChanged \/ Retired \/ ReadFails
           \/ MoveReadRetried \/ ProcessFailedFails \/ BatchRebalance
    PROVE  BatchHolds(b)' /\ bCommitted' = bCommitted
<1>1. /\ batchLog \in Seq(Record) /\ Len(batchLog) \in Nat
      /\ bPos \in 0..Len(batchLog) /\ bLast \in 0..Len(batchLog) /\ bFirst \in 0..Len(batchLog)
      /\ bRead \in Nat /\ bCommitted \in 0..Len(batchLog)
      /\ txRetry \in Seq(RetryRecord)
  BY DEF TypeInv, TypeOK, TopicsOK, BatchOK
<1>2. BatchShape
  BY DEF TypeInv
<1>3. CASE RunJob
  <2>1. bPos <= b
    BY <1>3 DEF RunJob, BatchHolds
  <2> QED
    BY <1>1, <1>3, <2>1, NewBatchHolds DEF RunJob
<1>4. CASE Retired \/ ProcessFailedFails
  BY <1>1, <1>4, NewBatchHolds DEF Retired, ProcessFailedFails
<1>5. CASE ConfigChanged
  <2>1. bPos <= b
    BY <1>1, <1>2, <1>5 DEF ConfigChanged, BatchHolds, BatchShape
  <2> QED
    BY <1>1, <1>5, <2>1, NewBatchHolds DEF ConfigChanged
<1>6. CASE ReadFails
  BY <1>6 DEF ReadFails, Fault, ToleratedFaults
<1>7. CASE ConsumeJSON \/ ConsumeJSONFails
  <2>1. /\ bPc = "read" /\ bPos' = bPos + 1 /\ bLast' = bPos + 1 /\ batchLog' = batchLog
        /\ bFirst' = IF bFirst = 0 THEN bPos + 1 ELSE bFirst
        /\ bCommitted' = bCommitted /\ bPos < Len(batchLog)
    BY <1>7 DEF ConsumeJSON, ConsumeJSONFails, Receive, MayRead, topics
  <2>2. bFirst' # 0 /\ bFirst' <= b + 1
    BY <1>1, <2>1 DEF BatchHolds
  <2>3. CASE ConsumeJSON
    <3>1. bPc' = "read" /\ staged' = staged \cup {batchLog[bPos + 1].msg}
      BY <2>1, <2>3 DEF ConsumeJSON
    <3>2. ASSUME NEW i \in (b + 1)..Len(batchLog), i <= bPos' \/ i <= bLast'
          PROVE  batchLog[i].msg \in staged'
      <4>1. i <= bPos \/ i = bPos + 1
        BY <1>1, <2>1, <3>2
      <4> QED
        BY <2>1, <3>1, <4>1 DEF BatchHolds
    <3> QED
      BY <2>1, <2>2, <3>1, <3>2 DEF BatchHolds
  <2>4. CASE ConsumeJSONFails
    <3>1. bPc' = "rollback"
      BY <2>4 DEF ConsumeJSONFails
    <3> QED
      BY <2>1, <2>2, <3>1 DEF BatchHolds
  <2> QED
    BY <1>7, <2>3, <2>4
<1>8. CASE StopReading
  <2>1. /\ bPc = "read" /\ bPc' = (IF bRead > 0 THEN "complete" ELSE "idle")
        /\ UNCHANGED <<bPos, bFirst, bLast, staged, batchLog, bCommitted>>
    BY <1>8 DEF StopReading, topics
  <2>2. bRead = 0 => bPos <= b
    BY <1>1, <1>2, <2>1 DEF BatchHolds, BatchShape
  <2> QED
    BY <1>1, <2>1, <2>2 DEF BatchHolds
<1>9. ASSUME NEW S \in SUBSET staged, Complete(S)
      PROVE  BatchHolds(b)' /\ bCommitted' = bCommitted
  <2>1. /\ bPc = "complete" /\ bPc' = "commit"
        /\ UNCHANGED <<bPos, bFirst, bLast, batchLog, bCommitted>>
    BY <1>9 DEF Complete, topics
  <2>2. ASSUME NEW i \in (b + 1)..Len(batchLog), i <= bPos \/ i <= bLast
        PROVE  Settled(batchLog[i].msg)'
    <3>1. batchLog[i].msg \in staged
      BY <2>1, <2>2 DEF BatchHolds
    <3> QED
      BY <1>9, <2>1, <3>1 DEF Complete, Settled
  <2> QED
    BY <2>1, <2>2 DEF BatchHolds
<1>10. ASSUME NEW S \in SUBSET staged, CompleteFails(S)
       PROVE  BatchHolds(b)' /\ bCommitted' = bCommitted
  <2>1. bPc' = "rollback" /\ bFirst' = bFirst /\ bCommitted' = bCommitted
    BY <1>10 DEF CompleteFails
  <2> QED
    BY <2>1 DEF BatchHolds
<1>11. CASE Rollback
  <2>1. /\ bPc = "rollback" /\ bPc' = "move" /\ bPos' = bFirst - 1
        /\ bFirst' = bFirst /\ bCommitted' = bCommitted
    BY <1>11 DEF Rollback, RollbackPosition
  <2>2. bPos' <= b
    BY <1>1, <2>1 DEF BatchHolds
  <2>3. ASSUME NEW i \in (b + 1)..Len(batchLog'), i <= bPos' PROVE FALSE
    BY <1>1, <2>1, <2>2, <2>3
  <2> QED
    BY <2>1, <2>3 DEF BatchHolds
<1>12. CASE MoveFailed
  <2> DEFINE rec == batchLog[bPos + 1]
  <2>1. /\ bPc = "move" /\ bPc' = "move" /\ bPos' = bPos + 1 /\ batchLog' = batchLog
        /\ bFirst' = bFirst /\ bCommitted' = bCommitted /\ bPos < Len(batchLog)
    BY <1>12 DEF MoveFailed, topics
  <2>2. \/ txDead' = txDead \cup {rec.msg} /\ txRetry' = txRetry
        \/ txRetry' = Append(txRetry, rec) /\ txDead' = txDead /\ rec \in RetryRecord
    <3>1. rec \in Record
      BY <1>1, <2>1
    <3>2. ~NoAttemptsLeft(rec) => rec \in RetryRecord
      BY <3>1, ConstantsAssumption DEF NoAttemptsLeft, Record, RetryRecord
    <3> QED
      BY <1>12, <3>2 DEF MoveFailed
  <2>3. txDead' \cup Msgs(txRetry)' = txDead \cup Msgs(txRetry) \cup {rec.msg}
    <3> HIDE DEF rec
    <3>1. rec \in RetryRecord => Msgs(Append(txRetry, rec)) = Msgs(txRetry) \cup {rec.msg}
      BY <1>1, MsgsAppend
    <3>2. Msgs(txRetry)' = Msgs(txRetry')
      BY DEF Msgs
    <3> QED
      BY <2>2, <3>1, <3>2
  <2>4. ASSUME NEW i \in (b + 1)..Len(batchLog), i <= bPos'
        PROVE  batchLog[i].msg \in txDead' \cup Msgs(txRetry)'
    <3>1. i <= bPos \/ i = bPos + 1
      BY <1>1, <2>1, <2>4
    <3> QED
      BY <2>1, <2>3, <3>1 DEF BatchHolds
  <2> QED
    BY <2>1, <2>4 DEF BatchHolds
<1>13. CASE BatchRebalance
  <2>1. /\ bPc \in {"idle", "read", "complete", "commit"} /\ bPos' = bCommitted
        /\ UNCHANGED <<bPc, bFirst, bLast, staged, batchLog, bCommitted,
                       delivered, rejected, dead, skipped>>
    BY <1>13 DEF BatchRebalance, topics, outcomes
  <2>2. ASSUME NEW i \in (b + 1)..Len(batchLog) PROVE ~(i <= bPos')
    BY <1>1, <2>1
  <2>3. \A m : Settled(m)' = Settled(m)
    BY <2>1 DEF Settled
  <2> QED
    BY <1>1, <2>1, <2>2, <2>3 DEF BatchHolds
<1>14. CASE MoveReadRetried
  <2>1. /\ UNCHANGED <<bPc, bPos, bFirst, bLast, staged, txRetry, txDead, bCommitted,
                       delivered, rejected, dead, skipped>>
    BY <1>14 DEF MoveReadRetried, topics, outcomes
  <2>2. \A m : Settled(m) => Settled(m)'
    BY <2>1 DEF Settled
  <2> QED
    BY <2>1, <2>2, BatchHoldsFrame
<1> QED
  BY <1>3, <1>4, <1>5, <1>6, <1>7, <1>8, <1>9, <1>10, <1>11, <1>12, <1>13, <1>14

(* The steps of the batch consumer that acknowledge the records it holds. *)
LEMMA BatchAcknowledges ==
    ASSUME TypeInv, [Next]_vars, NEW b \in 0..Len(batchLog), bCommitted <= b, BatchHolds(b),
           NEW r \in 0..Len(retryLog), Kept(b, r),
           CommitMessage \/ CommitMessageFails \/ CommitMove \/ CommitMoveUnknown
    PROVE  \E b1 \in b..Len(batchLog) :
               bCommitted' <= b1 /\ BatchHolds(b1)' /\ Kept(b1, r)'
<1>1. /\ batchLog \in Seq(Record) /\ Len(batchLog) \in Nat
      /\ bPos \in 0..Len(batchLog) /\ bLast \in 0..Len(batchLog) /\ bFirst \in 0..Len(batchLog)
      /\ bCommitted \in 0..Len(batchLog)
      /\ retryLog \in Seq(RetryRecord) /\ txRetry \in Seq(RetryRecord)
  BY DEF TypeInv, TypeOK, TopicsOK, BatchOK
<1>2. CASE CommitMessage \/ CommitMessageFails
  <2>1. /\ bPc = "commit" /\ UNCHANGED <<delivered, rejected, dead, skipped>>
        /\ bCommitted' = bCommitted \/ bCommitted' = bLast
        /\ bPos' = bPos \/ bPos' = bLast \/ bPos' = bCommitted
        /\ NewBatch("idle") \/ NewBatch("read")
    BY <1>2 DEF CommitMessage, CommitMessageFails, BatchEnd, topics, outcomes
  <2>2. \A m : Settled(m)' <=> Settled(m)
    BY <2>1 DEF Settled
  <2>3. PICK b1 \in b..Len(batchLog) :
            /\ bPos <= b1 /\ bLast <= b1
            /\ \A i \in (b + 1)..b1 : i <= bPos \/ i <= bLast
    <3> DEFINE top == IF bPos > bLast THEN bPos ELSE bLast
    <3>1. CASE top <= b
      <4>1. b \in b..Len(batchLog) /\ bPos <= b /\ bLast <= b
        BY <1>1, <3>1
      <4> QED
        BY <4>1
    <3>2. CASE ~(top <= b)
      <4>1. top \in b..Len(batchLog) /\ bPos <= top /\ bLast <= top
        BY <1>1, <3>2
      <4>2. \A i \in (b + 1)..top : i <= bPos \/ i <= bLast
        BY <1>1
      <4> QED
        BY <4>1, <4>2
    <3> QED
      BY <3>1, <3>2
  <2>4. bCommitted' <= b1 /\ bPos' <= b1 /\ bPos' \in Nat
    BY <1>1, <2>1, <2>3
  <2>5. BatchHolds(b1)'
    BY <1>1, <2>1, <2>3, <2>4, NewBatchHolds
  <2>6. ASSUME NEW i \in (b + 1)..b1, NEW m \in Messages, batchLog[i].msg = m
        PROVE  KeptOne(m, b1, r)'
    <3>1. i \in (b + 1)..Len(batchLog) /\ (i <= bPos \/ i <= bLast)
      <4>1. i <= bPos \/ i <= bLast
        BY <2>3
      <4>2. b \in Nat /\ Len(batchLog) \in Nat /\ b1 \in b..Len(batchLog)
        BY <1>1, <2>3
      <4>3. i \in (b + 1)..Len(batchLog)
        BY <4>2
      <4> QED
        BY <4>1, <4>3
    <3>2. Settled(m)
      BY <2>1, <2>6, <3>1 DEF BatchHolds
    <3> QED
      BY <2>2, <3>2 DEF KeptOne
  <2>7. r \in r..Len(retryLog) /\ \A i \in (r + 1)..r : FALSE
    BY <1>1
  <2>8. Kept(b1, r)'
    BY <2>2, <2>3, <2>6, <2>7, KeptStep
  <2> QED
    BY <2>3, <2>4, <2>5, <2>8
<1>3. CASE CommitMove \/ CommitMoveUnknown
  <2>1. /\ bPc = "move" /\ UNCHANGED <<delivered, rejected, skipped, bPos>>
        /\ bCommitted' = bPos /\ dead' = dead \cup txDead
        /\ retryLog' = retryLog \o txRetry /\ batchLog' = batchLog
    BY <1>3 DEF CommitMove, CommitMoveUnknown, MoveTransaction, MovedOffset, outcomes
  <2>2. \A m : Settled(m) \/ m \in txDead => Settled(m)'
    BY <2>1 DEF Settled
  <2>3. PICK b1 \in b..Len(batchLog) : bPos <= b1 /\ \A i \in (b + 1)..b1 : i <= bPos
    <3>1. CASE bPos <= b
      <4>1. b \in b..Len(batchLog) /\ \A i \in (b + 1)..b : FALSE
        BY <1>1
      <4> QED
        BY <3>1, <4>1
    <3>2. CASE ~(bPos <= b)
      <4>1. bPos \in b..Len(batchLog) /\ bPos <= bPos /\ \A i \in (b + 1)..bPos : i <= bPos
        BY <1>1, <3>2
      <4> QED
        BY <4>1
    <3> QED
      BY <3>1, <3>2
  <2>4. BatchHolds(b1)'
    <3>1. CASE NewBatch("idle") \/ NewBatch("read")
      BY <1>1, <2>1, <2>3, <3>1, NewBatchHolds
    <3>2. CASE bPc' = "move" /\ bFirst' = bFirst
      <4>1. \A i \in (b1 + 1)..Len(batchLog') : ~(i <= bPos')
        BY <1>1, <2>1, <2>3
      <4>2. bFirst' <= b1 + 1
        BY <1>1, <2>3, <3>2 DEF BatchHolds
      <4> QED
        BY <3>2, <4>1, <4>2 DEF BatchHolds
    <3>3. NewBatch("idle") \/ NewBatch("read") \/ (bPc' = "move" /\ bFirst' = bFirst)
      <4>1. CASE CommitMove /\ bPos = bLast
        BY <4>1 DEF CommitMove, BatchEnd
      <4>2. CASE CommitMove /\ bPos # bLast
        BY <2>1, <4>2 DEF CommitMove
      <4>3. CASE CommitMoveUnknown
        BY <4>3 DEF CommitMoveUnknown
      <4> QED
        BY <1>3, <4>1, <4>2, <4>3
    <3> QED
      BY <3>1, <3>2, <3>3
  <2>5. ASSUME NEW i \in (b + 1)..b1, NEW m \in Messages, batchLog[i].msg = m
        PROVE  KeptOne(m, b1, r)'
    <3>1. i \in (b + 1)..Len(batchLog) /\ i <= bPos
      <4>1. i <= bPos
        BY <2>3
      <4>2. i \in (b + 1)..Len(batchLog)
        BY <1>1, <2>3
      <4> QED
        BY <4>1, <4>2
    <3>2. m \in txDead \cup Msgs(txRetry)
      BY <2>1, <2>5, <3>1 DEF BatchHolds
    <3>3. CASE m \in txDead
      BY <2>2, <3>3 DEF KeptOne
    <3>4. CASE m \in Msgs(txRetry)
      <4>1. PICK j \in (Len(retryLog) + 1)..Len(retryLog') : retryLog'[j].msg = m
        BY <1>1, <2>1, <3>4, MsgsConcat
      <4>2. j \in (r + 1)..Len(retryLog')
        BY <1>1, <4>1
      <4> QED
        BY <4>1, <4>2 DEF KeptOne
    <3> QED
      BY <3>2, <3>3, <3>4
  <2>6. r \in r..Len(retryLog) /\ \A i \in (r + 1)..r : FALSE
    BY <1>1
  <2>7. Kept(b1, r)'
    BY <2>2, <2>3, <2>5, <2>6, KeptStep
  <2> QED
    BY <2>1, <2>3, <2>4, <2>7
<1> QED
  BY <1>2, <1>3

(* A fresh batch of the retry consumer begins at or before r. *)
LEMMA NewRetryBatchHolds ==
    ASSUME NEW r \in Nat, rPos' <= r, NewRetryBatch("idle") \/ NewRetryBatch("read"),
           rPos' \in Nat
    PROVE  RetryHolds(r)'
<1>1. rPc' \in {"idle", "read"} /\ rFirst' = 0 /\ rLast' = 0
  BY DEF NewRetryBatch
<1>2. \A i \in (r + 1)..Len(retryLog') : ~(i <= rPos') /\ ~(i <= 0)
  OBVIOUS
<1> QED
  BY <1>1, <1>2 DEF RetryHolds

(* The steps of the retry consumer that acknowledge nothing. *)
LEMMA RetryReads ==
    ASSUME ToleratedFaults, TypeInv, [Next]_vars, NEW r \in 0..Len(retryLog),
           rCommitted <= r, RetryHolds(r),
           \/ RetryRunJob \/ Resend \/ RetryStopReading \/ RetrySeekFails \/ SkipOversized
           \/ RetryFails \/ RetryRetired \/ RetryRebalance
    PROVE  RetryHolds(r)' /\ rCommitted' = rCommitted
<1>1. /\ retryLog \in Seq(RetryRecord) /\ Len(retryLog) \in Nat
      /\ rPos \in 0..Len(retryLog) /\ rLast \in 0..Len(retryLog) /\ rFirst \in 0..Len(retryLog)
      /\ rRead \in Nat /\ rCommitted \in 0..Len(retryLog)
      /\ rtxBatch \in Seq(Record) /\ rtxAgain \in Seq(RetryRecord)
  BY DEF TypeInv, TypeOK, TopicsOK, RetryOK
<1>2. RetryShape
  BY DEF TypeInv
<1>3. CASE RetryRunJob
  <2>1. rPos <= r
    BY <1>3 DEF RetryRunJob, RetryHolds
  <2> QED
    BY <1>1, <1>3, <2>1, NewRetryBatchHolds DEF RetryRunJob
<1>4. CASE RetrySeekFails
  BY <1>4 DEF RetrySeekFails, Fault, ToleratedFaults
<1>5. CASE RetryRetired
  BY <1>1, <1>5, NewRetryBatchHolds DEF RetryRetired
<1>9. CASE RetryRebalance
  <2>1. /\ rPos' = rCommitted
        /\ UNCHANGED <<rFirst, rLast, rtxBatch, rtxAgain, rtxSkip, retryLog, rCommitted>>
        /\ rPc' = rPc \/ (rPc = "read" /\ rPc' = "commit")
    BY <1>9 DEF RetryRebalance, RetryMayRead, topics
  <2>2. \A i \in (r + 1)..Len(retryLog) : ~(i <= rPos')
    BY <1>1, <2>1
  <2>3. rPos' <= r /\ (Msgs(rtxBatch) \cup Msgs(rtxAgain))' = Msgs(rtxBatch) \cup Msgs(rtxAgain)
    BY <2>1 DEF Msgs
  <2> QED
    BY <2>1, <2>2, <2>3 DEF RetryHolds
<1>6. CASE RetryFails
  <2>1. /\ rPc \in {"read", "commit"} /\ rPos' = (IF rFirst = 0 THEN rPos ELSE rFirst - 1)
        /\ NewRetryBatch("idle") /\ rCommitted' = rCommitted
    BY <1>2, <1>6 DEF RetryFails, Fault, ToleratedFaults, RetryShape
  <2>2. rPos' <= r /\ rPos' \in Nat
    BY <1>1, <1>2, <2>1 DEF RetryHolds, RetryShape
  <2> QED
    BY <2>1, <2>2, NewRetryBatchHolds
<1>7. CASE RetryStopReading
  <2>1. /\ rPc = "read" /\ rPc' = (IF rRead > 0 THEN "commit" ELSE "idle")
        /\ UNCHANGED <<rPos, rFirst, rLast, rtxBatch, rtxAgain, rtxSkip, retryLog, rCommitted>>
    BY <1>7 DEF RetryStopReading, topics
  <2>2. rRead = 0 => rPos <= r
    BY <1>1, <1>2, <2>1 DEF RetryHolds, RetryShape
  <2>3. Msgs(rtxBatch)' = Msgs(rtxBatch) /\ Msgs(rtxAgain)' = Msgs(rtxAgain)
    BY <2>1 DEF Msgs
  <2> QED
    BY <1>1, <2>1, <2>2, <2>3 DEF RetryHolds
<1>8. CASE Resend \/ SkipOversized
  <2> DEFINE rec == retryLog[rPos + 1]
             again == [rec EXCEPT !.retries = @ + 1]
             held == rtxSkip \cup Msgs(rtxBatch) \cup Msgs(rtxAgain)
  <2>1. /\ rPc = "read" /\ rPc' = "read" /\ retryLog' = retryLog /\ rCommitted' = rCommitted
        /\ rPos' = rPos + 1 /\ rLast' = rPos + 1 /\ rPos < Len(retryLog)
        /\ rFirst' = IF rFirst = 0 THEN rPos + 1 ELSE rFirst
    BY <1>8 DEF Resend, SkipOversized, RetryReceive, RetryMayRead, topics
  <2>2. rec \in RetryRecord
    BY <1>1, <2>1
  <2>3. again \in Record /\ again.msg = rec.msg
    BY <2>2, ConstantsAssumption DEF Record, RetryRecord
  <2>4. rFirst' # 0 /\ rFirst' <= r + 1
    BY <1>1, <2>1 DEF RetryHolds
  <2>5. \/ rtxBatch' = Append(rtxBatch, again) /\ UNCHANGED <<rtxAgain, rtxSkip>>
        \/ rtxAgain' = Append(rtxAgain, rec) /\ UNCHANGED <<rtxBatch, rtxSkip>>
        \/ rtxSkip' = rtxSkip \cup {rec.msg} /\ UNCHANGED <<rtxBatch, rtxAgain>>
    BY <1>8 DEF Resend, SkipOversized
  <2>6. held' = held \cup {rec.msg}
    <3> HIDE DEF rec, again
    <3>1. Msgs(Append(rtxBatch, again)) = Msgs(rtxBatch) \cup {rec.msg}
      BY <1>1, <2>3, MsgsAppend
    <3>2. Msgs(Append(rtxAgain, rec)) = Msgs(rtxAgain) \cup {rec.msg}
      BY <1>1, <2>2, MsgsAppend
    <3>3. Msgs(rtxBatch)' = Msgs(rtxBatch') /\ Msgs(rtxAgain)' = Msgs(rtxAgain')
      BY DEF Msgs
    <3> QED
      BY <2>5, <3>1, <3>2, <3>3
  <2>7. ASSUME NEW i \in (r + 1)..Len(retryLog), i <= rPos'
        PROVE  retryLog[i].msg \in held'
    <3>1. i <= rPos \/ i = rPos + 1
      BY <1>1, <2>1, <2>7
    <3> QED
      BY <2>1, <2>6, <3>1 DEF RetryHolds
  <2> QED
    BY <2>1, <2>4, <2>7 DEF RetryHolds
<1> QED
  BY <1>3, <1>4, <1>5, <1>6, <1>7, <1>8, <1>9

(* The transaction of the retry consumer takes its messages to a place where they are kept. *)
LEMMA RetryAcknowledges ==
    ASSUME TypeInv, [Next]_vars, NEW b \in 0..Len(batchLog),
           NEW r \in 0..Len(retryLog), RetryHolds(r), Kept(b, r),
           RetryCommit \/ RetryCommitUnknown
    PROVE  \E r1 \in r..Len(retryLog) :
               rCommitted' <= r1 /\ RetryHolds(r1)' /\ Kept(b, r1)'
<1>1. /\ retryLog \in Seq(RetryRecord) /\ Len(retryLog) \in Nat
      /\ batchLog \in Seq(Record) /\ Len(batchLog) \in Nat
      /\ rPos \in 0..Len(retryLog) /\ rFirst \in 0..Len(retryLog)
      /\ rLast \in 0..Len(retryLog)
      /\ rtxBatch \in Seq(Record) /\ rtxAgain \in Seq(RetryRecord)
  BY DEF TypeInv, TypeOK, TopicsOK, RetryOK
<1>2. /\ rPc = "commit" /\ batchLog' = batchLog \o rtxBatch /\ retryLog' = retryLog \o rtxAgain
      /\ skipped' = skipped \cup rtxSkip /\ rCommitted' = rLast
      /\ UNCHANGED <<dead, delivered, rejected>>
      /\ NewRetryBatch("idle") \/ NewRetryBatch("read")
      /\ rPos' = rPos \/ rPos' = rFirst - 1
  BY DEF RetryCommit, RetryCommitUnknown, RetryTransaction
<1>3. rFirst # 0 /\ rFirst <= r + 1
  BY <1>2 DEF TypeInv, RetryShape, RetryHolds
<1>4. PICK r1 \in r..Len(retryLog) :
          rPos <= r1 /\ rLast <= r1 /\ \A i \in (r + 1)..r1 : i <= rPos \/ i <= rLast
  <2>1. CASE rPos <= r /\ rLast <= r
    <3>1. r \in r..Len(retryLog) /\ \A i \in (r + 1)..r : FALSE
      BY <1>1
    <3> QED
      BY <2>1, <3>1
  <2>2. CASE rLast <= rPos /\ ~(rPos <= r)
    <3>1. rPos \in r..Len(retryLog) /\ rPos <= rPos /\ \A i \in (r + 1)..rPos : i <= rPos
      BY <1>1, <2>2
    <3> QED
      BY <2>2, <3>1
  <2>3. CASE rPos <= rLast /\ ~(rLast <= r)
    <3>1. rLast \in r..Len(retryLog) /\ rLast <= rLast /\ \A i \in (r + 1)..rLast : i <= rLast
      BY <1>1, <2>3
    <3> QED
      BY <2>3, <3>1
  <2> QED
    BY <1>1, <2>1, <2>2, <2>3
<1>5. rPos' <= r1 /\ rPos' \in Nat /\ r1 \in Nat
  BY <1>1, <1>2, <1>3, <1>4
<1>6. RetryHolds(r1)'
  BY <1>2, <1>5, NewRetryBatchHolds
<1>7. \A m : Settled(m) \/ m \in rtxSkip => Settled(m)'
  BY <1>2 DEF Settled
<1>8. ASSUME NEW i \in (r + 1)..r1, NEW m \in Messages, retryLog[i].msg = m
      PROVE  KeptOne(m, b, r1)'
  <2>1. i <= rPos \/ i <= rLast
    BY <1>4
  <2>2. i \in (r + 1)..Len(retryLog)
    BY <1>1, <1>4
  <2>3. m \in rtxSkip \cup Msgs(rtxBatch) \cup Msgs(rtxAgain)
    BY <1>2, <1>8, <2>1, <2>2 DEF RetryHolds
  <2>4. CASE m \in rtxSkip
    BY <1>7, <2>4 DEF KeptOne
  <2>5. CASE m \in Msgs(rtxBatch)
    <3>1. PICK j \in (Len(batchLog) + 1)..Len(batchLog') : batchLog'[j].msg = m
      BY <1>1, <1>2, <2>5, MsgsConcat
    <3>2. j \in (b + 1)..Len(batchLog')
      BY <1>1, <3>1
    <3> QED
      BY <3>1, <3>2 DEF KeptOne
  <2>6. CASE m \in Msgs(rtxAgain)
    <3>1. PICK j \in (Len(retryLog) + 1)..Len(retryLog') : retryLog'[j].msg = m
      BY <1>1, <1>2, <2>6, MsgsConcat
    <3>2. j \in (r1 + 1)..Len(retryLog')
      BY <1>1, <1>4, <3>1
    <3> QED
      BY <3>1, <3>2 DEF KeptOne
  <2> QED
    BY <2>3, <2>4, <2>5, <2>6
<1>9. b \in b..Len(batchLog) /\ \A i \in (b + 1)..b : FALSE
  BY <1>1
<1>10. Kept(b, r1)'
  BY <1>4, <1>7, <1>8, <1>9, KeptStep
<1> QED
  BY <1>2, <1>3, <1>4, <1>6, <1>10

(* Outcomes are final: no step takes a message out of the sets that settle it. *)
LEMMA SettledForGood == ASSUME [Next]_vars, NEW m, Settled(m) PROVE Settled(m)'
<1> USE DEF outcomes, topics, Settled
<1>1. CASE RunJob \/ ConsumeJSON \/ ConsumeJSONFails \/ StopReading
  BY <1>1 DEF RunJob, ConsumeJSON, ConsumeJSONFails, StopReading
<1>2. CASE \E S \in SUBSET staged : Complete(S) \/ CompleteFails(S)
  BY <1>2 DEF Complete, CompleteFails
<1>3. CASE CommitMessage \/ Rollback \/ MoveFailed \/ CommitMove
  BY <1>3 DEF CommitMessage, Rollback, MoveFailed, CommitMove, MoveTransaction, MovedOffset
<1>4. CASE BatchTrouble
  BY <1>4 DEF BatchTrouble, ConfigChanged, Retired, ReadFails, CommitMessageFails,
     MoveReadRetried, CommitMoveUnknown, MoveTransaction, MovedOffset, ProcessFailedFails,
     BatchRebalance
<1>5. CASE RetryStep \/ RetryTrouble
  BY <1>5, RetryFrame DEF RetryTransaction
<1>6. CASE \E x \in Messages : Produce(x)
  BY <1>6 DEF Produce
<1>7. CASE \E i \in 1..Len(retryLog) : RetryTimeComes(i)
  BY <1>7 DEF RetryTimeComes
<1>8. CASE Crash \/ UNCHANGED vars
  BY <1>8 DEF Crash, vars
<1> QED
  BY <1>1, <1>2, <1>3, <1>4, <1>5, <1>6, <1>7, <1>8 DEF Next, BatchStep

(* Every step keeps some offsets b and r below which all messages are settled or held. *)
LEMMA LossStep == ASSUME ToleratedFaults, TypeInv, LossInv, [Next]_vars PROVE LossInv'
<1>1. PICK b \in 0..Len(batchLog), r \in 0..Len(retryLog) : Held(b, r)
  BY DEF LossInv
<1>2. /\ bCommitted <= b /\ rCommitted <= r
      /\ Kept(b, r) /\ BatchHolds(b) /\ RetryHolds(r)
  BY <1>1 DEF Held
<1>3. /\ batchLog \in Seq(Record) /\ Len(batchLog) \in Nat /\ Len(batchLog') \in Nat
      /\ retryLog \in Seq(RetryRecord) /\ Len(retryLog) \in Nat /\ Len(retryLog') \in Nat
      /\ Len(batchLog) <= Len(batchLog') /\ Len(retryLog) <= Len(retryLog')
      /\ bCommitted \in Nat /\ rCommitted \in Nat
  BY LogsGrow DEF TypeInv, TypeOK, TopicsOK, Grown
<1>4. \A m : Settled(m) => Settled(m)'
  BY SettledForGood
<1>5. ASSUME NEW b1 \in b..Len(batchLog), NEW r1 \in r..Len(retryLog), Held(b1, r1)'
      PROVE  LossInv'
  <2>1. b1 \in 0..Len(batchLog') /\ r1 \in 0..Len(retryLog')
    BY <1>3
  <2> QED
    BY <1>5, <2>1 DEF LossInv
<1>6. b \in b..Len(batchLog) /\ r \in r..Len(retryLog)
  BY <1>3
<1>7. Kept(b, r)'
  <2>1. /\ \A i \in (b + 1)..b : FALSE
        /\ \A i \in (r + 1)..r : FALSE
    BY <1>3
  <2> QED
    BY <1>2, <1>4, <1>6, <2>1, KeptStep
<1>8. CASE BatchStep \/ BatchTrouble
  <2>1. RetryHolds(r)' /\ rCommitted' = rCommitted
    BY <1>2, <1>8, BatchFrame, RetryHoldsFrame
  <2>2. CASE CommitMessage \/ CommitMessageFails \/ CommitMove \/ CommitMoveUnknown
    <3>1. PICK b1 \in b..Len(batchLog) : bCommitted' <= b1 /\ BatchHolds(b1)' /\ Kept(b1, r)'
      BY <1>2, <2>2, BatchAcknowledges
    <3>2. Held(b1, r)'
      BY <1>2, <2>1, <3>1 DEF Held
    <3> QED
      BY <1>5, <1>6, <3>2
  <2>3. CASE ~(CommitMessage \/ CommitMessageFails \/ CommitMove \/ CommitMoveUnknown)
    <3>1. BatchHolds(b)' /\ bCommitted' = bCommitted
      BY <1>2, <1>8, <2>3, BatchReads DEF BatchStep, BatchTrouble
    <3>2. Held(b, r)'
      BY <1>2, <1>7, <2>1, <3>1 DEF Held
    <3> QED
      BY <1>5, <1>6, <3>2
  <2> QED
    BY <2>2, <2>3
<1>9. CASE RetryStep \/ RetryTrouble
  <2>1. BatchHolds(b)' /\ bCommitted' = bCommitted
    BY <1>2, <1>4, <1>9, RetryFrame, BatchHoldsFrame
  <2>2. CASE RetryCommit \/ RetryCommitUnknown
    <3>1. PICK r1 \in r..Len(retryLog) : rCommitted' <= r1 /\ RetryHolds(r1)' /\ Kept(b, r1)'
      BY <1>2, <2>2, RetryAcknowledges
    <3>2. Held(b, r1)'
      BY <1>2, <2>1, <3>1 DEF Held
    <3> QED
      BY <1>5, <1>6, <3>2
  <2>3. CASE ~(RetryCommit \/ RetryCommitUnknown)
    <3>1. RetryHolds(r)' /\ rCommitted' = rCommitted
      BY <1>2, <1>9, <2>3, RetryReads DEF RetryStep, RetryTrouble
    <3>2. Held(b, r)'
      BY <1>2, <1>7, <2>1, <3>1 DEF Held
    <3> QED
      BY <1>5, <1>6, <3>2
  <2> QED
    BY <2>2, <2>3
<1>10. CASE UNCHANGED <<batchVars, retryVars>>
  <2>1. BatchHolds(b)' /\ bCommitted' = bCommitted
    BY <1>2, <1>4, <1>10, BatchHoldsFrame DEF batchVars, batchMem
  <2>2. RetryHolds(r)' /\ rCommitted' = rCommitted
    BY <1>2, <1>10, RetryHoldsFrame DEF retryVars, retryMem
  <2>3. Held(b, r)'
    BY <1>2, <1>7, <2>1, <2>2 DEF Held
  <2> QED
    BY <1>5, <1>6, <2>3
<1>11. ASSUME NEW m \in Messages, Produce(m) PROVE LossInv'
  BY <1>10, <1>11 DEF Produce
<1>12. ASSUME NEW i \in 1..Len(retryLog), RetryTimeComes(i) PROVE LossInv'
  BY <1>10, <1>12 DEF RetryTimeComes
<1>13. CASE Crash
  <2>1. /\ NewBatch("idle") /\ bPos' = bCommitted /\ bCommitted' = bCommitted
        /\ NewRetryBatch("idle") /\ rPos' = rCommitted /\ rCommitted' = rCommitted
    BY <1>13 DEF Crash
  <2>2. BatchHolds(b)' /\ RetryHolds(r)'
    BY <1>2, <1>3, <2>1, NewBatchHolds, NewRetryBatchHolds
  <2>3. Held(b, r)'
    BY <1>2, <1>7, <2>1, <2>2 DEF Held
  <2> QED
    BY <1>5, <1>6, <2>3
<1>14. CASE UNCHANGED vars
  BY <1>10, <1>14 DEF vars
<1> QED
  BY <1>8, <1>9, <1>11, <1>12, <1>13, <1>14 DEF Next

(* No message is lost (NoLoss), for any messages, sizes and retry budget, by  *)
(* any sequence of crashes, rebalances, failed or repeated commits and        *)
(* transactions, as long as no read of the batch loop fails with anything but *)
(* a timeout and no seek of the retry consumer fails.                         *)
THEOREM NothingIsLost == ASSUME ToleratedFaults PROVE Spec => []NoLoss
<1>1. Init => LossInv
  <2> SUFFICES ASSUME Init PROVE LossInv
    OBVIOUS
  <2>1. Len(batchLog) = 0 /\ Len(retryLog) = 0
    BY DEF Init
  <2>2. Kept(0, 0)
    BY <2>1 DEF Kept, Produced
  <2>3. BatchHolds(0) /\ RetryHolds(0) /\ bCommitted <= 0 /\ rCommitted <= 0
    BY <2>1 DEF Init, BatchHolds, RetryHolds
  <2>4. 0 \in 0..Len(batchLog) /\ 0 \in 0..Len(retryLog) /\ Held(0, 0)
    BY <2>1, <2>2, <2>3 DEF Held
  <2> QED
    BY <2>4 DEF LossInv
<1>2. TypeInv /\ LossInv /\ [Next]_vars => LossInv'
  BY LossStep
<1>3. TypeInv /\ LossInv => NoLoss
  <2> SUFFICES ASSUME TypeInv, LossInv PROVE NoLoss
    OBVIOUS
  <2>1. PICK b \in 0..Len(batchLog), r \in 0..Len(retryLog) : Held(b, r)
    BY DEF LossInv
  <2>2. bCommitted <= b /\ rCommitted <= r /\ bCommitted \in Nat /\ rCommitted \in Nat
        /\ Len(batchLog) \in Nat /\ Len(retryLog) \in Nat
    BY <2>1 DEF Held, TypeInv, TypeOK, TopicsOK
  <2>3. \A i \in (b + 1)..Len(batchLog) : i \in (bCommitted + 1)..Len(batchLog)
    BY <2>2
  <2>4. \A i \in (r + 1)..Len(retryLog) : i \in (rCommitted + 1)..Len(retryLog)
    BY <2>2
  <2> QED
    BY <2>1, <2>3, <2>4
    DEF Held, Kept, KeptOne, NoLoss, Pending, PendingBatch, PendingRetry
<1> QED
  BY <1>1, <1>2, <1>3, TypeInit, TypeStep, PTL DEF Spec
-----------------------------------------------------------------------------
(* Dead letters had all their attempts *)

(***************************************************************************)
(* The retries_count header lags behind the loads that failed: by none in    *)
(* the destination topic, by one in the retry topic and in processFailed.     *)
(* The batch that processFailed reads again is the one whose load failed,     *)
(* which a rebalance in the middle of a batch may break.                      *)
(***************************************************************************)
NoRebalance == "rebalance" \notin Faults

(* Every record of s has failed d times more than its header says. *)
Tried(f, s, d) == \A i \in 1..Len(s) : f[s[i].msg] >= s[i].retries + d

RecordsTried ==
    /\ Tried(failures, batchLog, 0) /\ Tried(failures, rtxBatch, 0)
    /\ Tried(failures, retryLog, 1) /\ Tried(failures, rtxAgain, 1)
    /\ Tried(failures, txRetry, 1)
    /\ \A m \in dead \cup txDead : failures[m] = Budget

(* The stream holds the records from the first to the last position. *)
BatchInLoad ==
    bPc \in {"read", "complete"} /\ bFirst # 0 =>
        /\ bLast = bPos /\ bFirst <= bLast
        /\ \A i \in bFirst..bLast : batchLog[i].msg \in staged

(* Their load has failed before processFailed reads them, and it reads no others. *)
BatchTried ==
    /\ bPc \in {"rollback", "move"} =>
         /\ bFirst <= bLast
         /\ \A i \in bFirst..bLast : failures[batchLog[i].msg] >= batchLog[i].retries + 1
    /\ bPc = "move" => bFirst - 1 <= bPos /\ bPos <= bLast /\ (bRead = 0 => bPos < bLast)

(* The invariant behind DeadLettersTried. *)
AttemptInv == RecordsTried /\ BatchInLoad /\ BatchTried

(* Failed loads are never uncounted. *)
LEMMA FailuresGrow ==
    ASSUME TypeInv, [Next]_vars
    PROVE  /\ failures \in [Messages -> 0..Budget] /\ failures' \in [Messages -> 0..Budget]
           /\ \A m \in Messages : failures[m] <= failures'[m]
<1>1. failures \in [Messages -> 0..Budget] /\ failures' \in [Messages -> 0..Budget]
  BY OutcomesStep DEF TypeInv, TypeOK, OutcomesOK
<1>2. ASSUME NEW S, CountFailure(S) PROVE \A m \in Messages : failures[m] <= failures'[m]
  BY <1>1, <1>2, ConstantsAssumption DEF CountFailure, Budget
<1>3. ASSUME UNCHANGED failures PROVE \A m \in Messages : failures[m] <= failures'[m]
  BY <1>1, <1>3, ConstantsAssumption DEF Budget
<1>4. CASE RunJob \/ ConsumeJSON \/ StopReading
  BY <1>1, <1>3, <1>4 DEF RunJob, ConsumeJSON, StopReading, outcomes
<1>5. CASE ConsumeJSONFails
  BY <1>1, <1>2, <1>5 DEF ConsumeJSONFails
<1>6. ASSUME NEW S \in SUBSET staged, Complete(S) \/ CompleteFails(S)
      PROVE  \A m \in Messages : failures[m] <= failures'[m]
  BY <1>2, <1>3, <1>6 DEF Complete, CompleteFails
<1>7. CASE CommitMessage \/ Rollback \/ MoveFailed \/ CommitMove
  BY <1>1, <1>3, <1>7
  DEF CommitMessage, Rollback, MoveFailed, CommitMove, MoveTransaction, outcomes
<1>8. CASE BatchTrouble
  BY <1>1, <1>3, <1>8
  DEF BatchTrouble, ConfigChanged, Retired, ReadFails, CommitMessageFails, CommitMoveUnknown,
      MoveTransaction, MoveReadRetried, ProcessFailedFails, BatchRebalance, outcomes
<1>9. CASE RetryStep \/ RetryTrouble
  BY <1>1, <1>3, <1>9, RetryFrame
<1>10. CASE (\E m \in Messages : Produce(m)) \/ (\E i \in 1..Len(retryLog) : RetryTimeComes(i))
  BY <1>1, <1>3, <1>10 DEF Produce, RetryTimeComes, outcomes
<1>11. CASE Crash \/ UNCHANGED vars
  BY <1>1, <1>3, <1>11 DEF Crash, vars, outcomes
<1> QED
  BY <1>1, <1>4, <1>5, <1>6, <1>7, <1>8, <1>9, <1>10, <1>11 DEF Next, BatchStep

(* What was tried often enough stays so when more loads fail. *)
LEMMA TriedMore ==
    ASSUME NEW f \in [Messages -> 0..Budget], NEW g \in [Messages -> 0..Budget],
           \A m \in Messages : f[m] <= g[m],
           NEW d \in 0..1, NEW s, s \in Seq(Record) \/ s \in Seq(RetryRecord), Tried(f, s, d)
    PROVE  Tried(g, s, d)
<1> SUFFICES ASSUME NEW i \in 1..Len(s) PROVE g[s[i].msg] >= s[i].retries + d
  BY DEF Tried
<1>1. s[i] \in Record \/ s[i] \in RetryRecord
  OBVIOUS
<1>2. s[i].msg \in Messages /\ s[i].retries \in Int
  BY <1>1, ConstantsAssumption DEF Record, RetryRecord
<1>3. f[s[i].msg] >= s[i].retries + d
  BY DEF Tried
<1> QED
  BY <1>2, <1>3, ConstantsAssumption DEF Budget

(* A sequence of records that were tried often enough gets another one. *)
LEMMA TriedAppend ==
    ASSUME NEW R, NEW f, NEW d, NEW s \in Seq(R), Tried(f, s, d),
           NEW x \in R, f[x.msg] >= x.retries + d
    PROVE  Tried(f, Append(s, x), d)
<1> SUFFICES ASSUME NEW i \in 1..Len(Append(s, x))
             PROVE  f[Append(s, x)[i].msg] >= Append(s, x)[i].retries + d
  BY DEF Tried
<1>1. (i \in 1..Len(s) /\ Append(s, x)[i] = s[i]) \/ Append(s, x)[i] = x
  OBVIOUS
<1> QED
  BY <1>1 DEF Tried

(* Two sequences of records that were tried often enough, put together. *)
LEMMA TriedConcat ==
    ASSUME NEW R, NEW f, NEW d, NEW s \in Seq(R), Tried(f, s, d), NEW t \in Seq(R), Tried(f, t, d)
    PROVE  Tried(f, s \o t, d)
<1> SUFFICES ASSUME NEW i \in 1..Len(s \o t)
             PROVE  f[(s \o t)[i].msg] >= (s \o t)[i].retries + d
  BY DEF Tried
<1>1. CASE i <= Len(s)
  <2>1. i \in 1..Len(s) /\ (s \o t)[i] = s[i]
    BY <1>1
  <2> QED
    BY <2>1 DEF Tried
<1>2. CASE ~(i <= Len(s))
  <2>1. i - Len(s) \in 1..Len(t) /\ (s \o t)[i] = t[i - Len(s)]
    BY <1>2
  <2> QED
    BY <2>1 DEF Tried
<1> QED
  BY <1>1, <1>2

(* The headers of the records keep behind the failures, and so do the dead letters. *)
LEMMA RecordsStep == ASSUME TypeInv, AttemptInv, [Next]_vars PROVE RecordsTried'
<1>1. /\ batchLog \in Seq(Record) /\ retryLog \in Seq(RetryRecord)
      /\ rtxBatch \in Seq(Record) /\ rtxAgain \in Seq(RetryRecord)
      /\ txRetry \in Seq(RetryRecord) /\ dead \subseteq Messages /\ txDead \subseteq Messages
      /\ bPos \in 0..Len(batchLog) /\ bFirst \in 0..Len(batchLog) /\ bLast \in 0..Len(batchLog)
      /\ rPos \in 0..Len(retryLog) /\ bRead \in Nat
  BY DEF TypeInv, TypeOK, TopicsOK, BatchOK, RetryOK
<1>2. /\ batchLog' \in Seq(Record) /\ retryLog' \in Seq(RetryRecord)
      /\ rtxBatch' \in Seq(Record) /\ rtxAgain' \in Seq(RetryRecord)
      /\ txRetry' \in Seq(RetryRecord) /\ dead' \subseteq Messages /\ txDead' \subseteq Messages
  BY TypeStep DEF TypeInv, TypeOK, TopicsOK, BatchOK, RetryOK
<1>3. RecordsTried /\ BatchTried
  BY DEF AttemptInv
<1>4. /\ failures \in [Messages -> 0..Budget] /\ failures' \in [Messages -> 0..Budget]
      /\ \A m \in Messages : failures[m] <= failures'[m]
  BY FailuresGrow
<1>5. ASSUME Tried(failures, batchLog', 0), Tried(failures, rtxBatch', 0),
             Tried(failures, retryLog', 1), Tried(failures, rtxAgain', 1),
             Tried(failures, txRetry', 1), \A m \in dead' \cup txDead' : failures[m] = Budget
      PROVE  RecordsTried'
  <2>1. ASSUME NEW s, s \in Seq(Record) \/ s \in Seq(RetryRecord), NEW d \in 0..1,
               Tried(failures, s, d)
        PROVE  Tried(failures', s, d)
    BY <1>4, <2>1, TriedMore
  <2>2. 0 \in 0..1 /\ 1 \in 0..1
    OBVIOUS
  <2>3. /\ Tried(failures', batchLog', 0) /\ Tried(failures', rtxBatch', 0)
        /\ Tried(failures', retryLog', 1) /\ Tried(failures', rtxAgain', 1)
        /\ Tried(failures', txRetry', 1)
    BY <1>2, <1>5, <2>1, <2>2, Zenon
  <2>4. \A m \in dead' \cup txDead' : failures'[m] = Budget
    <3> TAKE m \in dead' \cup txDead'
    <3>1. m \in Messages /\ failures[m] = Budget
      BY <1>2, <1>5
    <3> QED
      BY <1>4, <3>1, ConstantsAssumption DEF Budget
  <2> QED
    BY <2>3, <2>4 DEF RecordsTried
<1>6. \A d \in 0..1 : Tried(failures, <<>>, d)
  BY DEF Tried
<1>7. ASSUME UNCHANGED <<batchLog, retryLog, dead>>,
             (txRetry' = txRetry /\ txDead' = txDead) \/ (txRetry' = <<>> /\ txDead' = {}),
             \/ rtxBatch' = rtxBatch /\ rtxAgain' = rtxAgain
             \/ rtxBatch' = <<>> /\ rtxAgain' = <<>>
      PROVE  RecordsTried'
  BY <1>3, <1>5, <1>6, <1>7 DEF RecordsTried
<1>8. ASSUME NEW m \in Messages, Produce(m) PROVE RecordsTried'
  <2>1. [msg |-> m, retries |-> 0] \in Record /\ failures[m] >= 0 + 0
    BY <1>4, ConstantsAssumption DEF Record, Budget
  <2>2. Tried(failures, batchLog', 0)
    BY <1>1, <1>3, <1>8, <2>1, TriedAppend DEF Produce, RecordsTried
  <2> QED
    BY <1>3, <1>5, <1>8, <2>2
    DEF Produce, RecordsTried, batchVars, batchMem, retryVars, retryMem
<1>9. CASE RunJob \/ ConsumeJSON \/ ConsumeJSONFails \/ StopReading \/ CommitMessage \/ Rollback
  BY <1>7, <1>9
  DEF RunJob, ConsumeJSON, ConsumeJSONFails, StopReading, CommitMessage, Rollback, BatchEnd,
      NewBatch, topics, retryVars, retryMem
<1>10. ASSUME NEW S \in SUBSET staged, Complete(S) \/ CompleteFails(S) PROVE RecordsTried'
  BY <1>7, <1>10 DEF Complete, CompleteFails, topics, retryVars, retryMem
<1>11. CASE MoveFailed
  <2> DEFINE rec == batchLog[bPos + 1]
  <2>1. bPos + 1 \in bFirst..bLast
    BY <1>1, <1>3, <1>11 DEF MoveFailed, TransactionReady, BatchTried
  <2>2. rec \in Record /\ failures[rec.msg] >= rec.retries + 1
    BY <1>1, <1>3, <1>11, <2>1 DEF MoveFailed, BatchTried
  <2>3. UNCHANGED <<batchLog, retryLog, dead, rtxBatch, rtxAgain>>
    BY <1>11 DEF MoveFailed, topics, retryVars, retryMem
  <2>4. CASE NoAttemptsLeft(rec)
    <3>1. failures[rec.msg] = Budget
      BY <1>4, <2>2, <2>4, ConstantsAssumption DEF NoAttemptsLeft, Record, Budget
    <3>2. txDead' = txDead \cup {rec.msg} /\ txRetry' = txRetry
      BY <1>11, <2>4 DEF MoveFailed
    <3> QED
      BY <1>3, <1>5, <2>3, <3>1, <3>2 DEF RecordsTried
  <2>5. CASE ~NoAttemptsLeft(rec)
    <3>1. txRetry' = Append(txRetry, rec) /\ txDead' = txDead
      BY <1>11, <2>5 DEF MoveFailed
    <3>2. rec \in RetryRecord
      BY <2>2, <2>5, ConstantsAssumption DEF NoAttemptsLeft, Record, RetryRecord
    <3>3. Tried(failures, txRetry', 1)
      BY <1>1, <1>3, <2>2, <3>1, <3>2, TriedAppend DEF RecordsTried
    <3> QED
      BY <1>3, <1>5, <2>3, <3>1, <3>3 DEF RecordsTried
  <2> QED
    BY <2>4, <2>5
<1>12. CASE CommitMove \/ CommitMoveUnknown
  <2>1. /\ retryLog' = retryLog \o txRetry /\ dead' = dead \cup txDead
        /\ UNCHANGED <<batchLog, rtxBatch, rtxAgain>>
    BY <1>12 DEF CommitMove, CommitMoveUnknown, MoveTransaction, retryVars, retryMem
  <2>2. (txRetry' = txRetry \/ txRetry' = <<>>) /\ (txDead' = txDead \/ txDead' = {})
    BY <1>12 DEF CommitMove, CommitMoveUnknown, BatchEnd, NewBatch
  <2>3. Tried(failures, retryLog', 1)
    BY <1>1, <1>3, <2>1, TriedConcat DEF RecordsTried
  <2> QED
    BY <1>3, <1>5, <1>6, <2>1, <2>2, <2>3 DEF RecordsTried
<1>13. CASE ConfigChanged \/ Retired \/ ReadFails \/ CommitMessageFails \/ MoveReadRetried
            \/ ProcessFailedFails \/ BatchRebalance
  BY <1>7, <1>13
  DEF ConfigChanged, Retired, ReadFails, CommitMessageFails, MoveReadRetried,
      ProcessFailedFails, BatchRebalance, BatchEnd, NewBatch, topics, retryVars, retryMem
<1>14. CASE Resend
  <2> DEFINE rec == retryLog[rPos + 1]
  <2>1. rPos + 1 \in 1..Len(retryLog)
    BY <1>1, <1>14 DEF Resend, RetryReceive
  <2>2. rec \in RetryRecord /\ failures[rec.msg] >= rec.retries + 1
    BY <1>1, <1>3, <2>1 DEF RecordsTried, Tried
  <2>3. UNCHANGED <<batchLog, retryLog, dead, txRetry, txDead>>
    BY <1>14 DEF Resend, RetryReceive, topics, batchVars, batchMem
  <2>4. CASE rPos + 1 \in rDue
    <3> DEFINE next == [rec EXCEPT !.retries = @ + 1]
    <3>1. rtxBatch' = Append(rtxBatch, next) /\ rtxAgain' = rtxAgain
      BY <1>14, <2>4 DEF Resend
    <3>2. next \in Record /\ failures[next.msg] >= next.retries + 0
      BY <1>4, <2>2, ConstantsAssumption DEF Record, RetryRecord
    <3>3. Tried(failures, rtxBatch', 0)
      BY <1>1, <1>3, <3>1, <3>2, TriedAppend DEF RecordsTried
    <3> QED
      BY <1>3, <1>5, <2>3, <3>1, <3>3 DEF RecordsTried
  <2>5. CASE rPos + 1 \notin rDue
    <3>1. rtxAgain' = Append(rtxAgain, rec) /\ rtxBatch' = rtxBatch
      BY <1>14, <2>5 DEF Resend
    <3>2. Tried(failures, rtxAgain', 1)
      BY <1>1, <1>3, <2>2, <3>1, TriedAppend DEF RecordsTried
    <3> QED
      BY <1>3, <1>5, <2>3, <3>1, <3>2 DEF RecordsTried
  <2> QED
    BY <2>4, <2>5
<1>15. CASE RetryCommit \/ RetryCommitUnknown
  <2>1. /\ batchLog' = batchLog \o rtxBatch /\ retryLog' = retryLog \o rtxAgain
        /\ UNCHANGED <<dead, txRetry, txDead>> /\ rtxBatch' = <<>> /\ rtxAgain' = <<>>
    BY <1>15
    DEF RetryCommit, RetryCommitUnknown, RetryTransaction, NewRetryBatch, batchVars, batchMem
  <2>2. Tried(failures, batchLog \o rtxBatch, 0) /\ Tried(failures, retryLog \o rtxAgain, 1)
    BY <1>1, <1>3, TriedConcat DEF RecordsTried
  <2> QED
    BY <1>3, <1>5, <1>6, <2>1, <2>2 DEF RecordsTried
<1>16. CASE RetryRunJob \/ RetryStopReading \/ RetrySeekFails \/ SkipOversized \/ RetryFails
            \/ RetryRetired \/ RetryRebalance
  BY <1>7, <1>16
  DEF RetryRunJob, RetryStopReading, RetrySeekFails, SkipOversized, RetryReceive, RetryFails,
      RetryRetired, RetryRebalance, NewRetryBatch, topics, batchVars, batchMem
<1>17. ASSUME NEW i \in 1..Len(retryLog), RetryTimeComes(i) PROVE RecordsTried'
  BY <1>7, <1>17 DEF RetryTimeComes, batchVars, batchMem, retryVars, retryMem
<1>18. CASE Crash \/ UNCHANGED vars
  BY <1>7, <1>18
  DEF Crash, NewBatch, NewRetryBatch, vars, topics, batchVars, batchMem, retryVars, retryMem
<1> QED
  BY <1>8, <1>9, <1>10, <1>11, <1>12, <1>13, <1>14, <1>15, <1>16, <1>17, <1>18
  DEF Next, BatchStep, BatchTrouble, RetryStep, RetryTrouble

(* The records of a batch, and whether its load failed, when its consumer is left alone. *)
LEMMA BatchFrameTried ==
    ASSUME TypeInv, AttemptInv, [Next]_vars,
           UNCHANGED <<bPc, bPos, bFirst, bLast, bRead, staged>>
    PROVE  BatchInLoad' /\ BatchTried'
<1>1. /\ batchLog \in Seq(Record) /\ batchLog' \in Seq(Record) /\ Grown(batchLog, batchLog')
      /\ bFirst \in 0..Len(batchLog) /\ bLast \in 0..Len(batchLog)
      /\ bPc \in {"rollback", "move"} => bFirst # 0
  BY LogsGrow DEF TypeInv, TypeOK, TopicsOK, BatchOK, BatchShape
<1>2. ASSUME NEW i \in bFirst..bLast, bFirst # 0
      PROVE  batchLog'[i] = batchLog[i] /\ batchLog[i] \in Record
  BY <1>1, <1>2 DEF Grown
<1>3. BatchInLoad /\ BatchTried
  BY DEF AttemptInv
<1>4. BatchInLoad'
  BY <1>2, <1>3 DEF BatchInLoad
<1>5. ASSUME bPc \in {"rollback", "move"}, NEW i \in bFirst..bLast
      PROVE  failures'[batchLog'[i].msg] >= batchLog'[i].retries + 1
  <2>1. batchLog'[i] = batchLog[i] /\ batchLog[i].msg \in Messages /\ batchLog[i].retries \in Nat
    BY <1>1, <1>2, <1>5, ConstantsAssumption DEF Record
  <2>2. failures[batchLog[i].msg] >= batchLog[i].retries + 1
    BY <1>3, <1>5 DEF BatchTried
  <2> QED
    BY <2>1, <2>2, FailuresGrow, ConstantsAssumption DEF Budget
<1> QED
  BY <1>3, <1>4, <1>5 DEF BatchTried

(* The batch that processFailed moves is the batch whose load failed. *)
LEMMA BatchTriedStep ==
    ASSUME NoRebalance, TypeInv, AttemptInv, [Next]_vars
    PROVE  BatchInLoad' /\ BatchTried'
<1>1. /\ batchLog \in Seq(Record) /\ Len(batchLog) \in Nat /\ bPos \in 0..Len(batchLog)
      /\ bFirst \in 0..Len(batchLog) /\ bLast \in 0..Len(batchLog) /\ bRead \in Nat
      /\ BatchShape /\ staged \subseteq Messages
  BY DEF TypeInv, TypeOK, TopicsOK, BatchOK
<1>2. RecordsTried /\ BatchInLoad /\ BatchTried
  BY DEF AttemptInv
<1>3. failures \in [Messages -> 0..Budget]
  BY FailuresGrow
<1>4. ASSUME NewBatch("idle") \/ NewBatch("read") PROVE BatchInLoad' /\ BatchTried'
  BY <1>4 DEF NewBatch, BatchInLoad, BatchTried
<1>5. ASSUME NEW S, CountFailure(S), NEW i \in 1..Len(batchLog), batchLog[i].msg \in S
      PROVE  failures'[batchLog[i].msg] >= batchLog[i].retries + 1
  <2>1. batchLog[i] \in Record
    BY <1>1
  <2>2. /\ batchLog[i].msg \in Messages /\ batchLog[i].retries \in Nat
        /\ batchLog[i].retries <= MessagesRetryCount
    BY <2>1, ConstantsAssumption DEF Record
  <2>3. failures[batchLog[i].msg] >= batchLog[i].retries
    BY <1>2, <2>2 DEF RecordsTried, Tried
  <2> QED
    BY <1>3, <1>5, <2>2, <2>3, ConstantsAssumption DEF CountFailure, Budget
<1>6. ASSUME Receive, bFirst # 0 => BatchInLoad
      PROVE  /\ bPos' = bPos + 1 /\ bLast' = bPos + 1 /\ bFirst' <= bLast' /\ bFirst' # 0
             /\ \A i \in bFirst'..bLast' :
                   /\ i \in 1..Len(batchLog)
                   /\ batchLog[i].msg \in staged \cup {batchLog[bPos + 1].msg}
  <2>1. CASE bFirst = 0
    BY <1>1, <1>6, <2>1 DEF Receive
  <2>2. CASE bFirst # 0
    <3>1. /\ bPos' = bPos + 1 /\ bLast' = bPos + 1 /\ bFirst' = bFirst /\ bLast = bPos
          /\ bFirst <= bLast /\ bPos < Len(batchLog)
          /\ \A i \in bFirst..bLast : batchLog[i].msg \in staged
      BY <1>2, <1>6, <2>2 DEF Receive, MayRead, BatchInLoad
    <3>2. \A i \in bFirst..(bPos + 1) : i \in bFirst..bLast \/ i = bPos + 1
      BY <1>1, <3>1
    <3> QED
      BY <1>1, <2>2, <3>1, <3>2
  <2> QED
    BY <2>1, <2>2
<1>7. CASE ConsumeJSON
  BY <1>2, <1>6, <1>7
  DEF ConsumeJSON, Receive, MayRead, topics, BatchInLoad, BatchTried
<1>8. CASE ConsumeJSONFails
  <2>1. Receive /\ bPc' = "rollback" /\ batchLog' = batchLog
        /\ CountFailure(staged \cup {batchLog[bPos + 1].msg})
    BY <1>8 DEF ConsumeJSONFails, topics
  <2>2. \A i \in bFirst'..bLast' : failures'[batchLog[i].msg] >= batchLog[i].retries + 1
    BY <1>2, <1>5, <1>6, <2>1
  <2> QED
    BY <1>2, <1>6, <2>1, <2>2 DEF BatchInLoad, BatchTried
<1>9. CASE StopReading
  BY <1>1, <1>2, <1>9 DEF StopReading, topics, BatchShape, BatchInLoad, BatchTried
<1>10. ASSUME NEW S \in SUBSET staged, Complete(S) \/ CompleteFails(S)
       PROVE  BatchInLoad' /\ BatchTried'
  <2>1. CASE Complete(S)
    BY <2>1 DEF Complete, BatchInLoad, BatchTried
  <2>2. CASE CompleteFails(S)
    <3>1. /\ bPc = "complete" /\ bPc' = "rollback" /\ CountFailure(staged)
          /\ UNCHANGED <<batchLog, bFirst, bLast>>
      BY <2>2 DEF CompleteFails, topics
    <3>2. bFirst # 0 /\ bFirst <= bLast /\ \A i \in bFirst..bLast : batchLog[i].msg \in staged
      BY <1>1, <1>2, <3>1 DEF BatchShape, BatchInLoad
    <3>3. \A i \in bFirst..bLast : i \in 1..Len(batchLog)
      BY <1>1, <3>2
    <3>4. \A i \in bFirst..bLast : failures'[batchLog[i].msg] >= batchLog[i].retries + 1
      BY <1>5, <3>1, <3>2, <3>3
    <3> QED
      BY <3>1, <3>2, <3>4 DEF BatchInLoad, BatchTried
  <2> QED
    BY <1>10, <2>1, <2>2
<1>11. CASE Rollback
  BY <1>1, <1>2, <1>11
  DEF Rollback, RollbackPosition, topics, outcomes, BatchInLoad, BatchTried
<1>12. CASE MoveFailed \/ MoveReadRetried
  BY <1>1, <1>2, <1>12
  DEF MoveFailed, MoveReadRetried, TransactionReady, topics, outcomes, BatchInLoad, BatchTried
<1>13. CASE CommitMove
  <2>1. CASE bPos = bLast
    BY <1>4, <1>13, <2>1 DEF CommitMove, BatchEnd
  <2>2. CASE bPos # bLast
    <3>1. /\ bPc = "move" /\ bPc' = "move" /\ bRead' = 0
          /\ UNCHANGED <<batchLog, bPos, bFirst, bLast, failures>>
      BY <1>13, <2>2 DEF CommitMove, MoveTransaction, outcomes
    <3> QED
      BY <1>1, <1>2, <2>2, <3>1 DEF BatchInLoad, BatchTried
  <2> QED
    BY <2>1, <2>2
<1>14. CASE \/ RunJob \/ CommitMessage \/ ConfigChanged \/ Retired \/ ReadFails
            \/ CommitMessageFails \/ CommitMoveUnknown \/ ProcessFailedFails \/ Crash
  BY <1>4, <1>14
  DEF RunJob, CommitMessage, ConfigChanged, Retired, ReadFails, CommitMessageFails,
      CommitMoveUnknown, ProcessFailedFails, Crash, BatchEnd
<1>15. ~BatchRebalance
  BY DEF BatchRebalance, Fault, NoRebalance
<1>16. CASE RetryStep \/ RetryTrouble
  BY <1>16, RetryFrame, BatchFrameTried
<1>17. ASSUME NEW m \in Messages, Produce(m) PROVE BatchInLoad' /\ BatchTried'
  BY <1>17, BatchFrameTried DEF Produce, batchVars, batchMem
<1>18. ASSUME NEW i \in 1..Len(retryLog), RetryTimeComes(i) PROVE BatchInLoad' /\ BatchTried'
  BY <1>18, BatchFrameTried DEF RetryTimeComes, batchVars, batchMem
<1>19. CASE UNCHANGED vars
  BY <1>19, BatchFrameTried DEF vars, batchVars, batchMem
<1> QED
  BY <1>7, <1>8, <1>9, <1>10, <1>11, <1>12, <1>13, <1>14, <1>15, <1>16, <1>17, <1>18, <1>19
  DEF Next, BatchStep, BatchTrouble

(* A message is dead-lettered only after MessagesRetryCount + 1 loads with it  *)
(* failed, as long as the group does not rebalance (DeadAfterAllAttempts), for *)
(* any messages, sizes, retry budget and number of faults: what processFailed   *)
(* reads again is then what the failed load contained.                          *)
THEOREM DeadLettersTried == Spec => []DeadAfterAllAttempts
<1>1. Init => AttemptInv
  <2> SUFFICES ASSUME Init PROVE AttemptInv
    OBVIOUS
  <2>1. \A f, d : Tried(f, <<>>, d)
    BY DEF Tried
  <2>2. RecordsTried
    BY <2>1 DEF Init, RecordsTried
  <2>3. BatchInLoad /\ BatchTried
    BY DEF Init, BatchInLoad, BatchTried
  <2> QED
    BY <2>2, <2>3 DEF AttemptInv
<1>2. TypeInv /\ (NoRebalance => AttemptInv) /\ [Next]_vars => (NoRebalance => AttemptInv)'
  BY RecordsStep, BatchTriedStep DEF AttemptInv, NoRebalance
<1>3. (NoRebalance => AttemptInv) => DeadAfterAllAttempts
  BY DEF AttemptInv, RecordsTried, DeadAfterAllAttempts, AllAttemptsMade, NoRebalance
<1> QED
  BY <1>1, <1>2, <1>3, TypeInit, TypeStep, PTL DEF Spec
-----------------------------------------------------------------------------
(* Exactly once without faults *)

(* The messages of the records of log after c and up to p. *)
Part(log, c, p) == {log[i].msg : i \in (c + 1)..p}

(* No message has two records after c. *)
Once(log, c) == \A i, j \in (c + 1)..Len(log) : log[i].msg = log[j].msg => i = j

(* The unacknowledged messages of either topic, and those with an outcome. *)
OpenBatch == Part(batchLog, bCommitted, Len(batchLog))
OpenRetry == Part(retryLog, rCommitted, Len(retryLog))
Outcomes == delivered \cup rejected \cup dead \cup skipped

(* Every message is in one place: a single open record of one topic, or an    *)
(* outcome; in both only while its load is waiting for the offset commit.     *)
OnePlace ==
    /\ Once(batchLog, bCommitted) /\ Once(retryLog, rCommitted)
    /\ OpenBatch \cap OpenRetry = {}
    /\ Produced = OpenBatch \cup OpenRetry \cup Outcomes
    /\ Outcomes \cap OpenRetry = {}
    /\ bPc # "commit" => Outcomes \cap OpenBatch = {}
    /\ bPc = "commit" => Outcomes \cap OpenBatch = staged
    /\ delivered \cap (rejected \cup dead) = {}

(* The batch consumer holds just what it has read beyond its committed offset. *)
BatchExact ==
    /\ bCommitted <= bPos
    /\ bPc = "idle" => bPos = bCommitted
    /\ bPc = "read" /\ bFirst = 0 => bPos = bCommitted
    /\ bFirst # 0 /\ bPc \in {"read", "complete", "commit", "rollback"} =>
         bFirst = bCommitted + 1 /\ bLast = bPos
    /\ bPc \in {"read", "complete", "commit"} => staged = Part(batchLog, bCommitted, bPos)
    /\ bPc = "move" =>
         /\ txDead \cup Msgs(txRetry) = Part(batchLog, bCommitted, bPos)
         /\ txDead \cap Msgs(txRetry) = {} /\ Once(txRetry, 0)
    /\ bPc # "move" => txRetry = <<>> /\ txDead = {}

(* The open transaction of the retry consumer carries just what it has read. *)
RetryExact ==
    /\ rCommitted <= rPos
    /\ rPc = "idle" => rPos = rCommitted
    /\ rFirst = 0 /\ rPc = "read" => rPos = rCommitted
    /\ rFirst # 0 /\ rPc \in {"read", "commit"} => rLast = rPos
    /\ rtxSkip = {}
    /\ rPc \in {"read", "commit"} =>
         /\ Msgs(rtxBatch) \cup Msgs(rtxAgain) = Part(retryLog, rCommitted, rPos)
         /\ Msgs(rtxBatch) \cap Msgs(rtxAgain) = {}
         /\ Once(rtxBatch, 0) /\ Once(rtxAgain, 0)

(* The invariant behind ExactlyOnce. *)
OnceInv == faults = 0 => OnePlace /\ BatchExact /\ RetryExact

(* How the open part of a log shrinks when its records are acknowledged up to p. *)
LEMMA PartSplit ==
    ASSUME NEW R, NEW s \in Seq(R), NEW c \in 0..Len(s), NEW p \in c..Len(s)
    PROVE  /\ Part(s, c, Len(s)) = Part(s, c, p) \cup Part(s, p, Len(s))
           /\ Once(s, c) => Once(s, p) /\ Part(s, c, p) \cap Part(s, p, Len(s)) = {}
<1>1. Len(s) \in Nat
  OBVIOUS
<1>2. \A i : i \in (c + 1)..Len(s) <=> i \in (c + 1)..p \/ i \in (p + 1)..Len(s)
  BY <1>1
<1>3. Part(s, c, Len(s)) = Part(s, c, p) \cup Part(s, p, Len(s))
  BY <1>2 DEF Part
<1>4. ASSUME Once(s, c) PROVE Once(s, p) /\ Part(s, c, p) \cap Part(s, p, Len(s)) = {}
  <2>1. \A i \in (c + 1)..p, j \in (p + 1)..Len(s) : i # j
    BY <1>1
  <2> QED
    BY <1>2, <1>4, <2>1 DEF Once, Part
<1> QED
  BY <1>3, <1>4

(* One more record read. *)
LEMMA PartNext ==
    ASSUME NEW R, NEW s \in Seq(R), NEW c \in 0..Len(s), NEW p \in c..(Len(s) - 1)
    PROVE  /\ Part(s, c, p + 1) = Part(s, c, p) \cup {s[p + 1].msg}
           /\ Once(s, c) => s[p + 1].msg \notin Part(s, c, p)
           /\ s[p + 1] \in R
<1>1. Len(s) \in Nat
  OBVIOUS
<1>2. \A i : i \in (c + 1)..(p + 1) <=> i \in (c + 1)..p \/ i = p + 1
  BY <1>1
<1>3. \A i \in (c + 1)..p : i \in (c + 1)..Len(s) /\ i # p + 1
  BY <1>1
<1>4. p + 1 \in (c + 1)..Len(s)
  BY <1>1
<1>5. s[p + 1] \in R
  BY <1>1
<1>6. Part(s, c, p + 1) = Part(s, c, p) \cup {s[p + 1].msg}
  BY <1>2 DEF Part
<1> QED
  BY <1>3, <1>4, <1>5, <1>6 DEF Once, Part

(* Records appended by a transaction. *)
LEMMA PartConcat ==
    ASSUME NEW R, NEW s \in Seq(R), NEW t \in Seq(R), NEW c \in 0..Len(s)
    PROVE  /\ Part(s \o t, c, Len(s \o t)) = Part(s, c, Len(s)) \cup Msgs(t)
           /\ Once(s, c) /\ Once(t, 0) /\ Part(s, c, Len(s)) \cap Msgs(t) = {} => Once(s \o t, c)
           /\ \A p \in 0..Len(s) : Part(s \o t, c, p) = Part(s, c, p)
<1> DEFINE u == s \o t
<1>1. /\ Len(s) \in Nat /\ Len(t) \in Nat /\ Len(u) = Len(s) + Len(t)
      /\ \A i \in 1..Len(s) : u[i] = s[i]
      /\ \A i \in 1..Len(t) : u[Len(s) + i] = t[i]
  BY ConcatGrows DEF Grown
<1> HIDE DEF u
<1>2. \A i \in (c + 1)..Len(s) : i \in (c + 1)..Len(u) /\ u[i] = s[i]
  BY <1>1
<1>3. \A i \in 1..Len(t) : Len(s) + i \in (c + 1)..Len(u) /\ u[Len(s) + i] = t[i]
  BY <1>1
<1>4. \A i \in (c + 1)..Len(u) :
          \/ i \in (c + 1)..Len(s) /\ u[i] = s[i]
          \/ i - Len(s) \in 1..Len(t) /\ u[i] = t[i - Len(s)]
  <2> TAKE i \in (c + 1)..Len(u)
  <2>1. CASE i <= Len(s)
    BY <1>1, <2>1
  <2>2. CASE ~(i <= Len(s))
    <3>1. i - Len(s) \in 1..Len(t) /\ Len(s) + (i - Len(s)) = i
      BY <1>1, <2>2
    <3> QED
      BY <1>1, <3>1
  <2> QED
    BY <2>1, <2>2
<1>5. Part(u, c, Len(u)) = Part(s, c, Len(s)) \cup Msgs(t)
  <2>1. Part(u, c, Len(u)) \subseteq Part(s, c, Len(s)) \cup Msgs(t)
    BY <1>4 DEF Part, Msgs
  <2>2. Part(s, c, Len(s)) \subseteq Part(u, c, Len(u))
    BY <1>2 DEF Part
  <2>3. Msgs(t) \subseteq Part(u, c, Len(u))
    BY <1>3 DEF Part, Msgs
  <2> QED
    BY <2>1, <2>2, <2>3
<1>6. ASSUME Once(s, c), Once(t, 0), Part(s, c, Len(s)) \cap Msgs(t) = {} PROVE Once(u, c)
  <2> SUFFICES ASSUME NEW i \in (c + 1)..Len(u), NEW j \in (c + 1)..Len(u), u[i].msg = u[j].msg
               PROVE  i = j
    BY DEF Once
  <2>1. CASE i \in (c + 1)..Len(s) /\ u[i] = s[i] /\ j \in (c + 1)..Len(s) /\ u[j] = s[j]
    BY <1>6, <2>1 DEF Once
  <2>2. CASE i - Len(s) \in 1..Len(t) /\ u[i] = t[i - Len(s)] /\ j - Len(s) \in 1..Len(t) /\ u[j] = t[j - Len(s)]
    <3>1. i - Len(s) \in (0 + 1)..Len(t) /\ j - Len(s) \in (0 + 1)..Len(t)
      BY <1>1, <2>2
    <3>2. i - Len(s) = j - Len(s)
      BY <1>6, <2>2, <3>1 DEF Once
    <3> QED
      BY <1>1, <3>2
  <2>3. CASE i \in (c + 1)..Len(s) /\ u[i] = s[i] /\ j - Len(s) \in 1..Len(t) /\ u[j] = t[j - Len(s)]
    <3>1. u[i].msg \in Part(s, c, Len(s)) /\ u[j].msg \in Msgs(t)
      BY <2>3 DEF Part, Msgs
    <3> QED
      BY <1>6, <3>1
  <2>4. CASE j \in (c + 1)..Len(s) /\ u[j] = s[j] /\ i - Len(s) \in 1..Len(t) /\ u[i] = t[i - Len(s)]
    <3>1. u[j].msg \in Part(s, c, Len(s)) /\ u[i].msg \in Msgs(t)
      BY <2>4 DEF Part, Msgs
    <3> QED
      BY <1>6, <3>1
  <2> QED
    BY <1>4, <2>1, <2>2, <2>3, <2>4
<1>7. ASSUME NEW p \in 0..Len(s) PROVE Part(u, c, p) = Part(s, c, p)
  <2>1. \A i \in (c + 1)..p : u[i] = s[i]
    BY <1>1
  <2> QED
    BY <2>1 DEF Part
<1> QED
  BY <1>5, <1>6, <1>7 DEF u

(* One record appended. *)
LEMMA PartAppend ==
    ASSUME NEW R, NEW s \in Seq(R), NEW x \in R, NEW c \in 0..Len(s)
    PROVE  /\ Part(Append(s, x), c, Len(Append(s, x))) = Part(s, c, Len(s)) \cup {x.msg}
           /\ Once(s, c) /\ x.msg \notin Part(s, c, Len(s)) => Once(Append(s, x), c)
           /\ \A p \in 0..Len(s) : Part(Append(s, x), c, p) = Part(s, c, p)
<1>1. <<x>> \in Seq(R) /\ Len(<<x>>) = 1 /\ <<x>>[1] = x
  OBVIOUS
<1>2. Append(s, x) = s \o <<x>>
  OBVIOUS
<1>3. Msgs(<<x>>) = {x.msg}
  <2>1. 1..Len(<<x>>) = {1}
    BY <1>1
  <2> QED
    BY <1>1, <2>1 DEF Msgs
<1>4. Once(<<x>>, 0)
  BY <1>1 DEF Once
<1> DEFINE t == <<x>>
<1>5. t \in Seq(R) /\ Append(s, x) = s \o t /\ Msgs(t) = {x.msg} /\ Once(t, 0)
  BY <1>1, <1>2, <1>3, <1>4
<1> HIDE DEF t
<1>6. /\ Part(s \o t, c, Len(s \o t)) = Part(s, c, Len(s)) \cup Msgs(t)
      /\ Once(s, c) /\ Once(t, 0) /\ Part(s, c, Len(s)) \cap Msgs(t) = {} => Once(s \o t, c)
      /\ \A p \in 0..Len(s) : Part(s \o t, c, p) = Part(s, c, p)
  BY <1>5, PartConcat
<1>7. x.msg \notin Part(s, c, Len(s)) => Part(s, c, Len(s)) \cap Msgs(t) = {}
  BY <1>5
<1> QED
  BY <1>5, <1>6, <1>7

(* The messages of a whole sequence. *)
LEMMA PartWhole ==
    ASSUME NEW R, NEW s \in Seq(R)
    PROVE  Part(s, 0, Len(s)) = Msgs(s)
BY DEF Part, Msgs

(* A message appended to an open transaction. *)
LEMMA TxAppend ==
    ASSUME NEW R, NEW s \in Seq(R), NEW x \in R, Once(s, 0), x.msg \notin Msgs(s)
    PROVE  Once(Append(s, x), 0)
<1>1. 0 \in 0..Len(s)
  OBVIOUS
<1> QED
  BY <1>1, PartAppend, PartWhole

(* The steps that are no faults. *)
LEMMA NoFaultStep ==
    ASSUME TypeInv, [Next]_vars, faults' = 0
    PROVE  /\ faults = 0
           /\ \/ \E m \in Messages : Produce(m)
              \/ RunJob \/ ConsumeJSON \/ ConsumeJSONFails \/ StopReading
              \/ \E S \in SUBSET staged : Complete(S)
              \/ CompleteFails({})
              \/ CommitMessage \/ Rollback \/ MoveFailed \/ CommitMove
              \/ \E i \in 1..Len(retryLog) : RetryTimeComes(i)
              \/ RetryRunJob \/ Resend \/ RetryStopReading \/ RetryCommit
              \/ UNCHANGED vars
<1>1. faults \in Nat
  BY DEF TypeInv, TypeOK, OutcomesOK
<1>2. \A k : ~Fault(k)
  BY <1>1 DEF Fault
<1>3. ~BatchTrouble /\ ~RetryTrouble /\ ~Crash
  BY <1>2 DEF BatchTrouble, RetryTrouble, Crash, ConfigChanged, Retired, ReadFails, CommitMessageFails,
     MoveReadRetried, CommitMoveUnknown, ProcessFailedFails, BatchRebalance, RetrySeekFails,
     SkipOversized, RetryCommitUnknown, RetryFails, RetryRetired, RetryRebalance
<1>4. ASSUME NEW S \in SUBSET staged, CompleteFails(S) PROVE CompleteFails({})
  BY <1>2, <1>4 DEF CompleteFails
<1>5. \/ \E m \in Messages : Produce(m)
      \/ RunJob \/ ConsumeJSON \/ ConsumeJSONFails \/ StopReading
      \/ \E S \in SUBSET staged : Complete(S)
      \/ CompleteFails({})
      \/ CommitMessage \/ Rollback \/ MoveFailed \/ CommitMove
      \/ \E i \in 1..Len(retryLog) : RetryTimeComes(i)
      \/ RetryRunJob \/ Resend \/ RetryStopReading \/ RetryCommit
      \/ UNCHANGED vars
  BY <1>3, <1>4 DEF Next, BatchStep, RetryStep
<1>6. faults' = faults
  <2>1. CASE \/ \E m \in Messages : Produce(m)
             \/ RunJob \/ ConsumeJSON \/ ConsumeJSONFails
             \/ \E S \in SUBSET staged : Complete(S)
             \/ CommitMessage \/ Rollback \/ MoveFailed \/ CommitMove
             \/ \E i \in 1..Len(retryLog) : RetryTimeComes(i)
             \/ Resend \/ RetryCommit \/ UNCHANGED vars
    BY <2>1 DEF Produce, RunJob, ConsumeJSON, ConsumeJSONFails, Complete, CommitMessage, Rollback,
       MoveFailed, CommitMove, RetryTimeComes, Resend, RetryCommit, vars
  <2>2. CASE CompleteFails({})
    BY <1>2, <2>2 DEF CompleteFails
  <2>3. CASE StopReading
    BY <1>2, <2>3 DEF StopReading
  <2>4. CASE RetryRunJob \/ RetryStopReading
    BY <1>2, <2>4 DEF RetryRunJob, RetryStopReading
  <2> QED
    BY <1>5, <2>1, <2>2, <2>3, <2>4
<1> QED
  BY <1>5, <1>6

(* Growth of a log leaves the part that was read as it was. *)
LEMMA PartGrown ==
    ASSUME NEW R, NEW s \in Seq(R), NEW t \in Seq(R), Grown(s, t),
           NEW c \in 0..Len(s), NEW p \in 0..Len(s)
    PROVE  Part(t, c, p) = Part(s, c, p)
<1>1. \A i \in (c + 1)..p : t[i] = s[i]
  BY DEF Grown
<1> QED
  BY <1>1 DEF Part

(* The types the steps below rest on. *)
LEMMA OnceTypes ==
    ASSUME TypeInv
    PROVE  /\ batchLog \in Seq(Record) /\ Len(batchLog) \in Nat
           /\ retryLog \in Seq(RetryRecord) /\ Len(retryLog) \in Nat
           /\ bCommitted \in 0..Len(batchLog) /\ bPos \in 0..Len(batchLog)
           /\ bFirst \in Nat /\ bLast \in 0..Len(batchLog) /\ bRead \in Nat
           /\ rCommitted \in 0..Len(retryLog) /\ rPos \in 0..Len(retryLog)
           /\ rFirst \in Nat /\ rLast \in 0..Len(retryLog) /\ rRead \in Nat
           /\ txRetry \in Seq(RetryRecord) /\ rtxBatch \in Seq(Record)
           /\ rtxAgain \in Seq(RetryRecord)
           /\ bPc \in {"idle", "read", "complete", "commit", "rollback", "move"}
           /\ rPc \in {"idle", "read", "commit"}
           /\ Produced = Part(batchLog, 0, Len(batchLog))
BY DEF TypeInv, TypeOK, TopicsOK, BatchOK, RetryOK, Produced, Part

(* A consumer's part of the invariant survives the other consumer's steps. *)
LEMMA RetryExactFrame ==
    ASSUME TypeInv, [Next]_vars, RetryExact,
           UNCHANGED <<rCommitted, rPc, rPos, rFirst, rLast, rtxBatch, rtxAgain, rtxSkip>>
    PROVE  RetryExact'
<1>1. Part(retryLog', rCommitted, rPos) = Part(retryLog, rCommitted, rPos)
  BY LogsGrow, OnceTypes, PartGrown
<1> QED
  BY <1>1 DEF RetryExact

(* The batch consumer's part survives steps that leave its state alone. *)
LEMMA BatchExactFrame ==
    ASSUME TypeInv, [Next]_vars, BatchExact,
           UNCHANGED <<bCommitted, bPc, bPos, bFirst, bLast, staged, txRetry, txDead>>
    PROVE  BatchExact'
<1>1. Part(batchLog', bCommitted, bPos) = Part(batchLog, bCommitted, bPos)
  BY LogsGrow, OnceTypes, PartGrown
<1> QED
  BY <1>1 DEF BatchExact

(* Nothing changes place when neither logs nor offsets nor outcomes change. *)
LEMMA OnePlaceFrame ==
    ASSUME OnePlace,
           UNCHANGED <<batchLog, retryLog, bCommitted, rCommitted, delivered, rejected, dead, skipped>>,
           \/ UNCHANGED <<bPc, staged>>
           \/ bPc # "commit" /\ bPc' # "commit"
    PROVE  OnePlace'
<1>1. OpenBatch' = OpenBatch /\ OpenRetry' = OpenRetry /\ Outcomes' = Outcomes /\ Produced' = Produced
  BY DEF OpenBatch, OpenRetry, Outcomes, Produced
<1>2. Once(batchLog, bCommitted)' /\ Once(retryLog, rCommitted)'
  BY DEF OnePlace
<1> QED
  BY <1>1, <1>2 DEF OnePlace

(* The batch consumer reads, loads and reads again what it could not load. *)
LEMMA BatchOnce ==
    ASSUME TypeInv, [Next]_vars, OnePlace, BatchExact,
           \/ RunJob \/ ConsumeJSON \/ ConsumeJSONFails \/ StopReading
           \/ CompleteFails({}) \/ Rollback \/ MoveFailed
    PROVE  OnePlace' /\ BatchExact'
<1>1. /\ batchLog \in Seq(Record) /\ Len(batchLog) \in Nat
      /\ bCommitted \in 0..Len(batchLog) /\ bPos \in 0..Len(batchLog)
      /\ bFirst \in Nat /\ bLast \in 0..Len(batchLog)
      /\ txRetry \in Seq(RetryRecord)
  BY OnceTypes
<1>2. /\ UNCHANGED <<batchLog, retryLog, bCommitted, rCommitted, delivered, rejected, dead, skipped>>
      /\ bPc # "commit" /\ bPc' # "commit"
  BY DEF RunJob, ConsumeJSON, ConsumeJSONFails, StopReading, CompleteFails, Rollback, MoveFailed,
     topics, outcomes, retryVars, NewBatch, Receive, MayRead
<1>3. OnePlace'
  BY <1>2, OnePlaceFrame
<1>4. Part(batchLog, bCommitted, bCommitted) = {} /\ Msgs(<<>>) = {} /\ Once(<<>>, 0)
  <2>1. \A i : i \notin (bCommitted + 1)..bCommitted
    BY <1>1
  <2> QED
    BY <2>1 DEF Part, Msgs, Once
<1>5. ASSUME RunJob PROVE BatchExact'
  <2>1. /\ bPc = "idle" /\ bPc' = "read" /\ bFirst' = 0 /\ staged' = {} /\ txRetry' = <<>> /\ txDead' = {}
        /\ bPos' = bPos
    BY <1>5 DEF RunJob, NewBatch
  <2>2. bPos = bCommitted
    BY <2>1 DEF BatchExact
  <2> QED
    BY <1>1, <1>2, <1>4, <2>1, <2>2 DEF BatchExact
<1>6. ASSUME ConsumeJSON \/ ConsumeJSONFails PROVE BatchExact'
  <2>1. /\ bPc = "read" /\ bPos < Len(batchLog) /\ bPos' = bPos + 1 /\ bLast' = bPos + 1
        /\ bFirst' = IF bFirst = 0 THEN bPos + 1 ELSE bFirst
        /\ txRetry' = txRetry /\ txDead' = txDead
        /\ \/ bPc' = "read" /\ staged' = staged \cup {batchLog[bPos + 1].msg}
           \/ bPc' = "rollback"
    BY <1>6 DEF ConsumeJSON, ConsumeJSONFails, Receive, MayRead
  <2>2. bPos \in bCommitted..(Len(batchLog) - 1)
    BY <1>1, <2>1 DEF BatchExact
  <2>3. Part(batchLog, bCommitted, bPos + 1) = Part(batchLog, bCommitted, bPos) \cup {batchLog[bPos + 1].msg}
    BY <1>1, <2>2, PartNext
  <2>4. bFirst' = bCommitted + 1 /\ txRetry = <<>> /\ txDead = {}
    BY <1>1, <2>1 DEF BatchExact
  <2>5. staged = Part(batchLog, bCommitted, bPos)
    BY <2>1 DEF BatchExact
  <2> QED
    <3>1. bCommitted' <= bPos' /\ bFirst' = bCommitted' + 1 /\ bLast' = bPos'
      BY <1>1, <1>2, <2>1, <2>2, <2>4
    <3>2. bPc' = "read" => staged' = Part(batchLog', bCommitted', bPos')
      BY <1>2, <2>1, <2>3, <2>5
    <3>3. bFirst' # 0
      BY <1>1, <2>4
    <3> QED
      BY <2>1, <2>4, <3>1, <3>2, <3>3 DEF BatchExact
<1>7. ASSUME StopReading PROVE BatchExact'
  <2>1. /\ bPc = "read" /\ bPc' = IF bRead > 0 THEN "complete" ELSE "idle"
        /\ UNCHANGED <<bPos, bFirst, bLast, staged, txRetry, txDead>>
    BY <1>7 DEF StopReading
  <2>2. ~(bRead > 0) => bFirst = 0
    BY <2>1, OnceTypes DEF TypeInv, BatchShape
  <2> QED
    BY <1>1, <1>2, <2>1, <2>2 DEF BatchExact
<1>8. ASSUME CompleteFails({}) PROVE BatchExact'
  <2>1. /\ bPc = "complete" /\ bPc' = "rollback"
        /\ UNCHANGED <<bPos, bFirst, bLast, txRetry, txDead>>
    BY <1>8 DEF CompleteFails
  <2> QED
    BY <1>1, <1>2, <2>1 DEF BatchExact
<1>9. ASSUME Rollback PROVE BatchExact'
  <2>1. /\ bPc = "rollback" /\ bPc' = "move" /\ bPos' = bFirst - 1
        /\ UNCHANGED <<bFirst, bLast, txRetry, txDead>>
    BY <1>9 DEF Rollback, RollbackPosition
  <2>2. bFirst # 0
    BY <2>1 DEF TypeInv, BatchShape
  <2>3. bPos' = bCommitted /\ txRetry = <<>> /\ txDead = {}
    BY <1>1, <2>1, <2>2 DEF BatchExact
  <2> QED
    <3>1. txDead' \cup Msgs(txRetry') = Part(batchLog', bCommitted', bPos')
      BY <1>2, <1>4, <2>1, <2>3
    <3>2. txDead' \cap Msgs(txRetry') = {} /\ Once(txRetry', 0)
      BY <1>4, <2>1, <2>3
    <3>3. bCommitted' <= bPos'
      BY <1>1, <1>2, <2>3
    <3> QED
      BY <2>1, <3>1, <3>2, <3>3 DEF BatchExact
<1>10. ASSUME MoveFailed PROVE BatchExact'
  <2> DEFINE r == batchLog[bPos + 1]
  <2>1. /\ bPc = "move" /\ bPc' = "move" /\ bPos < Len(batchLog) /\ bPos' = bPos + 1
        /\ IF NoAttemptsLeft(r)
           THEN txDead' = txDead \cup {r.msg} /\ UNCHANGED txRetry
           ELSE txRetry' = Append(txRetry, r) /\ UNCHANGED txDead
    BY <1>10 DEF MoveFailed
  <2>2. bPos \in bCommitted..(Len(batchLog) - 1)
    BY <1>1, <2>1 DEF BatchExact
  <2>3. /\ Part(batchLog, bCommitted, bPos + 1) = Part(batchLog, bCommitted, bPos) \cup {r.msg}
        /\ r.msg \notin Part(batchLog, bCommitted, bPos) /\ r \in Record
    BY <1>1, <2>2, PartNext DEF OnePlace
  <2>4. /\ txDead \cup Msgs(txRetry) = Part(batchLog, bCommitted, bPos)
        /\ txDead \cap Msgs(txRetry) = {} /\ Once(txRetry, 0)
    BY <2>1 DEF BatchExact
  <2>5. ASSUME ~NoAttemptsLeft(r)
        PROVE  Msgs(Append(txRetry, r)) = Msgs(txRetry) \cup {r.msg} /\ Once(Append(txRetry, r), 0)
    <3>1. r \in RetryRecord
      <4>1. r.retries < MessagesRetryCount /\ r.retries \in Nat /\ r.msg \in Messages /\ MessagesRetryCount \in Nat
        BY <2>3, <2>5, ConstantsAssumption DEF Record, NoAttemptsLeft
      <4>2. r = [msg |-> r.msg, retries |-> r.retries]
        BY <2>3 DEF Record
      <4>3. r.retries \in 0..(MessagesRetryCount - 1)
        BY <4>1
      <4> QED
        BY <4>1, <4>2, <4>3 DEF RetryRecord
    <3>2. r.msg \notin Msgs(txRetry)
      BY <2>3, <2>4
    <3> HIDE DEF r
    <3> QED
      BY <1>1, <2>4, <3>1, <3>2, MsgsAppend, TxAppend
  <2>6. /\ txDead' \cup Msgs(txRetry') = Part(batchLog, bCommitted, bPos + 1)
        /\ txDead' \cap Msgs(txRetry') = {} /\ Once(txRetry', 0)
    <3> HIDE DEF r
    <3>1. CASE NoAttemptsLeft(r)
      BY <2>1, <2>3, <2>4, <3>1
    <3>2. CASE ~NoAttemptsLeft(r)
      BY <2>1, <2>3, <2>4, <2>5, <3>2
    <3> QED
      BY <3>1, <3>2
  <2>7. /\ (txDead \cup Msgs(txRetry) = Part(batchLog, bCommitted, bPos))'
        /\ (txDead \cap Msgs(txRetry) = {})' /\ Once(txRetry, 0)'
    BY <1>2, <2>1, <2>6 DEF Msgs, Part, Once
  <2>8. bCommitted' <= bPos'
    BY <1>1, <1>2, <2>1, <2>2
  <2> HIDE DEF r
  <2> QED
    BY <2>1, <2>7, <2>8 DEF BatchExact
<1> QED
  BY <1>3, <1>5, <1>6, <1>7, <1>8, <1>9, <1>10

(* A load that succeeded, wholly or in part, and the commit of its offset. *)
LEMMA LoadOnce ==
    ASSUME TypeInv, [Next]_vars, OnePlace, BatchExact,
           (\E S \in SUBSET staged : Complete(S)) \/ CommitMessage
    PROVE  OnePlace' /\ BatchExact'
<1> DEFINE H == Part(batchLog, bCommitted, bPos)
<1>1. /\ batchLog \in Seq(Record) /\ Len(batchLog) \in Nat
      /\ bCommitted \in 0..Len(batchLog) /\ bPos \in 0..Len(batchLog)
      /\ bFirst \in Nat /\ bLast \in 0..Len(batchLog)
  BY OnceTypes
<1>2. bPos \in bCommitted..Len(batchLog)
  BY <1>1 DEF BatchExact
<1>3. OpenBatch = H \cup Part(batchLog, bPos, Len(batchLog))
  BY <1>1, <1>2, PartSplit DEF OpenBatch
<1>4. /\ Once(batchLog, bPos)
      /\ H \cap Part(batchLog, bPos, Len(batchLog)) = {}
  BY <1>1, <1>2, PartSplit DEF OnePlace
<1> HIDE DEF H
<1>5. ASSUME NEW S \in SUBSET staged, Complete(S) PROVE OnePlace' /\ BatchExact'
  <2>1. /\ bPc = "complete" /\ bPc' = "commit"
        /\ delivered' = delivered \cup S /\ rejected' = rejected \cup (staged \ S)
        /\ UNCHANGED <<batchLog, retryLog, dead, skipped, bCommitted, rCommitted, bPos, bFirst, bLast,
                       staged, txRetry, txDead>>
    BY <1>5 DEF Complete, topics, retryVars
  <2>2. staged = H /\ Outcomes \cap OpenBatch = {}
    BY <2>1 DEF BatchExact, OnePlace, H
  <2>3. Outcomes' = Outcomes \cup staged
    BY <2>1 DEF Outcomes
  <2>4. OpenBatch' = OpenBatch /\ OpenRetry' = OpenRetry /\ Produced' = Produced
    BY <2>1 DEF OpenBatch, OpenRetry, Produced
  <2>5. Once(batchLog, bCommitted)' /\ Once(retryLog, rCommitted)'
    BY <2>1 DEF OnePlace
  <2>6. staged \subseteq OpenBatch /\ OpenBatch \cap OpenRetry = {} /\ Outcomes \cap OpenRetry = {}
        /\ Produced = OpenBatch \cup OpenRetry \cup Outcomes
        /\ delivered \cap (rejected \cup dead) = {}
    BY <1>3, <2>2 DEF OnePlace
  <2>7. delivered' \cap (rejected' \cup dead') = {}
    <3>1. staged \cap (delivered \cup rejected \cup dead) = {}
      BY <2>2, <2>6 DEF Outcomes
    <3> QED
      BY <2>1, <2>6, <3>1
  <2>8. Produced' = OpenBatch' \cup OpenRetry' \cup Outcomes' /\ Outcomes' \cap OpenRetry' = {}
        /\ OpenBatch' \cap OpenRetry' = {} /\ Outcomes' \cap OpenBatch' = staged'
    BY <2>1, <2>2, <2>3, <2>4, <2>6
  <2>9. OnePlace'
    BY <2>1, <2>5, <2>7, <2>8 DEF OnePlace
  <2>10. BatchExact'
    BY <2>1, <2>2 DEF BatchExact, H
  <2> QED
    BY <2>9, <2>10
<1>6. ASSUME CommitMessage PROVE OnePlace' /\ BatchExact'
  <2>1. /\ bPc = "commit" /\ bPc' \in {"idle", "read"} /\ bCommitted' = bLast
        /\ bFirst' = 0 /\ staged' = {} /\ txRetry' = <<>> /\ txDead' = {}
        /\ UNCHANGED <<batchLog, retryLog, rCommitted, delivered, rejected, dead, skipped, bPos>>
    BY <1>6 DEF CommitMessage, BatchEnd, NewBatch, topics, outcomes, retryVars
  <2>2. bFirst # 0
    BY <2>1 DEF TypeInv, BatchShape
  <2>3. bLast = bPos /\ staged = H /\ Outcomes \cap OpenBatch = staged
    BY <2>1, <2>2 DEF BatchExact, OnePlace, H
  <2>4. OpenBatch' = Part(batchLog, bPos, Len(batchLog))
    BY <2>1, <2>3 DEF OpenBatch
  <2>5. OpenRetry' = OpenRetry /\ Produced' = Produced /\ Outcomes' = Outcomes
    BY <2>1 DEF OpenRetry, Produced, Outcomes
  <2>6. /\ OpenBatch \cap OpenRetry = {} /\ Outcomes \cap OpenRetry = {}
        /\ Produced = OpenBatch \cup OpenRetry \cup Outcomes
        /\ delivered \cap (rejected \cup dead) = {}
    BY DEF OnePlace
  <2>7. /\ OpenBatch' \cap OpenRetry' = {} /\ Outcomes' \cap OpenBatch' = {}
        /\ Produced' = OpenBatch' \cup OpenRetry' \cup Outcomes' /\ Outcomes' \cap OpenRetry' = {}
        /\ delivered' \cap (rejected' \cup dead') = {}
    BY <1>3, <1>4, <2>1, <2>3, <2>4, <2>5, <2>6
  <2>8. Once(batchLog, bCommitted)' /\ Once(retryLog, rCommitted)'
    BY <1>4, <2>1, <2>3 DEF OnePlace
  <2>9. OnePlace'
    BY <2>1, <2>7, <2>8 DEF OnePlace
  <2>10. Part(batchLog', bCommitted', bPos') = {}
    <3>1. \A i : i \notin (bPos + 1)..bPos
      BY <1>1
    <3> QED
      BY <2>1, <2>3, <3>1 DEF Part
  <2>11. bPos' = bCommitted' /\ bCommitted' <= bPos'
    BY <1>1, <2>1, <2>3
  <2>12. BatchExact'
    BY <2>1, <2>10, <2>11 DEF BatchExact
  <2> QED
    BY <2>9, <2>12
<1> QED
  BY <1>5, <1>6

(* The transaction of processFailed moves the messages it holds, each to one topic. *)
LEMMA MoveOnce ==
    ASSUME TypeInv, [Next]_vars, OnePlace, BatchExact, CommitMove
    PROVE  OnePlace' /\ BatchExact'
<1> DEFINE H == Part(batchLog, bCommitted, bPos)
<1>1. /\ batchLog \in Seq(Record) /\ Len(batchLog) \in Nat
      /\ retryLog \in Seq(RetryRecord) /\ txRetry \in Seq(RetryRecord)
      /\ bCommitted \in 0..Len(batchLog) /\ bPos \in 0..Len(batchLog)
      /\ rCommitted \in 0..Len(retryLog)
  BY OnceTypes
<1>2. bPos \in bCommitted..Len(batchLog)
  BY <1>1 DEF BatchExact
<1>3. OpenBatch = H \cup Part(batchLog, bPos, Len(batchLog))
  BY <1>1, <1>2, PartSplit DEF OpenBatch
<1>4. /\ Once(batchLog, bPos)
      /\ H \cap Part(batchLog, bPos, Len(batchLog)) = {}
  BY <1>1, <1>2, PartSplit DEF OnePlace
<1> HIDE DEF H
<1>5. /\ bPc = "move" /\ retryLog' = retryLog \o txRetry /\ dead' = dead \cup txDead
      /\ bCommitted' = bPos
      /\ UNCHANGED <<batchLog, delivered, rejected, skipped, rCommitted, bPos>>
  BY DEF CommitMove, MoveTransaction, MovedOffset, outcomes, retryVars
<1>6. /\ txDead \cup Msgs(txRetry) = H /\ txDead \cap Msgs(txRetry) = {} /\ Once(txRetry, 0)
  BY <1>5 DEF BatchExact, H
<1>7. /\ OpenBatch \cap OpenRetry = {} /\ Outcomes \cap OpenRetry = {}
      /\ Outcomes \cap OpenBatch = {}
      /\ Produced = OpenBatch \cup OpenRetry \cup Outcomes
      /\ delivered \cap (rejected \cup dead) = {}
      /\ Once(retryLog, rCommitted)
  BY <1>5 DEF OnePlace
<1>8. Part(retryLog, rCommitted, Len(retryLog)) \cap Msgs(txRetry) = {}
  BY <1>3, <1>6, <1>7 DEF OpenRetry
<1>9. /\ OpenRetry' = OpenRetry \cup Msgs(txRetry)
      /\ Once(retryLog', rCommitted)
  BY <1>1, <1>5, <1>6, <1>7, <1>8, PartConcat DEF OpenRetry
<1>10. OpenBatch' = Part(batchLog, bPos, Len(batchLog))
  BY <1>5 DEF OpenBatch
<1>11. Outcomes' = Outcomes \cup txDead /\ Produced' = Produced
  BY <1>5 DEF Outcomes, Produced
<1>12. /\ OpenBatch' \cap OpenRetry' = {} /\ Outcomes' \cap OpenBatch' = {}
       /\ Outcomes' \cap OpenRetry' = {}
  BY <1>3, <1>4, <1>6, <1>7, <1>9, <1>10, <1>11
<1>13. Produced' = OpenBatch' \cup OpenRetry' \cup Outcomes'
  BY <1>3, <1>6, <1>7, <1>9, <1>10, <1>11
<1>14. delivered' \cap (rejected' \cup dead') = {}
  <2>1. txDead \cap delivered = {}
    BY <1>3, <1>6, <1>7 DEF Outcomes
  <2> QED
    BY <1>5, <1>7, <2>1
<1>15. Once(batchLog, bCommitted)' /\ Once(retryLog, rCommitted)'
  BY <1>4, <1>5, <1>9
<1>16. Part(batchLog', bCommitted', bPos') = {} /\ Msgs(<<>>) = {} /\ Once(<<>>, 0)
  <2>1. \A i : i \notin (bPos + 1)..bPos
    BY <1>1
  <2> QED
    BY <1>5, <2>1 DEF Part, Msgs, Once
<1>17. bPos' = bCommitted' /\ bCommitted' <= bPos'
  BY <1>1, <1>5
<1>18. CASE bPos = bLast
  <2>1. /\ bPc' \in {"idle", "read"} /\ bFirst' = 0 /\ staged' = {} /\ txRetry' = <<>> /\ txDead' = {}
    BY <1>18 DEF CommitMove, BatchEnd, NewBatch
  <2> QED
    BY <1>12, <1>13, <1>14, <1>15, <1>16, <1>17, <2>1 DEF OnePlace, BatchExact
<1>19. CASE bPos # bLast
  <2>1. bPc' = "move" /\ txRetry' = <<>> /\ txDead' = {}
    BY <1>5, <1>19 DEF CommitMove
  <2> QED
    BY <1>12, <1>13, <1>14, <1>15, <1>16, <1>17, <2>1 DEF OnePlace, BatchExact
<1> QED
  BY <1>18, <1>19

(* The retry consumer reads, and its transaction brings back what it read. *)
LEMMA RetryOnce ==
    ASSUME TypeInv, [Next]_vars, OnePlace, RetryExact,
           RetryRunJob \/ Resend \/ RetryStopReading
    PROVE  OnePlace' /\ RetryExact'
<1>1. /\ retryLog \in Seq(RetryRecord) /\ Len(retryLog) \in Nat
      /\ rCommitted \in 0..Len(retryLog) /\ rPos \in 0..Len(retryLog)
      /\ rFirst \in Nat /\ rLast \in 0..Len(retryLog)
      /\ rtxBatch \in Seq(Record) /\ rtxAgain \in Seq(RetryRecord)
  BY OnceTypes
<1>2. /\ UNCHANGED <<batchLog, retryLog, bCommitted, rCommitted, delivered, rejected, dead, skipped,
                     bPc, staged>>
  BY DEF RetryRunJob, Resend, RetryReceive, RetryStopReading, topics, outcomes, batchVars, batchMem
<1>3. OnePlace'
  BY <1>2, OnePlaceFrame
<1>4. Part(retryLog, rCommitted, rCommitted) = {} /\ Msgs(<<>>) = {} /\ Once(<<>>, 0)
  <2>1. \A i : i \notin (rCommitted + 1)..rCommitted
    BY <1>1
  <2> QED
    BY <2>1 DEF Part, Msgs, Once
<1>5. ASSUME RetryRunJob PROVE RetryExact'
  <2>1. /\ rPc = "idle" /\ rPc' = "read" /\ rFirst' = 0 /\ rPos' = rPos
        /\ rtxBatch' = <<>> /\ rtxAgain' = <<>> /\ rtxSkip' = {}
    BY <1>5 DEF RetryRunJob, NewRetryBatch
  <2>2. rPos = rCommitted
    BY <2>1 DEF RetryExact
  <2>3. /\ Msgs(rtxBatch') \cup Msgs(rtxAgain') = Part(retryLog', rCommitted', rPos')
        /\ Msgs(rtxBatch') \cap Msgs(rtxAgain') = {} /\ Once(rtxBatch', 0) /\ Once(rtxAgain', 0)
    BY <1>2, <1>4, <2>1, <2>2
  <2>4. rCommitted' <= rPos' /\ rPos' = rCommitted'
    BY <1>1, <1>2, <2>1, <2>2
  <2> QED
    BY <2>1, <2>3, <2>4 DEF RetryExact
<1>6. ASSUME Resend PROVE RetryExact'
  <2> DEFINE r == retryLog[rPos + 1]
             q == [r EXCEPT !.retries = @ + 1]
  <2>1. /\ rPc = "read" /\ rPc' = "read" /\ rPos < Len(retryLog) /\ rPos' = rPos + 1 /\ rLast' = rPos + 1
        /\ rFirst' = (IF rFirst = 0 THEN rPos + 1 ELSE rFirst) /\ rtxSkip' = rtxSkip
        /\ IF rPos + 1 \in rDue
           THEN rtxBatch' = Append(rtxBatch, q) /\ UNCHANGED rtxAgain
           ELSE rtxAgain' = Append(rtxAgain, r) /\ UNCHANGED rtxBatch
    BY <1>6 DEF Resend, RetryReceive, RetryMayRead
  <2>2. rPos \in rCommitted..(Len(retryLog) - 1)
    BY <1>1, <2>1 DEF RetryExact
  <2>3. /\ Part(retryLog, rCommitted, rPos + 1) = Part(retryLog, rCommitted, rPos) \cup {r.msg}
        /\ r.msg \notin Part(retryLog, rCommitted, rPos) /\ r \in RetryRecord
    BY <1>1, <2>2, PartNext DEF OnePlace
  <2>4. /\ Msgs(rtxBatch) \cup Msgs(rtxAgain) = Part(retryLog, rCommitted, rPos)
        /\ Msgs(rtxBatch) \cap Msgs(rtxAgain) = {}
        /\ Once(rtxBatch, 0) /\ Once(rtxAgain, 0) /\ rtxSkip = {}
    BY <2>1 DEF RetryExact
  <2>5. q \in Record /\ q.msg = r.msg
    <3>1. r.msg \in Messages /\ r.retries \in 0..(MessagesRetryCount - 1) /\ MessagesRetryCount \in Nat
      BY <2>3, ConstantsAssumption DEF RetryRecord
    <3>2. r = [msg |-> r.msg, retries |-> r.retries]
      BY <2>3 DEF RetryRecord
    <3>3. r.retries + 1 \in 0..MessagesRetryCount
      BY <3>1
    <3>4. q = [msg |-> r.msg, retries |-> r.retries + 1]
      BY <3>2
    <3> QED
      BY <3>1, <3>3, <3>4 DEF Record
  <2> HIDE DEF q, r
  <2>6. r.msg \notin Msgs(rtxBatch) /\ r.msg \notin Msgs(rtxAgain)
    BY <2>3, <2>4
  <2>7. /\ Msgs(Append(rtxBatch, q)) = Msgs(rtxBatch) \cup {r.msg} /\ Once(Append(rtxBatch, q), 0)
    BY <1>1, <2>4, <2>5, <2>6, MsgsAppend, TxAppend
  <2>8. /\ Msgs(Append(rtxAgain, r)) = Msgs(rtxAgain) \cup {r.msg} /\ Once(Append(rtxAgain, r), 0)
    BY <1>1, <2>3, <2>4, <2>6, MsgsAppend, TxAppend
  <2>9. /\ Msgs(rtxBatch') \cup Msgs(rtxAgain') = Part(retryLog, rCommitted, rPos + 1)
        /\ Msgs(rtxBatch') \cap Msgs(rtxAgain') = {}
        /\ Once(rtxBatch', 0) /\ Once(rtxAgain', 0)
    <3>1. CASE rPos + 1 \in rDue
      BY <2>1, <2>3, <2>4, <2>6, <2>7, <3>1
    <3>2. CASE rPos + 1 \notin rDue
      BY <2>1, <2>3, <2>4, <2>6, <2>8, <3>2
    <3> QED
      BY <3>1, <3>2
  <2>10. rCommitted' <= rPos' /\ rLast' = rPos' /\ rFirst' # 0 /\ rtxSkip' = {}
    BY <1>1, <1>2, <2>1, <2>2, <2>4
  <2>11. Part(retryLog', rCommitted', rPos') = Part(retryLog, rCommitted, rPos + 1)
    BY <1>2, <2>1
  <2> QED
    BY <2>1, <2>9, <2>10, <2>11 DEF RetryExact
<1>7. ASSUME RetryStopReading PROVE RetryExact'
  <2>1. /\ rPc = "read" /\ rPc' = IF rRead > 0 THEN "commit" ELSE "idle"
        /\ UNCHANGED <<rPos, rFirst, rLast, rtxBatch, rtxAgain, rtxSkip>>
    BY <1>7 DEF RetryStopReading
  <2>2. ~(rRead > 0) => rFirst = 0
    BY <2>1, OnceTypes DEF TypeInv, RetryShape
  <2> QED
    BY <1>1, <1>2, <2>1, <2>2 DEF RetryExact
<1> QED
  BY <1>3, <1>5, <1>6, <1>7

(* The transaction of the retry consumer. *)
LEMMA ReturnOnce ==
    ASSUME TypeInv, [Next]_vars, OnePlace, BatchExact, RetryExact, RetryCommit
    PROVE  OnePlace' /\ RetryExact'
<1> DEFINE K == Part(retryLog, rCommitted, rPos)
<1>1. /\ retryLog \in Seq(RetryRecord) /\ Len(retryLog) \in Nat
      /\ batchLog \in Seq(Record) /\ Len(batchLog) \in Nat
      /\ rCommitted \in 0..Len(retryLog) /\ rPos \in 0..Len(retryLog)
      /\ bCommitted \in 0..Len(batchLog) /\ bPos \in 0..Len(batchLog)
      /\ rFirst \in Nat /\ rLast \in 0..Len(retryLog)
      /\ rtxBatch \in Seq(Record) /\ rtxAgain \in Seq(RetryRecord)
      /\ Produced = Part(batchLog, 0, Len(batchLog))
      /\ 0 \in 0..Len(batchLog)
  BY OnceTypes
<1>2. rPos \in rCommitted..Len(retryLog)
  BY <1>1 DEF RetryExact
<1>3. OpenRetry = K \cup Part(retryLog, rPos, Len(retryLog))
  BY <1>1, <1>2, PartSplit DEF OpenRetry
<1>4. /\ Once(retryLog, rPos)
      /\ K \cap Part(retryLog, rPos, Len(retryLog)) = {}
  BY <1>1, <1>2, PartSplit DEF OnePlace
<1>5. /\ rPc = "commit" /\ batchLog' = batchLog \o rtxBatch /\ retryLog' = retryLog \o rtxAgain
      /\ skipped' = skipped \cup rtxSkip /\ rCommitted' = rLast /\ rPos' = rPos
      /\ UNCHANGED <<dead, delivered, rejected, bCommitted, bPc, staged>>
      /\ rPc' \in {"read", "idle"} /\ rFirst' = 0
      /\ rtxBatch' = <<>> /\ rtxAgain' = <<>> /\ rtxSkip' = {}
  BY DEF RetryCommit, RetryTransaction, NewRetryBatch, batchVars, batchMem
<1>6. rFirst # 0
  BY <1>5 DEF TypeInv, RetryShape
<1>7. /\ rLast = rPos /\ rtxSkip = {}
      /\ Msgs(rtxBatch) \cup Msgs(rtxAgain) = K /\ Msgs(rtxBatch) \cap Msgs(rtxAgain) = {}
      /\ Once(rtxBatch, 0) /\ Once(rtxAgain, 0)
  BY <1>5, <1>6 DEF RetryExact, K
<1> HIDE DEF K
<1>8. /\ OpenBatch \cap OpenRetry = {} /\ Outcomes \cap OpenRetry = {}
      /\ Produced = OpenBatch \cup OpenRetry \cup Outcomes
      /\ Once(batchLog, bCommitted)
  BY DEF OnePlace
<1>9. Part(batchLog, bCommitted, Len(batchLog)) \cap Msgs(rtxBatch) = {}
  BY <1>3, <1>7, <1>8 DEF OpenBatch
<1>10. OpenBatch' = OpenBatch \cup Msgs(rtxBatch) /\ Once(batchLog', bCommitted)
  BY <1>1, <1>5, <1>7, <1>8, <1>9, PartConcat DEF OpenBatch
<1>11. rPos \in 0..Len(retryLog) /\ Part(retryLog, rPos, Len(retryLog)) \cap Msgs(rtxAgain) = {}
  BY <1>1, <1>4, <1>7
<1>12. /\ OpenRetry' = Part(retryLog, rPos, Len(retryLog)) \cup Msgs(rtxAgain)
       /\ Once(retryLog', rPos)
  BY <1>1, <1>4, <1>5, <1>7, <1>11, PartConcat DEF OpenRetry
<1>13. Produced' = Produced \cup Msgs(rtxBatch)
  <2>1. Part(batchLog \o rtxBatch, 0, Len(batchLog \o rtxBatch)) = Part(batchLog, 0, Len(batchLog)) \cup Msgs(rtxBatch)
    BY <1>1, PartConcat
  <2>2. Produced' = Part(batchLog', 0, Len(batchLog'))
    BY DEF Produced, Part
  <2> QED
    BY <1>1, <1>5, <2>1, <2>2
<1>14. Outcomes' = Outcomes
  BY <1>5, <1>7 DEF Outcomes
<1>15. /\ OpenBatch' \cap OpenRetry' = {} /\ Outcomes' \cap OpenRetry' = {}
       /\ Outcomes' \cap OpenBatch' = Outcomes \cap OpenBatch
  BY <1>3, <1>4, <1>7, <1>8, <1>10, <1>12, <1>14
<1>16. Produced' = OpenBatch' \cup OpenRetry' \cup Outcomes'
  BY <1>3, <1>7, <1>8, <1>10, <1>12, <1>13, <1>14
<1>17. Once(batchLog, bCommitted)' /\ Once(retryLog, rCommitted)'
  BY <1>5, <1>7, <1>10, <1>12
<1>18. OnePlace'
  BY <1>5, <1>15, <1>16, <1>17 DEF OnePlace
<1>19. Part(retryLog', rCommitted', rPos') = {} /\ Msgs(<<>>) = {} /\ Once(<<>>, 0)
  <2>1. \A i : i \notin (rPos + 1)..rPos
    BY <1>1
  <2> QED
    BY <1>5, <1>7, <2>1 DEF Part, Msgs, Once
<1>20. rPos' = rCommitted' /\ rCommitted' <= rPos'
  BY <1>1, <1>5, <1>7
<1>21. RetryExact'
  BY <1>5, <1>19, <1>20 DEF RetryExact
<1> QED
  BY <1>18, <1>21

(* A new message. *)
LEMMA ProduceOnce ==
    ASSUME TypeInv, [Next]_vars, OnePlace, NEW m \in Messages, Produce(m)
    PROVE  OnePlace'
<1> DEFINE x == [msg |-> m, retries |-> 0]
<1>1. /\ batchLog \in Seq(Record) /\ Len(batchLog) \in Nat /\ bCommitted \in 0..Len(batchLog)
      /\ Produced = Part(batchLog, 0, Len(batchLog)) /\ 0 \in 0..Len(batchLog)
  BY OnceTypes
<1>2. /\ m \notin Produced /\ batchLog' = Append(batchLog, x)
      /\ UNCHANGED <<retryLog, dead, delivered, rejected, skipped, bCommitted, rCommitted, bPc, staged>>
  BY DEF Produce, outcomes, batchVars, batchMem, retryVars
<1>3. x \in Record /\ x.msg = m
  BY ConstantsAssumption DEF Record
<1> HIDE DEF x
<1>4. /\ OpenBatch \cap OpenRetry = {} /\ Outcomes \cap OpenRetry = {}
      /\ Produced = OpenBatch \cup OpenRetry \cup Outcomes
      /\ Once(batchLog, bCommitted)
  BY DEF OnePlace
<1>5. x.msg \notin Part(batchLog, bCommitted, Len(batchLog))
  BY <1>2, <1>3, <1>4 DEF OpenBatch
<1>6. OpenBatch' = OpenBatch \cup {m} /\ Once(batchLog', bCommitted)
  BY <1>1, <1>2, <1>3, <1>4, <1>5, PartAppend DEF OpenBatch
<1>7. Produced' = Produced \cup {m}
  <2>1. Part(Append(batchLog, x), 0, Len(Append(batchLog, x))) = Part(batchLog, 0, Len(batchLog)) \cup {x.msg}
    BY <1>1, <1>3, PartAppend
  <2>2. Produced' = Part(batchLog', 0, Len(batchLog'))
    BY DEF Produced, Part
  <2> QED
    BY <1>1, <1>2, <1>3, <2>1, <2>2
<1>8. OpenRetry' = OpenRetry /\ Outcomes' = Outcomes
  BY <1>2 DEF OpenRetry, Outcomes
<1>9. /\ OpenBatch' \cap OpenRetry' = {} /\ Outcomes' \cap OpenRetry' = {}
      /\ Outcomes' \cap OpenBatch' = Outcomes \cap OpenBatch
      /\ Produced' = OpenBatch' \cup OpenRetry' \cup Outcomes'
  BY <1>2, <1>4, <1>6, <1>7, <1>8
<1>10. Once(batchLog, bCommitted)' /\ Once(retryLog, rCommitted)'
  BY <1>2, <1>6 DEF OnePlace
<1> QED
  BY <1>2, <1>9, <1>10 DEF OnePlace

(* Every step without a fault keeps every message in one place. *)
LEMMA OnceStep == ASSUME TypeInv, OnceInv, [Next]_vars PROVE OnceInv'
<1> SUFFICES ASSUME faults' = 0 PROVE OnePlace' /\ BatchExact' /\ RetryExact'
  BY DEF OnceInv
<1>1. faults = 0
  BY NoFaultStep
<1>2. OnePlace /\ BatchExact /\ RetryExact
  BY <1>1 DEF OnceInv
<1>3. CASE RunJob \/ ConsumeJSON \/ ConsumeJSONFails \/ StopReading \/ CompleteFails({}) \/ Rollback \/ MoveFailed
  <2>1. OnePlace' /\ BatchExact'
    BY <1>2, <1>3, BatchOnce
  <2>2. UNCHANGED <<rCommitted, rPc, rPos, rFirst, rLast, rtxBatch, rtxAgain, rtxSkip>>
    BY <1>3 DEF RunJob, ConsumeJSON, ConsumeJSONFails, StopReading, CompleteFails, Rollback, MoveFailed,
       retryVars, retryMem
  <2> QED
    BY <1>2, <2>1, <2>2, RetryExactFrame
<1>4. CASE (\E S \in SUBSET staged : Complete(S)) \/ CommitMessage
  <2>1. OnePlace' /\ BatchExact'
    BY <1>2, <1>4, LoadOnce
  <2>2. UNCHANGED <<rCommitted, rPc, rPos, rFirst, rLast, rtxBatch, rtxAgain, rtxSkip>>
    BY <1>4 DEF Complete, CommitMessage, retryVars, retryMem
  <2> QED
    BY <1>2, <2>1, <2>2, RetryExactFrame
<1>5. CASE CommitMove
  <2>1. OnePlace' /\ BatchExact'
    BY <1>2, <1>5, MoveOnce
  <2>2. UNCHANGED <<rCommitted, rPc, rPos, rFirst, rLast, rtxBatch, rtxAgain, rtxSkip>>
    BY <1>5 DEF CommitMove, MoveTransaction, retryVars, retryMem
  <2> QED
    BY <1>2, <2>1, <2>2, RetryExactFrame
<1>6. CASE RetryRunJob \/ Resend \/ RetryStopReading
  <2>1. OnePlace' /\ RetryExact'
    BY <1>1, <1>2, <1>6, RetryOnce
  <2>2. UNCHANGED <<bCommitted, bPc, bPos, bFirst, bLast, staged, txRetry, txDead>>
    BY <1>6 DEF RetryRunJob, Resend, RetryReceive, RetryStopReading, batchVars, batchMem
  <2> QED
    BY <1>2, <2>1, <2>2, BatchExactFrame
<1>7. CASE RetryCommit
  <2>1. OnePlace' /\ RetryExact'
    BY <1>2, <1>7, ReturnOnce
  <2>2. UNCHANGED <<bCommitted, bPc, bPos, bFirst, bLast, staged, txRetry, txDead>>
    BY <1>7 DEF RetryCommit, RetryTransaction, batchVars, batchMem
  <2> QED
    BY <1>2, <2>1, <2>2, BatchExactFrame
<1>8. ASSUME NEW m \in Messages, Produce(m) PROVE OnePlace' /\ BatchExact' /\ RetryExact'
  <2>1. /\ UNCHANGED <<bCommitted, bPc, bPos, bFirst, bLast, staged, txRetry, txDead>>
        /\ UNCHANGED <<rCommitted, rPc, rPos, rFirst, rLast, rtxBatch, rtxAgain, rtxSkip>>
    BY <1>8 DEF Produce, batchVars, batchMem, retryVars, retryMem
  <2> QED
    BY <1>2, <1>8, <2>1, BatchExactFrame, RetryExactFrame, ProduceOnce
<1>9. CASE (\E i \in 1..Len(retryLog) : RetryTimeComes(i)) \/ UNCHANGED vars
  <2>1. /\ UNCHANGED <<bCommitted, bPc, bPos, bFirst, bLast, staged, txRetry, txDead>>
        /\ UNCHANGED <<rCommitted, rPc, rPos, rFirst, rLast, rtxBatch, rtxAgain, rtxSkip>>
        /\ UNCHANGED <<batchLog, retryLog, delivered, rejected, dead, skipped>>
    BY <1>9 DEF RetryTimeComes, batchVars, batchMem, retryVars, retryMem, outcomes, topics, vars
  <2> QED
    BY <1>2, <2>1, BatchExactFrame, RetryExactFrame, OnePlaceFrame
<1> QED
  BY <1>3, <1>4, <1>5, <1>6, <1>7, <1>8, <1>9, NoFaultStep

(* How many open records of log have message m, when no message has two. *)
LEMMA CountOnce ==
    ASSUME NEW R, NEW log \in Seq(R), NEW c \in 0..Len(log), Once(log, c), NEW m
    PROVE  Cardinality({i \in (c + 1)..Len(log) : log[i].msg = m}) =
               IF m \in Part(log, c, Len(log)) THEN 1 ELSE 0
<1> DEFINE W == {i \in (c + 1)..Len(log) : log[i].msg = m}
<1>1. CASE m \in Part(log, c, Len(log))
  <2>1. PICK i \in (c + 1)..Len(log) : log[i].msg = m
    BY <1>1 DEF Part
  <2>2. W = {i}
    BY <2>1 DEF Once
  <2> QED
    BY <1>1, <2>2, FS_Singleton
<1>2. CASE m \notin Part(log, c, Len(log))
  <2>1. W = {}
    BY <1>2 DEF Part
  <2> QED
    BY <1>2, <2>1, FS_EmptySet
<1> QED
  BY <1>1, <1>2

(* As long as no fault happens every message is delivered, refused or dead-    *)
(* lettered exactly once (ExactlyOnceWithoutFaults), for any messages, batch   *)
(* sizes and retry budget: between the two topics there is one unacknowledged  *)
(* copy of it and no outcome, or an outcome and no copy.  The destination may  *)
(* refuse loads and rows all the same.                                         *)
THEOREM ExactlyOnce == Spec => []ExactlyOnceWithoutFaults
<1>1. Init => OnceInv
  <2> SUFFICES ASSUME Init PROVE OnePlace /\ BatchExact /\ RetryExact
    BY DEF OnceInv
  <2>1. /\ batchLog = <<>> /\ retryLog = <<>> /\ bCommitted = 0 /\ rCommitted = 0
        /\ delivered = {} /\ rejected = {} /\ dead = {} /\ skipped = {} /\ bPc = "idle" /\ rPc = "idle"
        /\ bPos = 0 /\ rPos = 0 /\ txRetry = <<>> /\ txDead = {} /\ rtxSkip = {}
    BY DEF Init
  <2>2. \A i : i \notin 1..0
    OBVIOUS
  <2>3. Part(<<>>, 0, 0) = {} /\ Once(<<>>, 0) /\ Len(<<>>) = 0
    BY <2>2 DEF Part, Once
  <2>4. OpenBatch = {} /\ OpenRetry = {} /\ Outcomes = {} /\ Produced = {}
    BY <2>1, <2>3 DEF OpenBatch, OpenRetry, Outcomes, Produced, Part
  <2>5. OnePlace
    BY <2>1, <2>3, <2>4 DEF OnePlace
  <2>6. BatchExact /\ RetryExact
    BY <2>1 DEF BatchExact, RetryExact
  <2> QED
    BY <2>5, <2>6
<1>2. TypeInv /\ OnceInv /\ [Next]_vars => OnceInv'
  BY OnceStep
<1>3. TypeInv /\ OnceInv => ExactlyOnceWithoutFaults
  <2> SUFFICES ASSUME TypeInv, OnceInv, faults = 0, NEW m \in Produced
               PROVE  \/ Copies(m) = 1 /\ (Settled(m) => bPc = "commit" /\ m \in staged)
                      \/ Copies(m) = 0 /\ Settled(m) /\ m \notin delivered \cap (rejected \cup dead)
    BY DEF ExactlyOnceWithoutFaults
  <2>1. OnePlace
    BY DEF OnceInv
  <2>2. Copies(m) = (IF m \in OpenBatch THEN 1 ELSE 0) + (IF m \in OpenRetry THEN 1 ELSE 0)
    <3>1. Cardinality({i \in (bCommitted + 1)..Len(batchLog) : batchLog[i].msg = m}) =
              IF m \in OpenBatch THEN 1 ELSE 0
      BY <2>1, OnceTypes, CountOnce DEF OnePlace, OpenBatch
    <3>2. Cardinality({i \in (rCommitted + 1)..Len(retryLog) : retryLog[i].msg = m}) =
              IF m \in OpenRetry THEN 1 ELSE 0
      <4>1. retryLog \in Seq(RetryRecord) /\ rCommitted \in 0..Len(retryLog) /\ Once(retryLog, rCommitted)
        BY <2>1, OnceTypes DEF OnePlace
      <4> QED
        BY <4>1, CountOnce DEF OpenRetry
    <3> QED
      BY <3>1, <3>2 DEF Copies
  <2>3. Settled(m) <=> m \in Outcomes
    BY DEF Settled, Outcomes
  <2>4. CASE m \in OpenBatch
    <3>1. Copies(m) = 1
      BY <2>1, <2>2, <2>4 DEF OnePlace
    <3>2. Settled(m) => bPc = "commit" /\ m \in staged
      BY <2>1, <2>3, <2>4 DEF OnePlace
    <3> QED
      BY <3>1, <3>2
  <2>5. CASE m \in OpenRetry
    <3>1. Copies(m) = 1
      BY <2>1, <2>2, <2>5 DEF OnePlace
    <3>2. ~Settled(m)
      BY <2>1, <2>3, <2>5 DEF OnePlace
    <3> QED
      BY <3>1, <3>2
  <2>6. CASE m \notin OpenBatch /\ m \notin OpenRetry
    <3>1. Copies(m) = 0
      BY <2>2, <2>6
    <3>2. Settled(m) /\ m \notin delivered \cap (rejected \cup dead)
      BY <2>1, <2>3, <2>6 DEF OnePlace
    <3> QED
      BY <3>1, <3>2
  <2> QED
    BY <2>4, <2>5, <2>6
<1> QED
  BY <1>1, <1>2, <1>3, TypeInit, TypeStep, PTL DEF Spec
=============================================================================
