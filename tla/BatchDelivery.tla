---------------------------- MODULE BatchDelivery ----------------------------
(***************************************************************************)
(* The delivery pipeline of one batch-mode destination table of bulker: the *)
(* batch consumer loads the messages of a destination topic into the        *)
(* warehouse, moves the ones it could not load to the retry topic or, when  *)
(* they have no attempts left, to the dead-letter topic, and the retry      *)
(* consumer brings the retry topic's messages back when their time comes.   *)
(*                                                                          *)
(* A topic is the sequence of its committed records: aborted records and    *)
(* transaction markers, which a read_committed consumer never sees, have no *)
(* offset here.  Record i is the record of Kafka offset i - 1, "committed   *)
(* = n" says that records 1..n are acknowledged and "position = n" that the *)
(* next ReadMessage returns record n + 1.                                   *)
(***************************************************************************)
EXTENDS Integers, Sequences, FiniteSets

CONSTANTS
    Messages,           \* the messages accepted by the ingestion API
    BatchSize,          \* batchSizes(): rows in one load
    RetryBatchSize,     \* config.RetryConsumerBatchSize: records of one transaction
    MessagesRetryCount, \* config.MessagesRetryCount
    Faults,             \* the kinds of fault this instance may meet
    MaxFaults           \* bound on the number of faults in a behaviour

FaultKinds ==
    {"crash",           \* the bulker process dies; another one takes the topics over
     "rebalance",       \* the group reassigns the partition: position := committed
     "reconfigured",    \* the destination changes; its consumers retire and are replaced
     "slowRead",        \* ReadMessage times out although a message is there
     "kafkaError",      \* a Kafka commit or transaction call fails
     "unknownOutcome",  \* a call reports an error after it took effect
     "oversized",       \* the broker refuses a re-sent message as too large
     "readError",       \* ReadMessage of the batch loop fails, not with a timeout
     "seekError"}       \* SeekPartitions of the retry consumer fails

ASSUME ConstantsAssumption ==
    /\ BatchSize \in Nat \ {0}
    /\ RetryBatchSize \in Nat \ {0}
    /\ MessagesRetryCount \in Nat
    /\ Faults \subseteq FaultKinds
    /\ MaxFaults \in Nat

VARIABLES
    (* Kafka *)
    batchLog,   \* records of the destination topic
    retryLog,   \* records of the retry topic
    dead,       \* messages of the dead-letter topic
    rDue,       \* records of the retry topic whose retry_time has passed
    bCommitted, \* committed offset of the batch consumer's group
    rCommitted, \* committed offset of the retry consumer's group
    (* what has become of the messages *)
    delivered,  \* rows the warehouse has
    rejected,   \* rows the destination refused for good (BatchError), only logged
    skipped,    \* messages the retry consumer could not re-send, only logged
    failures,   \* history: failed loads of each message, counted up to the budget
    (* the batch consumer *)
    bPc,        \* what the consumer is doing
    bPos,       \* position of the Kafka consumer
    bHigh,      \* highOffset of the current run
    bFirst,     \* firstPosition of the batch, 0 when nil
    bLast,      \* latestMessage of the batch, 0 when nil
    bRead,      \* messages read: counters.consumed of the batch, i in processFailed
    bNext,      \* nextBatch
    staged,     \* messages put into the bulker stream of this batch
    txRetry,    \* records produced to the retry topic by the open transaction
    txDead,     \* messages produced to the dead-letter topic by it
    (* the retry consumer *)
    rPc, rPos, rHigh, rFirst, rLast, rRead, rNext,
    rtxBatch,   \* records the open transaction sends back to the destination topic
    rtxAgain,   \* records it re-adds to the retry topic, not ready yet
    rtxSkip,    \* messages it leaves out
    (* environment *)
    faults      \* faults met so far

topics   == <<batchLog, retryLog, dead, rDue>>
outcomes == <<delivered, rejected, skipped, failures>>
batchMem == <<bPc, bPos, bHigh, bFirst, bLast, bRead, bNext, staged, txRetry, txDead>>
retryMem == <<rPc, rPos, rHigh, rFirst, rLast, rRead, rNext, rtxBatch, rtxAgain, rtxSkip>>
batchVars == <<bCommitted, batchMem>>
retryVars == <<rCommitted, retryMem>>
vars == <<topics, outcomes, batchVars, retryVars, faults>>

(* A record carries its message and the retries_count header; processFailed *)
(* sends no message without attempts left to the retry topic.               *)
Record == [msg : Messages, retries : 0..MessagesRetryCount]
RetryRecord == [msg : Messages, retries : 0..(MessagesRetryCount - 1)]
Budget == MessagesRetryCount + 1   \* loads a message is given before it is dead

Produced == {batchLog[i].msg : i \in 1..Len(batchLog)}

(***************************************************************************)
(* An action that needs a fault of kind k spends one of the MaxFaults.      *)
(***************************************************************************)
Fault(k) == k \in Faults /\ faults < MaxFaults /\ faults' = faults + 1

Init ==
    /\ batchLog = <<>> /\ retryLog = <<>> /\ dead = {} /\ rDue = {}
    /\ bCommitted = 0 /\ rCommitted = 0
    /\ delivered = {} /\ rejected = {} /\ skipped = {}
    /\ failures = [m \in Messages |-> 0]
    /\ bPc = "idle" /\ bPos = 0 /\ bHigh = 0 /\ bFirst = 0 /\ bLast = 0
    /\ bRead = 0 /\ bNext = FALSE /\ staged = {} /\ txRetry = <<>> /\ txDead = {}
    /\ rPc = "idle" /\ rPos = 0 /\ rHigh = 0 /\ rFirst = 0 /\ rLast = 0
    /\ rRead = 0 /\ rNext = FALSE /\ rtxBatch = <<>> /\ rtxAgain = <<>> /\ rtxSkip = {}
    /\ faults = 0

-----------------------------------------------------------------------------
(* EventsHandler: a message accepted by the API lands in the destination topic. *)
Produce(m) ==
    /\ m \notin Produced
    /\ batchLog' = Append(batchLog, [msg |-> m, retries |-> 0])
    /\ UNCHANGED <<retryLog, dead, rDue, outcomes, batchVars, retryVars, faults>>

-----------------------------------------------------------------------------
(* The batch consumer: ConsumeAll and processBatchImpl *)

(* The batch-local variables of processBatchImpl at its start; pc is "read" or "idle". *)
NewBatch(pc) ==
    /\ bPc' = pc
    /\ bFirst' = 0 /\ bLast' = 0 /\ bRead' = 0 /\ bNext' = FALSE
    /\ staged' = {} /\ txRetry' = <<>> /\ txDead' = {}

(* The deferred end of a batch: ConsumeAll starts another one when nextBatch is set. *)
BatchEnd == NewBatch(IF bNext THEN "read" ELSE "idle")

ShouldConsume_OffByOne(committed, high) == high # 0 /\ committed + 1 < high

(* shouldConsume: nothing to do at the watermark. *)
ShouldConsume(committed, high) == high # 0 /\ committed # high

(* RunJob, ConsumeAll: query the watermark and the committed offset, start a batch. *)
RunJob ==
    /\ bPc = "idle"
    /\ ShouldConsume(bCommitted, Len(batchLog))
    /\ NewBatch("read")
    /\ bHigh' = Len(batchLog)
    /\ UNCHANGED <<topics, outcomes, bCommitted, bPos, retryVars, faults>>

(* ConsumeAll: the destination's configuration changed; the run ends between batches. *)
ConfigChanged ==
    /\ bPc = "read" /\ bRead = 0
    /\ Fault("reconfigured")
    /\ NewBatch("idle")
    /\ UNCHANGED <<topics, outcomes, bCommitted, bPos, bHigh, retryVars>>

(* The consumer was retired: the read loop aborts the stream and returns, the *)
(* Kafka consumer is closed, and the topic manager's replacement begins at the *)
(* committed offset.  A suspended consumer is closed and re-created likewise.  *)
Retired ==
    /\ bPc \in {"idle", "read"}
    /\ Fault("reconfigured")
    /\ NewBatch("idle")
    /\ bPos' = bCommitted
    /\ UNCHANGED <<topics, outcomes, bCommitted, bHigh, retryVars>>

(* The read loop goes on: room in the batch and the watermark not reached. *)
MayRead == bPc = "read" /\ bRead < BatchSize /\ (bLast = 0 \/ bLast < bHigh)

(* ReadMessage returned record bPos + 1. *)
Receive ==
    /\ MayRead
    /\ bPos < Len(batchLog)
    /\ bPos' = bPos + 1
    /\ bLast' = bPos + 1
    /\ bFirst' = IF bFirst = 0 THEN bPos + 1 ELSE bFirst
    /\ bRead' = bRead + 1

(* The message went into the bulker stream. *)
ConsumeJSON ==
    /\ Receive
    /\ staged' = staged \cup {batchLog[bPos + 1].msg}
    /\ UNCHANGED <<topics, outcomes, bCommitted, bPc, bHigh, bNext, txRetry, txDead,
                   retryVars, faults>>

(* The messages of S were in a load that failed. *)
CountFailure(S) ==
    failures' = [m \in Messages |->
        IF failures[m] < Budget /\ m \in S THEN failures[m] + 1 ELSE failures[m]]

(* The deferred function of processBatchImpl: after a failed batch the next  *)
(* one is tried if more than one message failed and the watermark is ahead,  *)
(* unless the error is an aborted transaction of the destination.            *)
NextAfterFailure(read, last) == read > 1 /\ last < bHigh

(* CreateStream or ConsumeJSON failed on the received message: Abort, failedPosition. *)
ConsumeJSONFails ==
    /\ Receive
    /\ staged' = {}
    /\ CountFailure(staged \cup {batchLog[bPos + 1].msg})
    /\ bPc' = "rollback"
    /\ bNext' \in {FALSE, NextAfterFailure(bRead', bLast')}
    /\ UNCHANGED <<topics, delivered, rejected, skipped, bCommitted, bHigh, txRetry,
                   txDead, retryVars, faults>>

(* Watermark, size in rows, size in bytes or waitForMessages ended the loop. *)
StopReading ==
    /\ bPc = "read"
    /\ \/ bLast # 0 /\ bLast >= bHigh /\ bRead < BatchSize /\ bNext' = FALSE /\ UNCHANGED faults
       \/ bRead = BatchSize /\ bNext' = TRUE /\ UNCHANGED faults
       \/ MayRead /\ bRead > 0 /\ bNext' = TRUE /\ UNCHANGED faults
       \/ MayRead /\ bPos >= Len(batchLog) /\ bNext' = FALSE /\ UNCHANGED faults
       \/ MayRead /\ Fault("slowRead") /\ bNext' = FALSE
    /\ bPc' = IF bRead > 0 THEN "complete" ELSE "idle"
    /\ UNCHANGED <<topics, outcomes, bCommitted, bPos, bHigh, bFirst, bLast, bRead,
                   staged, txRetry, txDead, retryVars>>

(* ReadMessage failed with something else than a timeout: Abort and return,  *)
(* with failedPosition nil, so that nothing is rolled back: pauseOrSuspend    *)
(* keeps the consumer, whose position is behind the messages read.            *)
ReadFails ==
    /\ MayRead
    /\ Fault("readError")
    /\ NewBatch("idle")
    /\ UNCHANGED <<topics, outcomes, bCommitted, bPos, bHigh, retryVars>>

(* bulkerStream.Complete: the rows are in the warehouse; a BatchError with a *)
(* SuccessCount counts as success, the rows it refused are only logged.       *)
Complete(S) ==
    /\ bPc = "complete"
    /\ S \subseteq staged /\ S # {}
    /\ delivered' = delivered \cup S
    /\ rejected' = rejected \cup (staged \ S)
    /\ bPc' = "commit"
    /\ UNCHANGED <<topics, skipped, failures, bCommitted, bPos, bHigh, bFirst, bLast,
                   bRead, bNext, staged, txRetry, txDead, retryVars, faults>>

(* Complete returned an error; with an unknown outcome the rows of S are there all the same. *)
CompleteFails(S) ==
    /\ bPc = "complete"
    /\ S \subseteq staged
    /\ IF S = {} THEN UNCHANGED faults ELSE Fault("unknownOutcome")
    /\ delivered' = delivered \cup S
    /\ CountFailure(staged)
    /\ bPc' = "rollback"
    /\ bNext' \in {FALSE, NextAfterFailure(bRead, bLast)}
    /\ staged' = {}
    /\ UNCHANGED <<topics, rejected, skipped, bCommitted, bPos, bHigh, bFirst, bLast,
                   bRead, txRetry, txDead, retryVars>>

(* CommitMessage(latestMessage) succeeded. *)
CommitMessage ==
    /\ bPc = "commit"
    /\ bCommitted' = bLast
    /\ BatchEnd
    /\ UNCHANGED <<topics, outcomes, bPos, bHigh, retryVars, faults>>

(* CommitMessage failed: restartConsumer, whose beforeInit alters the offset *)
(* of the group; if that fails too the new consumer tries to commit.          *)
CommitMessageFails ==
    /\ bPc = "commit"
    /\ Fault("kafkaError")
    /\ \/ bCommitted' = bLast /\ bPos' = bLast /\ BatchEnd
       \/ bCommitted' = bCommitted /\ bPos' = bCommitted /\ NewBatch("idle")
    /\ UNCHANGED <<topics, outcomes, bHigh, retryVars>>

-----------------------------------------------------------------------------
(* The batch consumer: processFailed *)

RollbackPosition_Last == bLast - 1

(* processFailed re-reads the batch from firstPosition. *)
RollbackPosition == bFirst - 1

(* A transactional producer, and the consumer sought back to firstPosition. *)
Rollback ==
    /\ bPc = "rollback"
    /\ bPos' = RollbackPosition
    /\ bRead' = 0
    /\ bPc' = "move"
    /\ UNCHANGED <<topics, outcomes, bCommitted, bHigh, bFirst, bLast, bNext, staged,
                   txRetry, txDead, retryVars, faults>>

(* The transaction is full, or holds the message that caused the failure. *)
TransactionReady == bRead = RetryBatchSize \/ (bRead > 0 /\ bPos = bLast)

NoAttemptsLeft_TooLate(rec) == rec.retries > MessagesRetryCount
NoAttemptsLeft_TooEarly(rec) == rec.retries + 1 >= MessagesRetryCount

(* The retries_count header has reached the limit: the message goes to the dead-letter topic. *)
NoAttemptsLeft(rec) == rec.retries >= MessagesRetryCount

(* One message read again and produced to the retry or the dead-letter topic. *)
MoveFailed ==
    /\ bPc = "move" /\ ~TransactionReady
    /\ bPos < Len(batchLog)
    /\ LET r == batchLog[bPos + 1] IN
         IF NoAttemptsLeft(r)
         THEN txDead' = txDead \cup {r.msg} /\ UNCHANGED txRetry
         ELSE txRetry' = Append(txRetry, r) /\ UNCHANGED txDead
    /\ bPos' = bPos + 1
    /\ bRead' = bRead + 1
    /\ UNCHANGED <<topics, outcomes, bCommitted, bPc, bHigh, bFirst, bLast, bNext, staged,
                   retryVars, faults>>

(* A retriable ReadMessage error uses up a turn of the loop.  On the last turn *)
(* there is no message to take the offset from: ProcessFailedFails.             *)
MoveReadRetried ==
    /\ bPc = "move" /\ ~TransactionReady
    /\ bRead + 1 < RetryBatchSize
    /\ Fault("kafkaError")
    /\ bRead' = bRead + 1
    /\ UNCHANGED <<topics, outcomes, bCommitted, bPc, bPos, bHigh, bFirst, bLast, bNext,
                   staged, txRetry, txDead, retryVars>>

MovedOffset_NotSent == bCommitted

(* SendOffsetsToTransaction: the offset after the last message moved. *)
MovedOffset == bPos

(* CommitTransaction: the produced records and the consumer's offset, atomically. *)
MoveTransaction ==
    /\ bPc = "move" /\ TransactionReady
    /\ retryLog' = retryLog \o txRetry
    /\ dead' = dead \cup txDead
    /\ bCommitted' = MovedOffset
    /\ UNCHANGED <<batchLog, rDue, outcomes, bPos, bHigh, retryVars>>

(* The next transaction begins, or the batch is over (reachedEnd). *)
CommitMove ==
    /\ MoveTransaction
    /\ IF bPos = bLast
       THEN BatchEnd
       ELSE /\ bRead' = 0 /\ txRetry' = <<>> /\ txDead' = {}
            /\ UNCHANGED <<bPc, bFirst, bLast, bNext, staged>>
    /\ UNCHANGED faults

(* CommitTransaction reported an error after the broker committed. *)
CommitMoveUnknown ==
    /\ Fault("unknownOutcome")
    /\ MoveTransaction
    /\ NewBatch("idle")

(* Any call of processFailed failed: AbortTransaction, and restartConsumer   *)
(* begins again at the committed offset.                                      *)
ProcessFailedFails ==
    /\ bPc \in {"rollback", "move"}
    /\ Fault("kafkaError")
    /\ NewBatch("idle")
    /\ bPos' = bCommitted
    /\ UNCHANGED <<topics, outcomes, bCommitted, bHigh, retryVars>>

(* The group reassigns the partition to the consumer: it goes on from the      *)
(* committed offset in the middle of whatever it does.  processFailed does not *)
(* survive it: its transaction carries the old group metadata and is refused.  *)
BatchRebalance ==
    /\ bPc \in {"idle", "read", "complete", "commit"}
    /\ bPos # bCommitted
    /\ Fault("rebalance")
    /\ bPos' = bCommitted
    /\ UNCHANGED <<topics, outcomes, bCommitted, bPc, bHigh, bFirst, bLast, bRead, bNext,
                   staged, txRetry, txDead, retryVars>>

-----------------------------------------------------------------------------
(* The retry consumer *)

(* isTimeToRetry: the time in the retry_time header of record i has passed. *)
RetryTimeComes(i) ==
    /\ i \in (rCommitted + 1)..Len(retryLog) \ rDue
    /\ rDue' = rDue \cup {i}
    /\ UNCHANGED <<batchLog, retryLog, dead, outcomes, batchVars, retryVars, faults>>

NewRetryBatch(pc) ==
    /\ rPc' = pc
    /\ rFirst' = 0 /\ rLast' = 0 /\ rRead' = 0 /\ rNext' = TRUE
    /\ rtxBatch' = <<>> /\ rtxAgain' = <<>> /\ rtxSkip' = {}

(* shouldConsumeFuncImpl reads on until it finds a message that is ready. *)
Ready == {i \in (rPos + 1)..Len(retryLog) : i \in rDue}

(* A run of the retry consumer: it has something to do when it finds a ready    *)
(* message, or when reading fails; the messages it looked at are sought back.    *)
RetryRunJob ==
    /\ rPc = "idle"
    /\ ShouldConsume(rCommitted, Len(retryLog))
    /\ IF Ready # {} THEN UNCHANGED faults ELSE Fault("kafkaError")
    /\ NewRetryBatch("read")
    /\ rHigh' = Len(retryLog)
    /\ UNCHANGED <<topics, outcomes, batchVars, rCommitted, rPos>>

(* The same when seeking back fails, which is only logged. *)
RetrySeekFails ==
    /\ rPc = "idle"
    /\ rPos < Len(retryLog) /\ ShouldConsume(rCommitted, Len(retryLog))
    /\ Fault("seekError")
    /\ rHigh' = Len(retryLog)
    /\ IF Ready # {}
       THEN NewRetryBatch("read") /\ rPos' \in Ready /\ \A i \in Ready : rPos' <= i
       ELSE NewRetryBatch("idle") /\ rPos' = Len(retryLog)
    /\ UNCHANGED <<topics, outcomes, batchVars, rCommitted>>

RetryMayRead == rPc = "read" /\ rRead < RetryBatchSize /\ (rLast = 0 \/ rLast < rHigh)

RetryReceive ==
    /\ RetryMayRead
    /\ rPos < Len(retryLog)
    /\ rPos' = rPos + 1
    /\ rLast' = rPos + 1
    /\ rFirst' = IF rFirst = 0 THEN rPos + 1 ELSE rFirst
    /\ rRead' = rRead + 1
    /\ UNCHANGED <<topics, outcomes, batchVars, rCommitted, rPc, rHigh, rNext>>

(* A message that is ready goes back to its topic with one more retry, the   *)
(* others are re-added to the retry topic.                                    *)
Resend ==
    /\ RetryReceive
    /\ LET r == retryLog[rPos + 1] IN
         IF rPos + 1 \in rDue
         THEN /\ rtxBatch' = Append(rtxBatch, [r EXCEPT !.retries = @ + 1])
              /\ UNCHANGED rtxAgain
         ELSE rtxAgain' = Append(rtxAgain, r) /\ UNCHANGED rtxBatch
    /\ UNCHANGED <<rtxSkip, faults>>

(* "Message size too large": the message is left out of the transaction. *)
SkipOversized ==
    /\ RetryReceive
    /\ Fault("oversized")
    /\ rtxSkip' = rtxSkip \cup {retryLog[rPos + 1].msg}
    /\ UNCHANGED <<rtxBatch, rtxAgain>>

(* Watermark, batch size or waitForMessages ended the loop. *)
RetryStopReading ==
    /\ rPc = "read"
    /\ \/ rLast # 0 /\ rLast >= rHigh /\ rRead < RetryBatchSize
          /\ rNext' = FALSE /\ UNCHANGED faults
       \/ rRead = RetryBatchSize /\ UNCHANGED <<rNext, faults>>
       \/ RetryMayRead /\ rPos >= Len(retryLog) /\ rNext' = FALSE /\ UNCHANGED faults
       \/ RetryMayRead /\ Fault("slowRead") /\ rNext' = FALSE
    /\ rPc' = IF rRead > 0 THEN "commit" ELSE "idle"
    /\ UNCHANGED <<topics, outcomes, batchVars, rCommitted, rPos, rHigh, rFirst, rLast,
                   rRead, rtxBatch, rtxAgain, rtxSkip>>

(* SendOffsetsToTransaction and CommitTransaction, atomically. *)
RetryTransaction ==
    /\ rPc = "commit"
    /\ batchLog' = batchLog \o rtxBatch
    /\ retryLog' = retryLog \o rtxAgain
    /\ skipped' = skipped \cup rtxSkip
    /\ rCommitted' = rLast
    /\ UNCHANGED <<dead, rDue, delivered, rejected, failures, batchVars, rHigh>>

RetryCommit ==
    /\ RetryTransaction
    /\ NewRetryBatch(IF rNext THEN "read" ELSE "idle")
    /\ UNCHANGED <<rPos, faults>>

(* CommitTransaction reported an error after the broker committed; the       *)
(* deferred function seeks back all the same.                                 *)
RetryCommitUnknown ==
    /\ Fault("unknownOutcome")
    /\ RetryTransaction
    /\ NewRetryBatch("idle")
    /\ rPos' = rFirst - 1

(* A call failed: seek back to firstPosition, abort; a failing seek is only    *)
(* logged.  SendOffsetsToTransaction also fails when the group is rebalanced    *)
(* after GetConsumerGroupMetadata: that metadata is of an old generation.        *)
RetryFails ==
    /\ rPc \in {"read", "commit"}
    /\ \/ Fault("kafkaError") /\ rPos' = IF rFirst = 0 THEN rPos ELSE rFirst - 1
       \/ rPc = "commit" /\ Fault("rebalance") /\ rPos' = rFirst - 1
       \/ Fault("seekError") /\ UNCHANGED rPos
    /\ NewRetryBatch("idle")
    /\ UNCHANGED <<topics, outcomes, batchVars, rCommitted, rHigh>>

(* Retired in the read loop: the transaction is left open and the broker aborts it. *)
RetryRetired ==
    /\ rPc \in {"idle", "read"}
    /\ Fault("reconfigured")
    /\ NewRetryBatch("idle")
    /\ rPos' = rCommitted
    /\ UNCHANGED <<topics, outcomes, batchVars, rCommitted, rHigh>>

(* A reassignment of the retry partition: the consumer goes on from the         *)
(* committed offset with the transaction it has open, or a message of another   *)
(* partition ends the loop.  What was consumed is committed all the same: the   *)
(* group metadata is taken after the loop.                                       *)
RetryRebalance ==
    /\ Fault("rebalance")
    /\ rPos' = rCommitted
    /\ \/ rPos # rCommitted /\ UNCHANGED <<rPc, rNext>>
       \/ RetryMayRead /\ rRead > 0 /\ rPc' = "commit" /\ rNext' = FALSE
    /\ UNCHANGED <<topics, outcomes, batchVars, rCommitted, rHigh, rFirst, rLast, rRead,
                   rtxBatch, rtxAgain, rtxSkip>>

-----------------------------------------------------------------------------
(* The process dies: positions, open streams and open transactions are gone. *)
Crash ==
    /\ Fault("crash")
    /\ NewBatch("idle") /\ bPos' = bCommitted
    /\ NewRetryBatch("idle") /\ rPos' = rCommitted
    /\ UNCHANGED <<topics, outcomes, bCommitted, bHigh, rCommitted, rHigh>>

BatchStep ==
    \/ RunJob \/ ConsumeJSON \/ ConsumeJSONFails \/ StopReading
    \/ \E S \in SUBSET staged : Complete(S) \/ CompleteFails(S)
    \/ CommitMessage \/ Rollback \/ MoveFailed \/ CommitMove

BatchTrouble ==
    \/ ConfigChanged \/ Retired \/ ReadFails \/ CommitMessageFails
    \/ MoveReadRetried \/ CommitMoveUnknown \/ ProcessFailedFails \/ BatchRebalance

RetryStep == RetryRunJob \/ Resend \/ RetryStopReading \/ RetryCommit

RetryTrouble ==
    \/ RetrySeekFails \/ SkipOversized \/ RetryCommitUnknown \/ RetryFails
    \/ RetryRetired \/ RetryRebalance

Next ==
    \/ \E m \in Messages : Produce(m)
    \/ BatchStep \/ BatchTrouble
    \/ \E i \in 1..Len(retryLog) : RetryTimeComes(i)
    \/ RetryStep \/ RetryTrouble
    \/ Crash

Spec == Init /\ [][Next]_vars

(***************************************************************************)
(* The cron runs each consumer again and again (cron.go), a started run      *)
(* goes on until it ends, and time passes.                                    *)
(***************************************************************************)
Fairness ==
    /\ WF_vars(BatchStep)
    /\ WF_vars(RetryStep)
    /\ WF_vars(\E i \in 1..Len(retryLog) : RetryTimeComes(i))

FairSpec == Spec /\ Fairness

-----------------------------------------------------------------------------
(* Properties *)

TopicsOK ==
    /\ batchLog \in Seq(Record) /\ retryLog \in Seq(RetryRecord)
    /\ dead \subseteq Messages /\ rDue \subseteq 1..Len(retryLog)
    /\ bCommitted \in 0..Len(batchLog) /\ rCommitted \in 0..Len(retryLog)

OutcomesOK ==
    /\ delivered \subseteq Messages /\ rejected \subseteq Messages
    /\ skipped \subseteq Messages
    /\ failures \in [Messages -> 0..Budget]
    /\ faults \in 0..MaxFaults

BatchOK ==
    /\ bPc \in {"idle", "read", "complete", "commit", "rollback", "move"}
    /\ bPos \in 0..Len(batchLog) /\ bHigh \in 0..Len(batchLog)
    /\ bFirst \in 0..Len(batchLog) /\ bLast \in 0..Len(batchLog)
    /\ bRead \in Nat /\ staged \subseteq Messages
    /\ txRetry \in Seq(RetryRecord) /\ txDead \subseteq Messages

RetryOK ==
    /\ rPc \in {"idle", "read", "commit"}
    /\ rPos \in 0..Len(retryLog) /\ rHigh \in 0..Len(retryLog)
    /\ rFirst \in 0..Len(retryLog) /\ rLast \in 0..Len(retryLog)
    /\ rRead \in Nat
    /\ rtxBatch \in Seq(Record) /\ rtxAgain \in Seq(RetryRecord)
    /\ rtxSkip \subseteq Messages

FlagsOK == bNext \in BOOLEAN /\ rNext \in BOOLEAN

(* The type invariant of the pipeline's state. *)
TypeOK == TopicsOK /\ OutcomesOK /\ BatchOK /\ RetryOK /\ FlagsOK

(* m is an unacknowledged record of a topic: some consumer will read it again. *)
PendingBatch(m) == \E i \in (bCommitted + 1)..Len(batchLog) : batchLog[i].msg = m
PendingRetry(m) == \E i \in (rCommitted + 1)..Len(retryLog) : retryLog[i].msg = m
Pending(m) == PendingBatch(m) \/ PendingRetry(m)

(* m has met an end that the code accounts for. *)
Settled(m) == m \in delivered \cup rejected \cup dead \cup skipped

(* No message is lost: whatever the consumers do and wherever they are         *)
(* interrupted, a message of the destination topic is in the warehouse, in the *)
(* dead-letter topic, refused and logged, or still unacknowledged in a topic.  *)
NoLoss == \A m \in Produced : Settled(m) \/ Pending(m)

AllAttemptsMade == \A m \in dead : failures[m] = Budget

(* A message is dead-lettered only after every attempt was made: at least      *)
(* MessagesRetryCount + 1 loads that contained it failed, however often        *)
(* transactions were repeated or records re-added along the way.  Except when  *)
(* the group is rebalanced: a batch read on both sides of a rebalance is moved *)
(* from its first to its last offset, with records that no failed load held.   *)
DeadAfterAllAttempts == "rebalance" \notin Faults => AllAttemptsMade

(* Copies of m not acknowledged yet, over both topics. *)
Copies(m) ==
    Cardinality({i \in (bCommitted + 1)..Len(batchLog) : batchLog[i].msg = m}) +
    Cardinality({i \in (rCommitted + 1)..Len(retryLog) : retryLog[i].msg = m})

(* Without faults delivery is exactly once: a message has one unacknowledged   *)
(* copy and no outcome, or an outcome and no copy left (but for the moment     *)
(* between the load and the commit of its offset).                             *)
ExactlyOnceWithoutFaults ==
    faults = 0 => \A m \in Produced :
        \/ Copies(m) = 1 /\ (Settled(m) => bPc = "commit" /\ m \in staged)
        \/ Copies(m) = 0 /\ Settled(m) /\ m \notin delivered \cap (rejected \cup dead)

(* Every accepted message is settled some day, not retried or re-added for ever. *)
EventuallySettled ==
    \A m \in Messages : m \in Produced ~> Settled(m)
=============================================================================
