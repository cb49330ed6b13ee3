------------------------------ MODULE RetryQueue ------------------------------
(***************************************************************************)
(* Marketplace transactions on chain and in the database, and the queue    *)
(* that retries failed submissions (transaction-retry-queue.service.ts,    *)
(* transaction-retry.worker.ts).                                           *)
(*                                                                         *)
(* `chain' is the transaction contract's view, `tx' the backend's record   *)
(* of the same transaction, `retry' the retry records and `job' the Bull   *)
(* job of each retry record.  Nothing keeps the four in step but the order *)
(* in which the code writes them.                                          *)
(***************************************************************************)
EXTENDS Naturals, Sequences

CONSTANTS
    NoListing,          \* metadata without a listing id
    MaxAttempts,        \* TRANSACTION_RETRY_MAX_ATTEMPTS
    MaxRetries          \* bound: retry records

ASSUME RetryAssumptions == MaxAttempts \in Nat /\ MaxRetries \in Nat

VARIABLES
    chain,      \* per transaction: state, and whether it was ever executed
    tx,         \* per transaction: state; listing and retry record in its metadata
    retry,      \* retry records: transaction, status, attempts
    job         \* per retry record: none, waiting, being worked on, or kept

retryVars == <<chain, tx, retry, job>>

ChainStates == {"pending", "completed", "cancelled", "rolled_back"}
TxStates ==
    {"pending", "pending_retry", "executing", "completed", "failed",
     "cancelled", "rolled_back"}
RetryStatuses == {"pending", "completed", "cancelled", "dlq"}
Working ==
    {"submitting", "accepted", "recorded", "refused", "counted", "exhausted"}
JobStates == {"none", "waiting", "kept"} \union Working

RetryInit == chain = <<>> /\ tx = <<>> /\ retry = <<>> /\ job = <<>>

-----------------------------------------------------------------------------
(* transaction_core.rs: a finished transaction executes and cancels no     *)
(* more; a rollback is taken in every state.                               *)
Executable(t) == chain[t].state = "pending"
Cancellable(t) == chain[t].state \notin {"completed", "rolled_back"}

Executed(t) == [chain EXCEPT ![t] = [@ EXCEPT !.state = "completed", !.executed = TRUE]]
ChainCancelled(t) == [chain EXCEPT ![t].state = "cancelled"]
RolledBack(t) == [chain EXCEPT ![t].state = "rolled_back"]

(* Mutant: the record alone. *)
EnqueueRetryOnly(t) ==
    /\ Len(retry) < MaxRetries
    /\ retry' = Append(retry, [tx |-> t, status |-> "pending", attempts |-> 0])
    /\ UNCHANGED job

(* enqueueRetry: a record, then a job named after it.                      *)
EnqueueRetry(t) ==
    /\ Len(retry) < MaxRetries
    /\ retry' = Append(retry, [tx |-> t, status |-> "pending", attempts |-> 0])
    /\ job' = Append(job, "waiting")

(* Bull takes a job under an id it still knows for a duplicate and drops   *)
(* it; finished jobs are kept (removeOnComplete: false), so it knows every *)
(* id that ever ran.                                                       *)
Readded(k) == [job EXCEPT ![k] = IF @ = "none" THEN "waiting" ELSE @]

(* removeJobs cannot take a job away from the worker that has it.          *)
Removed(k) == [job EXCEPT ![k] = IF @ \in Working THEN @ ELSE "none"]

-----------------------------------------------------------------------------
(* The worker submits without looking at the record, so a job whose retry  *)
(* was cancelled while it started is submitted all the same.               *)
StartJob(k) ==
    /\ job[k] = "waiting"
    /\ job' = [job EXCEPT ![k] = "submitting"]
    /\ UNCHANGED <<chain, tx, retry>>

Submit(k) ==
    /\ job[k] = "submitting"
    /\ \/ /\ Executable(retry[k].tx)
          /\ chain' = Executed(retry[k].tx)
          /\ \E answer \in {"accepted", "refused"} : job' = [job EXCEPT ![k] = answer]
       \/ /\ job' = [job EXCEPT ![k] = "refused"]
          /\ UNCHANGED chain
    /\ UNCHANGED <<tx, retry>>

(* Success: the record first, the transaction next - whose metadata is     *)
(* replaced by the retry's, and which is not settled.                      *)
RecordSuccess(k) ==
    /\ job[k] = "accepted"
    /\ retry' = [retry EXCEPT ![k].status = "completed"]
    /\ job' = [job EXCEPT ![k] = "recorded"]
    /\ UNCHANGED <<chain, tx>>

CompleteTransaction(k) ==
    /\ job[k] = "recorded"
    /\ tx' = [tx EXCEPT ![retry[k].tx] =
                [state |-> "completed", listing |-> NoListing, retry |-> 0]]
    /\ job' = [job EXCEPT ![k] = "kept"]
    /\ UNCHANGED <<chain, retry>>

(* A database error after the submission is handled like a refused one.    *)
RecordingFails(k) ==
    /\ job[k] \in {"accepted", "recorded"}
    /\ job' = [job EXCEPT ![k] = "refused"]
    /\ UNCHANGED <<chain, tx, retry>>

(* Failure: one more attempt, recorded ...                                 *)
RetryLater(k) ==
    /\ job[k] = "refused"
    /\ retry[k].attempts + 1 <= MaxAttempts
    /\ retry' = [retry EXCEPT ![k].status = "pending", ![k].attempts = @ + 1]
    /\ job' = [job EXCEPT ![k] = "counted"]
    /\ UNCHANGED <<chain, tx>>

(* ... and queued under the id of the job being worked on, which Bull      *)
(* ignores and then keeps as finished.                                     *)
Requeue(k) ==
    /\ job[k] = "counted"
    /\ job' = [Readded(k) EXCEPT ![k] = IF @ = "counted" THEN "kept" ELSE @]
    /\ UNCHANGED <<chain, tx, retry>>

MoveToDlq(k) ==
    /\ job[k] = "refused"
    /\ retry[k].attempts + 1 > MaxAttempts
    /\ retry' = [retry EXCEPT ![k].status = "dlq"]
    /\ job' = [job EXCEPT ![k] = "exhausted"]
    /\ UNCHANGED <<chain, tx>>

FailTransaction(k) ==
    /\ job[k] = "exhausted"
    /\ tx' = [tx EXCEPT ![retry[k].tx].state = "failed"]
    /\ job' = [job EXCEPT ![k] = "kept"]
    /\ UNCHANGED <<chain, retry>>

(* An administrator puts an entry of the dead letter queue back.           *)
RetryDlqEntry(k) ==
    /\ retry[k].status = "dlq"
    /\ retry' = [retry EXCEPT ![k].status = "pending", ![k].attempts = 0]
    /\ job' = Readded(k)
    /\ UNCHANGED <<chain, tx>>

(* The two writes of cancelRetry.  It refuses a completed retry and an     *)
(* entry of the dead letter queue.                                         *)
CanCancelRetry(k) == retry[k].status \notin {"completed", "dlq"}
RetryCancelled(k) == [retry EXCEPT ![k].status = "cancelled"]

WorkerStep(k) ==
    \/ StartJob(k) \/ Submit(k) \/ RecordSuccess(k) \/ CompleteTransaction(k)
    \/ RecordingFails(k) \/ RetryLater(k) \/ Requeue(k)
    \/ MoveToDlq(k) \/ FailTransaction(k)

QueueNext == \E k \in DOMAIN retry : WorkerStep(k) \/ RetryDlqEntry(k)

(* A worker that dies leaves its jobs stalled, and Bull runs them again.   *)
StalledJobsRequeued ==
    [k \in DOMAIN job |-> IF job[k] \in Working THEN "waiting" ELSE job[k]]
=============================================================================
