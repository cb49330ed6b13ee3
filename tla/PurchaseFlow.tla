----------------------------- MODULE PurchaseFlow -----------------------------
(***************************************************************************)
(* A purchase in the backend: listing.service.ts claims the listing,       *)
(* transaction.service.ts creates a transaction on the contract and in the *)
(* database and executes it, and the outcome settles or frees the listing. *)
(* Beside it run the parties' own calls on the transaction - execute,      *)
(* cancel, recover, or just looking at it - the retry worker, the expiry   *)
(* job, and crashes of the process.                                        *)
(*                                                                         *)
(* Every await is a step.  A request keeps the row it read in `seen' and   *)
(* saves it whole, over whatever was written meanwhile.                    *)
(***************************************************************************)
EXTENDS ListingClaims, RetryQueue

CONSTANTS
    MaxRequests,        \* bound: requests
    MaxTransactions,    \* bound: transactions
    MaxCrashes          \* bound: crashes

ASSUME PurchaseAssumptions == NoListing \notin Listings /\ MaxRequests \in Nat

Requests == 1..MaxRequests  \* in the order in which they are made

VARIABLES
    request,    \* per request: what it does, how far it is, what it has read
    crashes     \* crashes so far

vars == <<claimVars, retryVars, request, crashes>>

SomeListing == Listings \union {NoListing}
ChainRow ==
    [state : ChainStates, executed : BOOLEAN, listing : Listings, buyer : Buyers]
TxRow == [state : TxStates \union {"none"}, listing : SomeListing, retry : Nat]
RetryRow == [tx : Nat, status : RetryStatuses, attempts : Nat]
Calls == {"view", "execute", "cancel", "rollback"}
Steps ==
    {"idle", "done", "claimed", "created", "read", "calling", "answered",
     "settled", "adopted", "queued", "failing", "fallback", "report",
     "cancelling", "cancelled", "rolled_back", "relisted"}
Outcomes == TxStates \union {"none", "retryable", "permanent"}
RequestRow ==
    [op : Calls \union {"none", "buy"}, step : Steps, outcome : Outcomes,
     tx : Nat, seen : TxRow, buyer : Buyers \union {NoUser}, listing : SomeListing]

NoRow == [state |-> "none", listing |-> NoListing, retry |-> 0]
NoRequest ==
    [op |-> "none", step |-> "idle", buyer |-> NoUser, listing |-> NoListing,
     tx |-> 0, seen |-> NoRow, outcome |-> "none"]

Init ==
    /\ ClaimInit /\ RetryInit
    /\ request = [r \in Requests |-> NoRequest]
    /\ crashes = 0

-----------------------------------------------------------------------------
At(r, step) == request[r].step = step
Go(r, step) == request' = [request EXCEPT ![r].step = step]
Answer(r, step, outcome) ==
    request' = [request EXCEPT ![r].step = step, ![r].outcome = outcome]
Answered == [NoRequest EXCEPT !.step = "done"]
Done(r) == request' = [request EXCEPT ![r] = Answered]

Tx(r) == request[r].tx
Seen(r) == request[r].seen
Saved(r, state) == [tx EXCEPT ![Tx(r)] = [Seen(r) EXCEPT !.state = state]]
SetStatus(l, status) ==
    IF l \in Listings THEN [listing EXCEPT ![l].status = status] ELSE listing

(* A buyer's request returns to the listing service, others are answered.  *)
Leave(r, step, outcome) ==
    IF request[r].op = "buy"
    THEN request' = [request EXCEPT ![r].step = step, ![r].outcome = outcome,
                                    ![r].seen = NoRow]
    ELSE Done(r)
Return(r, state) == Leave(r, "report", state)

(* An error inside execute: buy swallows it and reads the row again.       *)
Fail(r) == Leave(r, "failing", "none")

Finalized(r) == Seen(r).state \in {"completed", "cancelled"}
RetryOf(r) == IF Seen(r).state = "pending_retry" THEN Seen(r).retry ELSE 0
RetryStatus(r) == IF RetryOf(r) = 0 THEN "none" ELSE retry[RetryOf(r)].status

-----------------------------------------------------------------------------
(* buy: claim, then settle.  (The clock is kept running past the last      *)
(* reservation's time to live.)                                            *)
Buy(r, b, l) ==
    /\ At(r, "idle")
    /\ now + ReservationTTL < MaxTime
    /\ ClaimListing(l, b)
    /\ request' = [request EXCEPT ![r] =
                     [NoRequest EXCEPT !.op = "buy", !.step = "claimed",
                                       !.buyer = b, !.listing = l]]
    /\ UNCHANGED <<now, cron, retryVars, crashes>>

(* The listing is no longer ACTIVE, or the contract takes no transaction.  *)
SettlementRefused(r) ==
    /\ At(r, "claimed")
    /\ listing' = Released(request[r].listing, request[r].buyer)
    /\ Done(r)
    /\ UNCHANGED <<now, cron, retryVars, crashes>>

CreateTransaction(r) ==
    LET row == [state |-> "pending", listing |-> request[r].listing, retry |-> 0]
    IN  /\ At(r, "claimed")
        /\ Active(request[r].listing)
        /\ Len(tx) < MaxTransactions
        /\ chain' = Append(chain, [state |-> "pending", executed |-> FALSE,
                                   listing |-> request[r].listing,
                                   buyer |-> request[r].buyer])
        /\ tx' = Append(tx, row)
        /\ request' = [request EXCEPT ![r].step = "created", ![r].tx = Len(tx) + 1]
        /\ UNCHANGED <<claimVars, retry, job, crashes>>

(* execute, cancel, recover (roll back) and findById all begin with a read *)
(* of the row; a purchase reads it to execute it, and again if that fails  *)
(* ...                                                                     *)
Open(r, op, t) ==
    /\ At(r, "idle")
    /\ request' = [request EXCEPT ![r] =
                     [NoRequest EXCEPT !.op = op, !.step = "read", !.tx = t,
                                       !.seen = tx[t]]]
    /\ UNCHANGED <<claimVars, retryVars, crashes>>

Reread(r) ==
    /\ request[r].step \in {"created", "failing"}
    /\ request' = [request EXCEPT ![r].seen = tx[Tx(r)],
                     ![r].step = IF @ = "created" THEN "read" ELSE "fallback"]
    /\ UNCHANGED <<claimVars, retryVars, crashes>>

(* ... ask the contract for its state, and, if it answers, save the row as *)
(* it was read.                                                            *)
Sync(r) == tx' \in {tx, Saved(r, Seen(r).state)}

Look(r) ==
    /\ At(r, "read") /\ request[r].op = "view"
    /\ Sync(r)
    /\ Done(r)
    /\ UNCHANGED <<claimVars, chain, retry, job, crashes>>

FallBack(r) ==
    /\ At(r, "fallback")
    /\ Sync(r)
    /\ Return(r, Seen(r).state)
    /\ UNCHANGED <<claimVars, chain, retry, job, crashes>>

(* Neither could be read: the purchase counts as never committed.          *)
FallBackFails(r) ==
    /\ At(r, "failing")
    /\ listing' = Released(request[r].listing, request[r].buyer)
    /\ Done(r)
    /\ UNCHANGED <<now, cron, retryVars, crashes>>

(* Nothing to execute, cancel or recover: a conflict, or a retry on its    *)
(* way.                                                                    *)
Refused(r) ==
    CASE request[r].op \in {"buy", "execute"} ->
              Finalized(r) \/ RetryStatus(r) \in {"dlq", "pending"}
      [] request[r].op = "cancel" -> Finalized(r)
      [] request[r].op = "rollback" -> Seen(r).state = "cancelled"
      [] OTHER -> FALSE

Refuse(r) ==
    /\ At(r, "read") /\ Refused(r)
    /\ Sync(r)
    /\ IF RetryStatus(r) = "pending" THEN Return(r, Seen(r).state) ELSE Fail(r)
    /\ UNCHANGED <<claimVars, chain, retry, job, crashes>>

-----------------------------------------------------------------------------
(* execute: mark the row, call the contract, settle, save.                 *)
Executes(r) == At(r, "read") /\ request[r].op \in {"buy", "execute"} /\ ~Refused(r)

BeginExecute(r) ==
    /\ Executes(r) /\ RetryStatus(r) # "completed"
    /\ tx' = Saved(r, "executing")
    /\ Go(r, "calling")
    /\ UNCHANGED <<claimVars, chain, retry, job, crashes>>

(* The worker got it through between this request's reads.                 *)
AdoptRetry(r) ==
    /\ Executes(r) /\ RetryStatus(r) = "completed"
    /\ tx' = Saved(r, "completed")
    /\ Go(r, "adopted")
    /\ UNCHANGED <<claimVars, chain, retry, job, crashes>>

SettleAdopted(r) ==
    /\ At(r, "adopted")
    /\ listing' = SetStatus(Seen(r).listing, "SOLD")
    /\ tx' \in {tx, Saved(r, "completed")}
    /\ Return(r, "completed") \/ Fail(r)
    /\ UNCHANGED <<now, cron, chain, retry, job, crashes>>

(* The contract executes, or refuses; an answer may also be lost on its    *)
(* way, whatever the contract did.                                         *)
CallContract(r) ==
    /\ At(r, "calling")
    /\ \/ /\ Executable(Tx(r))
          /\ chain' = Executed(Tx(r))
          /\ \E answer \in {"completed", "retryable"} : Answer(r, "answered", answer)
       \/ /\ \E answer \in {"retryable", "permanent"} : Answer(r, "answered", answer)
          /\ UNCHANGED chain
    /\ UNCHANGED <<claimVars, tx, retry, job, crashes>>

(* applySettlement: the listing first; ownership and metadata, which may   *)
(* fail, after it.                                                         *)
SettleListing(r) ==
    /\ At(r, "answered") /\ request[r].outcome = "completed"
    /\ listing' = SetStatus(Seen(r).listing, "SOLD")
    /\ Go(r, "settled")
    /\ UNCHANGED <<now, cron, retryVars, crashes>>

SettlementFails(r) ==
    /\ At(r, "settled")
    /\ \E answer \in {"retryable", "permanent"} : Answer(r, "answered", answer)
    /\ UNCHANGED <<claimVars, retryVars, crashes>>

RecordCompleted(r) ==
    /\ At(r, "settled")
    /\ tx' = Saved(r, "completed")
    /\ Return(r, "completed")
    /\ UNCHANGED <<claimVars, chain, retry, job, crashes>>

QueueRetry(r) ==
    /\ At(r, "answered") /\ request[r].outcome = "retryable"
    /\ EnqueueRetry(Tx(r))
    /\ request' = [request EXCEPT ![r].step = "queued", ![r].seen.retry = Len(retry) + 1]
    /\ UNCHANGED <<claimVars, chain, tx, crashes>>

RecordRetry(r) ==
    /\ At(r, "queued")
    /\ tx' = Saved(r, "pending_retry")
    /\ Return(r, "pending_retry")
    /\ UNCHANGED <<claimVars, chain, retry, job, crashes>>

RecordFailed(r) ==
    /\ At(r, "answered") /\ request[r].outcome = "permanent"
    /\ tx' = Saved(r, "failed")
    /\ Fail(r)
    /\ UNCHANGED <<claimVars, chain, retry, job, crashes>>

(* The row cannot be saved: the error leaves execute.                      *)
SaveFails(r) ==
    /\ Executes(r) \/ At(r, "queued") \/ At(r, "answered")
    /\ request[r].outcome # "completed"
    /\ Fail(r)
    /\ UNCHANGED <<claimVars, retryVars, crashes>>

(* Mutant: a queued retry counts as a sale. *)
ReportQueuedAsSold(r) ==
    /\ At(r, "report")
    /\ listing' = IF request[r].outcome \in {"completed", "pending_retry"}
                  THEN MarkedSold(request[r].listing)
                  ELSE Released(request[r].listing, request[r].buyer)
    /\ Done(r)
    /\ UNCHANGED <<now, cron, retryVars, crashes>>

(* Back in buy: sold, or free again, or still reserved.                    *)
Report(r) ==
    /\ At(r, "report")
    /\ listing' = CASE request[r].outcome = "completed" -> MarkedSold(request[r].listing)
                    [] request[r].outcome \in {"failed", "cancelled", "rolled_back"} ->
                          Released(request[r].listing, request[r].buyer)
                    [] OTHER -> listing
    /\ Done(r)
    /\ UNCHANGED <<now, cron, retryVars, crashes>>

-----------------------------------------------------------------------------
(* cancel: the retry, the contract, the row - three stores in a row.       *)
CancelRetry(r) ==
    /\ At(r, "read") /\ request[r].op = "cancel" /\ ~Refused(r)
    /\ Sync(r)
    /\ LET k == RetryOf(r)
       IN  IF k # 0 /\ CanCancelRetry(k)
           THEN retry' = RetryCancelled(k) /\ job' = Removed(k)
           ELSE UNCHANGED <<retry, job>>
    /\ Go(r, "cancelling")
    /\ UNCHANGED <<claimVars, chain, crashes>>

(* Mutant: the contract's refusal is swallowed. *)
CancelAnyway(r) ==
    /\ At(r, "cancelling")
    /\ chain' = IF Cancellable(Tx(r)) THEN ChainCancelled(Tx(r)) ELSE chain
    /\ Go(r, "cancelled")
    /\ UNCHANGED <<claimVars, tx, retry, job, crashes>>

CancelOnChain(r) ==
    /\ At(r, "cancelling")
    /\ \/ /\ Cancellable(Tx(r))
          /\ chain' = ChainCancelled(Tx(r))
          /\ Go(r, "cancelled") \/ Done(r)
       \/ UNCHANGED chain /\ Done(r)
    /\ UNCHANGED <<claimVars, tx, retry, job, crashes>>

RecordCancelled(r) ==
    /\ At(r, "cancelled")
    /\ tx' = Saved(r, "cancelled")
    /\ Done(r)
    /\ UNCHANGED <<claimVars, chain, retry, job, crashes>>

(* recover with strategy rollback; the contract refuses strategy retry, as *)
(* no transaction of its is ever left in state Failed.                     *)
RollBackOnChain(r) ==
    /\ At(r, "read") /\ request[r].op = "rollback" /\ ~Refused(r)
    /\ Sync(r)
    /\ \/ chain' = RolledBack(Tx(r)) /\ (Go(r, "rolled_back") \/ Done(r))
       \/ UNCHANGED chain /\ Done(r)
    /\ UNCHANGED <<claimVars, retry, job, crashes>>

RelistRolledBack(r) ==
    /\ At(r, "rolled_back")
    /\ listing' = SetStatus(Seen(r).listing, "ACTIVE")
    /\ Go(r, "relisted")
    /\ UNCHANGED <<now, cron, retryVars, crashes>>

RecordRolledBack(r) ==
    /\ At(r, "relisted")
    /\ tx' = Saved(r, "rolled_back")
    /\ Done(r)
    /\ UNCHANGED <<claimVars, chain, retry, job, crashes>>

-----------------------------------------------------------------------------
(* Requests and the expiry job die with the process; rows, jobs and the    *)
(* contract stay.                                                          *)
Crash ==
    /\ crashes < MaxCrashes
    /\ crashes' = crashes + 1
    /\ request' = [r \in Requests |-> IF At(r, "idle") THEN NoRequest ELSE Answered]
    /\ cron' = [stale |-> {}, rows |-> RowsOf({})]
    /\ job' = StalledJobsRequeued
    /\ UNCHANGED <<now, listing, chain, tx, retry>>

RequestStep(r) ==
    \/ SettlementRefused(r) \/ CreateTransaction(r) \/ Reread(r) \/ FallBack(r)
    \/ FallBackFails(r) \/ Look(r) \/ Refuse(r)
    \/ BeginExecute(r) \/ AdoptRetry(r) \/ SettleAdopted(r) \/ CallContract(r)
    \/ SettleListing(r) \/ SettlementFails(r) \/ RecordCompleted(r) \/ QueueRetry(r) \/ RecordRetry(r)
    \/ RecordFailed(r) \/ SaveFails(r) \/ Report(r)
    \/ CancelRetry(r) \/ CancelOnChain(r) \/ RecordCancelled(r)
    \/ RollBackOnChain(r) \/ RelistRolledBack(r) \/ RecordRolledBack(r)

NewRequest(r) ==
    /\ \A earlier \in 1..(r - 1) : ~At(earlier, "idle")
    /\ \/ \E b \in Buyers, l \in Listings : Buy(r, b, l)
       \/ \E op \in Calls, t \in DOMAIN tx : Open(r, op, t)

ListingStep == ListingNext /\ UNCHANGED <<retryVars, request, crashes>>
QueueStep == QueueNext /\ UNCHANGED <<claimVars, request, crashes>>

Next ==
    \/ \E r \in Requests : NewRequest(r) \/ RequestStep(r)
    \/ ListingStep \/ QueueStep \/ Crash

Spec == Init /\ [][Next]_vars

(* Time passes and the expiry job keeps running; nobody need finish a      *)
(* purchase.                                                               *)
Fairness ==
    /\ WF_vars(Tick /\ UNCHANGED <<retryVars, request, crashes>>)
    /\ WF_vars(CronStep /\ UNCHANGED <<retryVars, request, crashes>>)

FairSpec == Spec /\ Fairness

-----------------------------------------------------------------------------
(* Variables hold values of their types. *)
TypeOK ==
    /\ ClaimTypeOK
    /\ chain \in Seq(ChainRow) /\ tx \in Seq(TxRow) /\ Len(chain) = Len(tx)
    /\ retry \in Seq(RetryRow) /\ job \in Seq(JobStates) /\ Len(retry) = Len(job)
    /\ request \in [Requests -> RequestRow]
    /\ crashes \in Nat

(* A record says completed only of a transaction the contract executed,    *)
(* and cancelled only of one it never will: requests that save stale rows  *)
(* over each other, the worker and crashes may leave the record behind the *)
(* contract, but never ahead of it.                                        *)
RecordNotAhead ==
    \A t \in DOMAIN tx :
        /\ tx[t].state = "completed" => chain[t].executed
        /\ tx[t].state = "cancelled" => ~chain[t].executed /\ ~Executable(t)

(* A listing is sold only if the contract executed a purchase of it, also  *)
(* when the row is saved from old reads.                                   *)
SoldIsPaid ==
    \A l \in Listings :
        listing[l].status = "SOLD" =>
            \E t \in DOMAIN tx : chain[t].listing = l /\ chain[t].executed

(* No purchase strands a listing: whoever dies or never answers, a         *)
(* reserved listing is free again, or no longer for sale, in the end.      *)
ReservationEnds ==
    \A l \in Listings : (Active(l) /\ Reserved(l)) ~> ~(Active(l) /\ Reserved(l))

(* A listing is bought at most once: a reservation handed to a second      *)
(* buyer has no transaction left that the contract could still execute.    *)
OneSale ==
    \A t, u \in DOMAIN chain :
        /\ chain[t].executed /\ chain[u].executed
        /\ chain[t].listing = chain[u].listing
        => t = u
=============================================================================
