------------------------- MODULE PurchaseFlow_proofs -------------------------
(***************************************************************************)
(* Theorems about PurchaseFlow for any number of listings, buyers,         *)
(* requests, transactions, retries and crashes.  RecordNotAhead and        *)
(* SoldIsPaid are not inductive by themselves: a request saves a row it    *)
(* read long ago, so what the rows in `seen', the retry records, the jobs  *)
(* and the requests under way know of the contract must hold too, and the  *)
(* contract must never take it back (Moves).                               *)
(***************************************************************************)
EXTENDS PurchaseFlow, SequenceTheorems, TLAPS

Paid(t) == t \in DOMAIN chain /\ chain[t].executed
Dead(t) == t \in DOMAIN chain /\ ~chain[t].executed /\ chain[t].state # "pending"

(* The contract never executes a cancelled transaction nor cancels an      *)
(* executed one.                                                           *)
ChainFinal ==
    \A t \in DOMAIN chain :
        chain[t].executed => chain[t].state \in {"completed", "rolled_back"}

(* What a row of transaction t says holds of the contract and the queue.   *)
Accurate(row, t) ==
    /\ row.state = "completed" => Paid(t)
    /\ row.state = "cancelled" => Dead(t)
    /\ row.listing \in Listings =>
            t \in DOMAIN chain /\ chain[t].listing = row.listing
    /\ row.retry # 0 => row.retry \in DOMAIN retry /\ retry[row.retry].tx = t

RecordsTrue == \A t \in DOMAIN tx : Accurate(tx[t], t)

(* A request's row is true, and its step matches what the contract did.    *)
Sound(q) ==
    /\ Accurate(q.seen, q.tx)
    /\ q.step \notin {"idle", "claimed", "done"} => q.tx \in DOMAIN chain
    /\ q.step \in {"settled", "adopted"} => Paid(q.tx)
    /\ q.outcome = "completed" => Paid(q.tx)
    /\ q.step = "cancelled" => Dead(q.tx)
    /\ q.op = "buy" =>
            /\ q.listing \in Listings /\ q.buyer \in Buyers
            /\ q.tx # 0 => q.tx \in DOMAIN chain /\ chain[q.tx].listing = q.listing
    /\ q.step \in {"claimed", "created", "failing", "report"} => q.op = "buy"
    /\ q.step = "claimed" => q.tx = 0 /\ q.seen = NoRow /\ q.outcome = "none"

RequestsSound == \A r \in Requests : Sound(request[r])

QueueTrue ==
    \A k \in DOMAIN retry :
        /\ retry[k].tx \in DOMAIN chain
        /\ retry[k].status = "completed" => Paid(retry[k].tx)
        /\ job[k] \in {"accepted", "recorded"} => Paid(retry[k].tx)

IndInv ==
    TypeOK /\ ChainFinal /\ RecordsTrue /\ RequestsSound /\ QueueTrue /\ SoldIsPaid

-----------------------------------------------------------------------------
(* What a step does to each of the variables.  A step for which all of     *)
(* this holds keeps IndInv.                                                *)

(* The contract takes nothing back, and retry records stay with their      *)
(* transaction.                                                            *)
Moves ==
    /\ DOMAIN chain \subseteq DOMAIN chain'
    /\ \A t \in DOMAIN chain :
        /\ chain'[t].listing = chain[t].listing
        /\ Paid(t) => Paid(t)'
        /\ Dead(t) => Dead(t)'
    /\ DOMAIN retry \subseteq DOMAIN retry'
    /\ \A k \in DOMAIN retry : retry'[k].tx = retry[k].tx

ChainStep ==
    /\ chain' \in Seq(ChainRow)
    /\ ChainFinal'

RecordStep ==
    /\ tx' \in Seq(TxRow)
    /\ Len(tx') = Len(chain')
    /\ \A t \in DOMAIN tx' :
        \/ t \in DOMAIN tx /\ tx'[t] = tx[t]
        \/ Accurate(tx[t], t)'

RequestsStep ==
    /\ request' \in [Requests -> RequestRow]
    /\ \A r \in Requests : request'[r] = request[r] \/ Sound(request[r])'

JobsStep ==
    /\ retry' \in Seq(RetryRow) /\ job' \in Seq(JobStates) /\ Len(retry') = Len(job')
    /\ QueueTrue'

ListingStepOK ==
    /\ ClaimTypeOK'
    /\ \A l \in Listings :
        listing'[l].status = "SOLD" =>
            \/ listing[l].status = "SOLD"
            \/ \E t \in DOMAIN chain' : chain'[t].listing = l /\ Paid(t)'

(* What was accurate stays accurate. *)
LEMMA AccurateStays ==
    ASSUME TypeOK, chain' \in Seq(ChainRow), retry' \in Seq(RetryRow), Moves,
           NEW row, NEW t, Accurate(row, t)
    PROVE  Accurate(row, t)'
<1>1. Paid(t) => Paid(t)'
  BY DEF Paid, Moves
<1>2. Dead(t) => Dead(t)'
  BY DEF Dead, Moves
<1>3. row.listing \in Listings =>
        t \in DOMAIN chain' /\ chain'[t].listing = row.listing
  BY DEF Moves, Accurate
<1>4. row.retry # 0 => row.retry \in DOMAIN retry' /\ retry'[row.retry].tx = t
  BY DEF Moves, Accurate
<1> QED
  BY <1>1, <1>2, <1>3, <1>4 DEF Accurate

LEMMA SoundStays ==
    ASSUME TypeOK, chain' \in Seq(ChainRow), retry' \in Seq(RetryRow), Moves,
           NEW q, Sound(q)
    PROVE  Sound(q)'
<1>1. Accurate(q.seen, q.tx)'
  BY AccurateStays DEF Sound
<1>2. Paid(q.tx) => Paid(q.tx)'
  BY DEF Paid, Moves
<1>3. Dead(q.tx) => Dead(q.tx)'
  BY DEF Dead, Moves
<1>4. q.tx \in DOMAIN chain =>
        q.tx \in DOMAIN chain' /\ chain'[q.tx].listing = chain[q.tx].listing
  BY DEF Moves
<1> QED
  BY <1>1, <1>2, <1>3, <1>4 DEF Sound

LEMMA StepKeepsInvariant ==
    ASSUME IndInv, Moves, ChainStep, RecordStep, RequestsStep, JobsStep, ListingStepOK,
           crashes' \in Nat
    PROVE  IndInv'
<1> USE DEF IndInv
<1>1. TypeOK'
  BY DEF TypeOK, ChainStep, RecordStep, RequestsStep, JobsStep, ListingStepOK
<1>2. RecordsTrue'
  <2> SUFFICES ASSUME NEW t \in DOMAIN tx'
               PROVE  Accurate(tx[t], t)'
    BY DEF RecordsTrue
  <2>1. CASE t \in DOMAIN tx /\ tx'[t] = tx[t]
    <3>1. Accurate(tx[t], t)
      BY <2>1 DEF RecordsTrue
    <3> DEFINE row == tx[t]
    <3>2. Accurate(row, t)
      BY <3>1
    <3> HIDE DEF row
    <3>3. \A x, u : Accurate(x, u) => Accurate(x, u)'
      BY AccurateStays DEF ChainStep, JobsStep
    <3> QED
      BY <2>1, <3>2, <3>3 DEF row
  <2> QED
    BY <2>1 DEF RecordStep
<1>3. RequestsSound'
  <2> SUFFICES ASSUME NEW r \in Requests
               PROVE  Sound(request[r])'
    BY DEF RequestsSound
  <2>1. CASE request'[r] = request[r]
    <3> DEFINE q == request[r]
    <3>1. Sound(q)
      BY DEF RequestsSound
    <3> HIDE DEF q
    <3>2. \A x : Sound(x) => Sound(x)'
      BY SoundStays DEF ChainStep, JobsStep
    <3> QED
      BY <2>1, <3>1, <3>2 DEF q
  <2> QED
    BY <2>1 DEF RequestsStep
<1>4. SoldIsPaid'
  <2> SUFFICES ASSUME NEW l \in Listings, listing'[l].status = "SOLD"
               PROVE  \E t \in DOMAIN tx' : chain'[t].listing = l /\ chain'[t].executed
    BY DEF SoldIsPaid
  <2>1. DOMAIN tx = DOMAIN chain /\ DOMAIN tx' = DOMAIN chain'
    BY DEF TypeOK, RecordStep, ChainStep
  <2>2. CASE listing[l].status = "SOLD"
    <3>1. PICK t \in DOMAIN tx : chain[t].listing = l /\ chain[t].executed
      BY <2>2 DEF SoldIsPaid
    <3> QED
      BY <2>1, <3>1 DEF Moves, Paid
  <2> QED
    BY <2>1, <2>2 DEF ListingStepOK, Paid
<1> QED
  BY <1>1, <1>2, <1>3, <1>4 DEF ChainStep, JobsStep
-----------------------------------------------------------------------------
(* Steps that leave some variables alone. *)

LEMMA ContractAlone ==
    ASSUME IndInv, UNCHANGED <<chain, retry>>
    PROVE  Moves /\ ChainStep
BY DEF IndInv, TypeOK, Moves, ChainStep, ChainFinal, Paid, Dead

LEMMA RecordsAlone ==
    ASSUME IndInv, UNCHANGED tx, Len(chain') = Len(chain)
    PROVE  RecordStep
BY DEF IndInv, TypeOK, RecordStep

LEMMA RequestsAlone ==
    ASSUME IndInv, UNCHANGED request
    PROVE  RequestsStep
BY DEF IndInv, TypeOK, RequestsStep

LEMMA JobsAlone ==
    ASSUME IndInv, Moves, UNCHANGED <<retry, job>>
    PROVE  JobsStep
<1>1. QueueTrue'
  BY DEF IndInv, QueueTrue, Moves, Paid
<1> QED
  BY <1>1 DEF IndInv, TypeOK, JobsStep

LEMMA ListingsAlone ==
    ASSUME IndInv, UNCHANGED claimVars
    PROVE  ListingStepOK
BY DEF IndInv, TypeOK, ListingStepOK, ClaimTypeOK, claimVars

-----------------------------------------------------------------------------
(* Steps that write one variable at one place. *)

LEMMA RecordSaved ==
    ASSUME IndInv, Len(chain') = Len(chain),
           NEW t \in DOMAIN tx, NEW row \in TxRow,
           tx' = [tx EXCEPT ![t] = row],
           Accurate(row, t)'
    PROVE  RecordStep
<1>1. tx \in Seq(TxRow) /\ t \in 1..Len(tx)
  BY DEF IndInv, TypeOK
<1>2. /\ tx' \in Seq(TxRow)
      /\ Len(tx') = Len(tx)
      /\ \A u \in 1..Len(tx) : tx'[u] = IF u = t THEN row ELSE tx[u]
  BY <1>1, ExceptSeq
<1>3. DOMAIN tx' = DOMAIN tx
  BY <1>1, <1>2
<1>4. ASSUME NEW u \in DOMAIN tx'
      PROVE  (u \in DOMAIN tx /\ tx'[u] = tx[u]) \/ Accurate(tx[u], u)'
  <2>1. CASE u = t
    <3>1. tx'[u] = row
      BY <1>1, <1>2, <1>3, <2>1
    <3> QED
      BY <2>1, <3>1
  <2>2. CASE u # t
    BY <1>1, <1>2, <1>3, <2>2
  <2> QED
    BY <2>1, <2>2
<1> QED
  BY <1>1, <1>2, <1>4 DEF RecordStep, IndInv, TypeOK

LEMMA RequestChanged ==
    ASSUME IndInv, NEW r \in Requests, NEW q \in RequestRow,
           request' = [request EXCEPT ![r] = q],
           Sound(q)'
    PROVE  RequestsStep
<1>1. request \in [Requests -> RequestRow]
  BY DEF IndInv, TypeOK
<1>2. request' \in [Requests -> RequestRow]
  BY <1>1
<1>3. ASSUME NEW u \in Requests
      PROVE  request'[u] = request[u] \/ Sound(request[u])'
  <2>1. CASE u = r
    <3>1. request'[u] = q
      BY <1>1, <2>1
    <3> QED
      BY <3>1
  <2>2. CASE u # r
    BY <1>1, <2>2
  <2> QED
    BY <2>1, <2>2
<1> QED
  BY <1>2, <1>3 DEF RequestsStep

LEMMA RequestTyped ==
    ASSUME IndInv, NEW r \in Requests
    PROVE  request[r] \in RequestRow /\ Sound(request[r])
BY DEF IndInv, TypeOK, RequestsSound

LEMMA AnsweredSound ==
    ASSUME IndInv, NEW r \in Requests, Done(r)
    PROVE  RequestsStep
<1>1. NoRow \in TxRow /\ NoRow.listing \notin Listings /\ NoRow.retry = 0
      /\ NoRow.state = "none"
  BY PurchaseAssumptions DEF NoRow, TxRow, SomeListing
<1>2. PICK q : q = Answered
  OBVIOUS
<1>3. q \in RequestRow
  <2>1. NoRequest \in RequestRow
    BY <1>1 DEF NoRequest, RequestRow, SomeListing, Steps, Outcomes
  <2> QED
    BY <1>2, <2>1 DEF Answered, RequestRow, Steps
<1>4. q.seen = NoRow /\ q.step = "done" /\ q.outcome = "none" /\ q.op = "none"
  BY <1>2 DEF Answered, NoRequest
<1>5. Accurate(q.seen, q.tx)'
  BY <1>1, <1>4 DEF Accurate
<1>6. Sound(q)'
  BY <1>4, <1>5 DEF Sound
<1> QED
  BY <1>2, <1>3, <1>6, RequestChanged DEF Done

(* A request of which the step and the outcome change. *)
LEMMA AnswerSound ==
    ASSUME IndInv, Moves, chain' \in Seq(ChainRow), retry' \in Seq(RetryRow),
           NEW r \in Requests, NEW step \in Steps, NEW outcome \in Outcomes,
           NEW t \in DOMAIN chain, t = request[r].tx,
           Answer(r, step, outcome),
           step \notin {"claimed", "created", "failing", "report"},
           step \in {"settled", "adopted"} => Paid(t)',
           step = "cancelled" => Dead(t)',
           outcome = "completed" => Paid(t)'
    PROVE  RequestsStep
<1>1. request[r] \in RequestRow /\ Sound(request[r])
  BY RequestTyped
<1>2. PICK p : p = request[r]
  OBVIOUS
<1>3. Sound(p)'
  BY <1>1, <1>2, SoundStays DEF IndInv
<1>4. PICK q : q = [p EXCEPT !.step = step, !.outcome = outcome]
  OBVIOUS
<1>5. /\ q \in RequestRow
      /\ q.step = step /\ q.outcome = outcome /\ q.op = p.op /\ q.tx = t
      /\ q.seen = p.seen /\ q.buyer = p.buyer /\ q.listing = p.listing
      /\ p.tx = t
  BY <1>1, <1>2, <1>4 DEF RequestRow
<1>6. t \in DOMAIN chain'
  BY DEF Moves
<1>7. Sound(q)'
  BY <1>3, <1>5, <1>6 DEF Sound
<1>8. request' = [request EXCEPT ![r] = q]
  BY <1>2, <1>4, Zenon DEF Answer
<1> QED
  BY <1>5, <1>7, <1>8, RequestChanged

LEMMA GoSound ==
    ASSUME IndInv, Moves, chain' \in Seq(ChainRow), retry' \in Seq(RetryRow),
           NEW r \in Requests, NEW step \in Steps,
           NEW t \in DOMAIN chain, t = request[r].tx,
           Go(r, step),
           step \notin {"claimed", "created", "failing", "report"},
           step \in {"settled", "adopted"} => Paid(t)',
           step = "cancelled" => Dead(t)'
    PROVE  RequestsStep
<1>1. request[r] \in RequestRow /\ Sound(request[r])
  BY RequestTyped
<1>2. PICK outcome : outcome = request[r].outcome
  OBVIOUS
<1>3. outcome \in Outcomes
  BY <1>1, <1>2 DEF RequestRow
<1>4. outcome = "completed" => Paid(t)'
  BY <1>1, <1>2 DEF Sound, Moves
<1>5. [request[r] EXCEPT !.step = step]
        = [request[r] EXCEPT !.step = step, !.outcome = outcome]
  BY <1>1, <1>2 DEF RequestRow
<1>6. request' = [request EXCEPT ![r] = [request[r] EXCEPT !.step = step]]
  BY Zenon DEF Go
<1>7. Answer(r, step, outcome)
  BY <1>5, <1>6, Zenon DEF Answer
<1> QED
  BY <1>3, <1>4, <1>7, AnswerSound

(* A request that leaves the transaction service. *)
LEMMA LeaveSound ==
    ASSUME IndInv, Moves, chain' \in Seq(ChainRow), retry' \in Seq(RetryRow),
           NEW r \in Requests,
           NEW step \in {"report", "failing"}, NEW outcome \in Outcomes,
           NEW t \in DOMAIN chain, t = request[r].tx,
           Leave(r, step, outcome),
           outcome = "completed" => Paid(t)'
    PROVE  RequestsStep
<1>1. request[r] \in RequestRow /\ Sound(request[r])
  BY RequestTyped
<1>2. CASE request[r].op # "buy"
  BY <1>2, AnsweredSound DEF Leave
<1>3. CASE request[r].op = "buy"
  <2>1. PICK p : p = request[r]
    OBVIOUS
  <2>2. Sound(p)'
    BY <1>1, <2>1, SoundStays DEF IndInv
  <2>3. PICK q : q = [p EXCEPT !.step = step, !.outcome = outcome, !.seen = NoRow]
    OBVIOUS
  <2>4. NoRow \in TxRow /\ NoRow.listing \notin Listings /\ NoRow.retry = 0
        /\ NoRow.state = "none"
    BY PurchaseAssumptions DEF NoRow, TxRow, SomeListing
  <2>5. /\ q \in RequestRow
        /\ q.step = step /\ q.outcome = outcome /\ q.op = "buy" /\ q.tx = t
        /\ q.seen = NoRow /\ q.buyer = p.buyer /\ q.listing = p.listing
        /\ p.tx = t /\ p.op = "buy"
    BY <1>1, <1>3, <2>1, <2>3, <2>4 DEF RequestRow, Steps
  <2>6. t \in DOMAIN chain'
    BY DEF Moves
  <2>7. Accurate(q.seen, q.tx)'
    BY <2>4, <2>5 DEF Accurate
  <2>8. Sound(q)'
    BY <2>2, <2>5, <2>6, <2>7 DEF Sound
  <2>9. request' = [request EXCEPT ![r] = q]
    BY <1>3, <2>1, <2>3, Zenon DEF Leave
  <2> QED
    BY <2>5, <2>8, <2>9, RequestChanged
<1> QED
  BY <1>2, <1>3

-----------------------------------------------------------------------------
(* Steps of the contract. *)

LEMMA ContractChanged ==
    ASSUME IndInv, NEW t \in DOMAIN chain, NEW c \in ChainRow,
           chain' = [chain EXCEPT ![t] = c], UNCHANGED retry,
           c.listing = chain[t].listing,
           chain[t].executed => c.executed,
           Dead(t) => ~c.executed /\ c.state # "pending",
           c.executed => c.state \in {"completed", "rolled_back"}
    PROVE  /\ Moves /\ ChainStep /\ Len(chain') = Len(chain)
           /\ chain'[t] = c /\ t \in DOMAIN chain'
<1>1. chain \in Seq(ChainRow) /\ t \in 1..Len(chain)
  BY DEF IndInv, TypeOK
<1>2. /\ chain' \in Seq(ChainRow)
      /\ Len(chain') = Len(chain)
      /\ \A u \in 1..Len(chain) : chain'[u] = IF u = t THEN c ELSE chain[u]
  BY <1>1, ExceptSeq
<1>3. DOMAIN chain' = DOMAIN chain
  BY <1>1, <1>2
<1>4. ChainFinal'
  <2> SUFFICES ASSUME NEW u \in DOMAIN chain', chain'[u].executed
               PROVE  chain'[u].state \in {"completed", "rolled_back"}
    BY DEF ChainFinal
  <2>1. CASE u = t
    BY <1>1, <1>2, <2>1
  <2>2. CASE u # t
    <3>1. chain'[u] = chain[u] /\ u \in DOMAIN chain
      BY <1>1, <1>2, <1>3, <2>2
    <3> QED
      BY <3>1 DEF IndInv, ChainFinal
  <2> QED
    BY <2>1, <2>2
<1>5. ASSUME NEW u \in DOMAIN chain
      PROVE  /\ chain'[u].listing = chain[u].listing
             /\ Paid(u) => Paid(u)'
             /\ Dead(u) => Dead(u)'
  <2>1. CASE u = t
    <3>1. chain'[u] = c
      BY <1>1, <1>2, <2>1
    <3> QED
      BY <1>3, <2>1, <3>1 DEF Paid, Dead
  <2>2. CASE u # t
    <3>1. chain'[u] = chain[u]
      BY <1>1, <1>2, <2>2
    <3> QED
      BY <1>3, <3>1 DEF Paid, Dead
  <2> QED
    BY <2>1, <2>2
<1>6. Moves
  BY <1>3, <1>5 DEF Moves
<1> QED
  BY <1>1, <1>2, <1>3, <1>4, <1>6 DEF ChainStep

LEMMA ExecutedOnce ==
    ASSUME IndInv, NEW t \in DOMAIN chain, Executable(t), chain' = Executed(t),
           UNCHANGED retry
    PROVE  Moves /\ ChainStep /\ Len(chain') = Len(chain) /\ Paid(t)'
<1>1. chain[t] \in ChainRow
  BY DEF IndInv, TypeOK
<1>2. PICK c : c = [chain[t] EXCEPT !.state = "completed", !.executed = TRUE]
  OBVIOUS
<1>3. c \in ChainRow /\ c.listing = chain[t].listing /\ c.executed
      /\ c.state = "completed"
  BY <1>1, <1>2 DEF ChainRow, ChainStates
<1>4. chain' = [chain EXCEPT ![t] = c]
  BY <1>2, Zenon DEF Executed
<1>5. ~Dead(t)
  BY DEF Executable, Dead
<1>6. Moves /\ ChainStep /\ Len(chain') = Len(chain) /\ chain'[t] = c
      /\ t \in DOMAIN chain'
  BY <1>3, <1>4, <1>5, ContractChanged
<1> QED
  BY <1>3, <1>6 DEF Paid

LEMMA CancelledForGood ==
    ASSUME IndInv, NEW t \in DOMAIN chain, Cancellable(t), chain' = ChainCancelled(t),
           UNCHANGED retry
    PROVE  Moves /\ ChainStep /\ Len(chain') = Len(chain) /\ Dead(t)'
<1>1. chain[t] \in ChainRow
  BY DEF IndInv, TypeOK
<1>2. PICK c : c = [chain[t] EXCEPT !.state = "cancelled"]
  OBVIOUS
<1>3. ~chain[t].executed
  BY DEF IndInv, ChainFinal, Cancellable
<1>4. c \in ChainRow /\ c.listing = chain[t].listing /\ ~c.executed
      /\ c.state = "cancelled"
  BY <1>1, <1>2, <1>3 DEF ChainRow, ChainStates
<1>5. chain' = [chain EXCEPT ![t] = c]
  BY <1>2, Zenon DEF ChainCancelled
<1>6. Moves /\ ChainStep /\ Len(chain') = Len(chain) /\ chain'[t] = c
      /\ t \in DOMAIN chain'
  BY <1>3, <1>4, <1>5, ContractChanged
<1> QED
  BY <1>4, <1>6 DEF Dead

LEMMA RolledBackOnContract ==
    ASSUME IndInv, NEW t \in DOMAIN chain, chain' = RolledBack(t), UNCHANGED retry
    PROVE  Moves /\ ChainStep /\ Len(chain') = Len(chain)
<1>1. chain[t] \in ChainRow
  BY DEF IndInv, TypeOK
<1>2. PICK c : c = [chain[t] EXCEPT !.state = "rolled_back"]
  OBVIOUS
<1>3. c \in ChainRow /\ c.listing = chain[t].listing
      /\ c.executed = chain[t].executed /\ c.state = "rolled_back"
  BY <1>1, <1>2 DEF ChainRow, ChainStates
<1>4. chain' = [chain EXCEPT ![t] = c]
  BY <1>2, Zenon DEF RolledBack
<1> QED
  BY <1>3, <1>4, ContractChanged DEF Dead

-----------------------------------------------------------------------------
(* Steps of the queue and of the listings. *)

LEMMA JobChanged ==
    ASSUME IndInv, Moves, UNCHANGED retry, NEW k \in DOMAIN retry, NEW j \in JobStates,
           job' = [job EXCEPT ![k] = j],
           NEW t, t = retry[k].tx,
           j \in {"accepted", "recorded"} => Paid(t)'
    PROVE  JobsStep
<1>1. /\ retry \in Seq(RetryRow) /\ job \in Seq(JobStates) /\ Len(job) = Len(retry)
      /\ k \in 1..Len(job)
  BY DEF IndInv, TypeOK
<1>2. /\ job' \in Seq(JobStates) /\ Len(job') = Len(job)
      /\ \A i \in 1..Len(job) : job'[i] = IF i = k THEN j ELSE job[i]
  BY <1>1, ExceptSeq
<1>3. ASSUME NEW i \in DOMAIN retry
      PROVE  /\ retry[i].tx \in DOMAIN chain'
             /\ retry[i].status = "completed" => Paid(retry[i].tx)'
             /\ job'[i] \in {"accepted", "recorded"} => Paid(retry[i].tx)'
  <2>1. PICK u : u = retry[i].tx
    OBVIOUS
  <2>2. /\ u \in DOMAIN chain
        /\ retry[i].status = "completed" => Paid(u)
        /\ job[i] \in {"accepted", "recorded"} => Paid(u)
    BY <2>1 DEF IndInv, QueueTrue
  <2>3. u \in DOMAIN chain' /\ (Paid(u) => Paid(u)')
    BY <2>2 DEF Moves
  <2>4. job'[i] = IF i = k THEN j ELSE job[i]
    BY <1>1, <1>2
  <2>5. retry'[i].tx = u
    BY <2>1
  <2>6. job'[i] \in {"accepted", "recorded"} => Paid(u)'
    BY <2>1, <2>2, <2>3, <2>4
  <2> QED
    BY <2>1, <2>2, <2>3, <2>5, <2>6
<1>4. QueueTrue'
  BY <1>3 DEF QueueTrue
<1> QED
  BY <1>1, <1>2, <1>4 DEF JobsStep

LEMMA RetryChanged ==
    ASSUME IndInv, UNCHANGED chain, NEW k \in DOMAIN retry,
           NEW rec \in RetryRow, retry' = [retry EXCEPT ![k] = rec],
           NEW j \in JobStates, job' = [job EXCEPT ![k] = j],
           rec.tx = retry[k].tx,
           rec.status = "completed" => Paid(rec.tx),
           j \in {"accepted", "recorded"} => Paid(rec.tx)
    PROVE  Moves /\ ChainStep /\ JobsStep
<1>1. /\ retry \in Seq(RetryRow) /\ job \in Seq(JobStates) /\ Len(job) = Len(retry)
      /\ k \in 1..Len(job) /\ k \in 1..Len(retry)
  BY DEF IndInv, TypeOK
<1>2. /\ job' \in Seq(JobStates) /\ Len(job') = Len(job)
      /\ \A i \in 1..Len(job) : job'[i] = IF i = k THEN j ELSE job[i]
  BY <1>1, ExceptSeq
<1>3. /\ retry' \in Seq(RetryRow) /\ Len(retry') = Len(retry)
      /\ \A i \in 1..Len(retry) : retry'[i] = IF i = k THEN rec ELSE retry[i]
  BY <1>1, ExceptSeq
<1>4. DOMAIN retry' = DOMAIN retry /\ DOMAIN retry = 1..Len(retry)
  BY <1>1, <1>3
<1>5. \A i \in DOMAIN retry : retry'[i].tx = retry[i].tx
  BY <1>3, <1>4
<1>6. Moves /\ ChainStep
  BY <1>4, <1>5 DEF Moves, ChainStep, ChainFinal, IndInv, TypeOK, Paid, Dead
<1>7. QueueTrue'
  BY <1>1, <1>2, <1>3, <1>4 DEF QueueTrue, IndInv, Paid
<1> QED
  BY <1>1, <1>2, <1>3, <1>6, <1>7 DEF JobsStep

LEMMA RowChanged ==
    ASSUME IndInv, NEW l \in Listings, NEW row \in Row,
           listing' = [listing EXCEPT ![l] = row], UNCHANGED <<now, cron>>,
           row.status = "SOLD" =>
              \/ listing[l].status = "SOLD"
              \/ \E t \in DOMAIN chain' : chain'[t].listing = l /\ Paid(t)'
    PROVE  ListingStepOK
<1>1. ClaimTypeOK
  BY DEF IndInv, TypeOK
<1>2. ClaimTypeOK'
  BY <1>1 DEF ClaimTypeOK
<1>3. ASSUME NEW m \in Listings, m # l
      PROVE  listing'[m] = listing[m]
  BY <1>1, <1>3 DEF ClaimTypeOK
<1>4. listing'[l] = row
  BY <1>1 DEF ClaimTypeOK
<1> QED
  BY <1>2, <1>3, <1>4 DEF ListingStepOK

-----------------------------------------------------------------------------
(* The worker and the administrator of the dead letter queue. *)

LEMMA RecordTyped ==
    ASSUME IndInv, NEW k \in DOMAIN retry
    PROVE  /\ retry[k] \in RetryRow /\ job[k] \in JobStates
           /\ retry[k].tx \in DOMAIN chain /\ retry[k].tx \in DOMAIN tx
           /\ retry[k].status = "completed" => Paid(retry[k].tx)
           /\ job[k] \in {"accepted", "recorded"} => Paid(retry[k].tx)
BY DEF IndInv, TypeOK, QueueTrue

(* A step of the queue that touches neither the contract nor a row. *)
LEMMA JobStepKeeps ==
    ASSUME IndInv, UNCHANGED <<claimVars, request, crashes, chain, tx>>,
           Moves, ChainStep, JobsStep
    PROVE  IndInv'
<1>1. RecordStep /\ RequestsStep /\ ListingStepOK
  BY RecordsAlone, RequestsAlone, ListingsAlone
<1>2. crashes' \in Nat
  BY DEF IndInv, TypeOK
<1> QED
  BY <1>1, <1>2, StepKeepsInvariant

LEMMA QueueKeepsInvariant ==
    ASSUME IndInv, UNCHANGED <<claimVars, request, crashes>>,
           NEW k \in DOMAIN retry, WorkerStep(k) \/ RetryDlqEntry(k)
    PROVE  IndInv'
<1>1. /\ retry[k] \in RetryRow /\ job[k] \in JobStates
      /\ retry[k].tx \in DOMAIN chain /\ retry[k].tx \in DOMAIN tx
      /\ retry[k].status = "completed" => Paid(retry[k].tx)
      /\ job[k] \in {"accepted", "recorded"} => Paid(retry[k].tx)
  BY RecordTyped
<1>2. PICK t : t = retry[k].tx
  OBVIOUS
<1>3. crashes' \in Nat /\ ListingStepOK /\ RequestsStep
  BY RequestsAlone, ListingsAlone DEF IndInv, TypeOK
<1>a. ASSUME NEW j \in JobStates \ {"accepted", "recorded"},
             job' = [job EXCEPT ![k] = j], UNCHANGED <<chain, retry>>
      PROVE  Moves /\ ChainStep /\ JobsStep
  <2>1. Moves /\ ChainStep
    BY <1>a, ContractAlone
  <2>2. JobsStep
    BY <1>2, <1>a, <2>1, JobChanged
  <2> QED
    BY <2>1, <2>2
<1>4. ASSUME NEW j \in JobStates \ {"accepted", "recorded"},
             job' = [job EXCEPT ![k] = j], UNCHANGED <<chain, retry, tx>>
      PROVE  IndInv'
  <2>1. Moves /\ ChainStep /\ JobsStep
    BY <1>a, <1>4
  <2> QED
    BY <1>4, <2>1, JobStepKeeps
<1>5. CASE StartJob(k)
  BY <1>4, <1>5 DEF StartJob, JobStates, Working
<1>6. CASE Submit(k)
  <2>1. CASE job' = [job EXCEPT ![k] = "refused"] /\ UNCHANGED chain
    BY <1>4, <1>6, <2>1 DEF Submit, JobStates, Working
  <2>2. CASE Executable(retry[k].tx) /\ chain' = Executed(retry[k].tx)
    <3>1. UNCHANGED <<retry, tx>>
      BY <1>6 DEF Submit
    <3>2. Moves /\ ChainStep /\ Len(chain') = Len(chain) /\ Paid(t)'
      BY <1>1, <1>2, <2>2, <3>1, ExecutedOnce
    <3>3. PICK j \in {"accepted", "refused"} : job' = [job EXCEPT ![k] = j]
      BY <1>6 DEF Submit
    <3>4. JobsStep
      BY <1>2, <3>1, <3>2, <3>3, JobChanged DEF JobStates, Working
    <3>5. RecordStep
      BY <3>1, <3>2, RecordsAlone
    <3> QED
      BY <1>3, <3>2, <3>4, <3>5, StepKeepsInvariant
  <2> QED
    BY <1>6, <2>1, <2>2 DEF Submit
<1>7. CASE RecordSuccess(k)
  <2>1. PICK rec : rec = [retry[k] EXCEPT !.status = "completed"]
    OBVIOUS
  <2>2. rec \in RetryRow /\ rec.tx = retry[k].tx
    BY <1>1, <2>1 DEF RetryRow, RetryStatuses
  <2>3. retry' = [retry EXCEPT ![k] = rec] /\ job' = [job EXCEPT ![k] = "recorded"]
    BY <1>7, <2>1, Zenon DEF RecordSuccess
  <2>4. Paid(rec.tx)
    BY <1>1, <1>7, <2>2 DEF RecordSuccess
  <2>5. UNCHANGED <<chain, tx>>
    BY <1>7 DEF RecordSuccess
  <2>6. Moves /\ ChainStep /\ JobsStep
    BY <2>2, <2>3, <2>4, <2>5, RetryChanged DEF JobStates, Working
  <2> QED
    BY <2>5, <2>6, JobStepKeeps
<1>8. CASE CompleteTransaction(k)
  <2>1. PICK row : row = [state |-> "completed", listing |-> NoListing, retry |-> 0]
    OBVIOUS
  <2>2. /\ tx' = [tx EXCEPT ![t] = row]
        /\ job' = [job EXCEPT ![k] = "kept"]
        /\ UNCHANGED <<chain, retry>> /\ job[k] = "recorded"
    BY <1>2, <1>8, <2>1 DEF CompleteTransaction
  <2>3. Moves /\ ChainStep /\ JobsStep
    BY <1>a, <2>2 DEF JobStates
  <2>5. row \in TxRow
    BY <2>1 DEF TxRow, TxStates, SomeListing
  <2>6. Accurate(row, t)'
    BY <1>1, <1>2, <2>1, <2>2, PurchaseAssumptions DEF Accurate, Paid
  <2>7. RecordStep
    BY <1>1, <1>2, <2>2, <2>5, <2>6, RecordSaved
  <2> QED
    BY <1>3, <2>3, <2>7, StepKeepsInvariant
<1>9. CASE RecordingFails(k)
  BY <1>4, <1>9 DEF RecordingFails, JobStates, Working
<1>10. CASE RetryLater(k)
  <2>1. PICK rec : rec = [retry[k] EXCEPT !.status = "pending",
                                          !.attempts = retry[k].attempts + 1]
    OBVIOUS
  <2>0. retry[k].attempts + 1 \in Nat
    BY <1>1 DEF RetryRow
  <2>2. rec \in RetryRow /\ rec.tx = retry[k].tx /\ rec.status = "pending"
    BY <1>1, <2>0, <2>1 DEF RetryRow, RetryStatuses
  <2>3. retry' = [retry EXCEPT ![k] = rec] /\ job' = [job EXCEPT ![k] = "counted"]
    BY <1>10, <2>1 DEF RetryLater
  <2>4. UNCHANGED <<chain, tx>>
    BY <1>10 DEF RetryLater
  <2>5. Moves /\ ChainStep /\ JobsStep
    BY <2>2, <2>3, <2>4, RetryChanged DEF JobStates, Working
  <2> QED
    BY <2>4, <2>5, JobStepKeeps
<1>11. CASE Requeue(k)
  <2>1. job[k] = "counted" /\ job \in Seq(JobStates) /\ k \in DOMAIN job
    BY <1>11 DEF Requeue, IndInv, TypeOK
  <2>2. Readded(k) = job
    BY <2>1 DEF Readded
  <2>3. job' = [job EXCEPT ![k] = "kept"]
    BY <1>11, <2>1, <2>2 DEF Requeue
  <2> QED
    BY <1>4, <1>11, <2>3 DEF Requeue, JobStates
<1>12. CASE MoveToDlq(k)
  <2>1. PICK rec : rec = [retry[k] EXCEPT !.status = "dlq"]
    OBVIOUS
  <2>2. rec \in RetryRow /\ rec.tx = retry[k].tx /\ rec.status = "dlq"
    BY <1>1, <2>1 DEF RetryRow, RetryStatuses
  <2>3. retry' = [retry EXCEPT ![k] = rec] /\ job' = [job EXCEPT ![k] = "exhausted"]
    BY <1>12, <2>1, Zenon DEF MoveToDlq
  <2>4. UNCHANGED <<chain, tx>>
    BY <1>12 DEF MoveToDlq
  <2>5. Moves /\ ChainStep /\ JobsStep
    BY <2>2, <2>3, <2>4, RetryChanged DEF JobStates, Working
  <2> QED
    BY <2>4, <2>5, JobStepKeeps
<1>13. CASE FailTransaction(k)
  <2>1. PICK row : row = [tx[t] EXCEPT !.state = "failed"]
    OBVIOUS
  <2>2. /\ job' = [job EXCEPT ![k] = "kept"]
        /\ UNCHANGED <<chain, retry>>
    BY <1>13 DEF FailTransaction
  <2>3. tx' = [tx EXCEPT ![t] = row]
    BY <1>2, <1>13, <2>1, Zenon DEF FailTransaction
  <2>4. Moves /\ ChainStep /\ JobsStep
    BY <1>a, <2>2 DEF JobStates
  <2>6. tx[t] \in TxRow /\ Accurate(tx[t], t)
    BY <1>1, <1>2 DEF IndInv, TypeOK, RecordsTrue
  <2>7. row \in TxRow /\ row.listing = tx[t].listing /\ row.retry = tx[t].retry
        /\ row.state = "failed"
    BY <2>1, <2>6 DEF TxRow, TxStates
  <2>8. Accurate(row, t)'
    BY <2>2, <2>6, <2>7 DEF Accurate
  <2>9. RecordStep
    BY <1>1, <1>2, <2>2, <2>3, <2>7, <2>8, RecordSaved
  <2> QED
    BY <1>3, <2>4, <2>9, StepKeepsInvariant
<1>14. CASE RetryDlqEntry(k)
  <2>1. PICK rec : rec = [retry[k] EXCEPT !.status = "pending", !.attempts = 0]
    OBVIOUS
  <2>2. rec \in RetryRow /\ rec.tx = retry[k].tx /\ rec.status = "pending"
    BY <1>1, <2>1 DEF RetryRow, RetryStatuses
  <2>3. retry' = [retry EXCEPT ![k] = rec]
    BY <1>14, <2>1 DEF RetryDlqEntry
  <2>4. PICK j : j = IF job[k] = "none" THEN "waiting" ELSE job[k]
    OBVIOUS
  <2>5. job' = [job EXCEPT ![k] = j]
    BY <1>14, <2>4 DEF RetryDlqEntry, Readded
  <2>6. j \in JobStates /\ (j \in {"accepted", "recorded"} => Paid(rec.tx))
    BY <1>1, <2>2, <2>4 DEF JobStates
  <2>7. UNCHANGED <<chain, tx>>
    BY <1>14 DEF RetryDlqEntry
  <2>8. Moves /\ ChainStep /\ JobsStep
    BY <2>2, <2>3, <2>5, <2>6, <2>7, RetryChanged
  <2> QED
    BY <2>7, <2>8, JobStepKeeps
<1> QED
  BY <1>5, <1>6, <1>7, <1>8, <1>9, <1>10, <1>11, <1>12, <1>13, <1>14 DEF WorkerStep

-----------------------------------------------------------------------------
(* The listings on their own: seller, clock and expiry job. *)

LEMMA ListingNextOK ==
    ASSUME IndInv, ListingNext
    PROVE  ListingStepOK
<1>1. ClaimTypeOK
  BY DEF IndInv, TypeOK
<1> USE <1>1 DEF ClaimTypeOK, ListingStepOK
<1>2. CASE FindStale
  BY <1>2 DEF FindStale
<1>3. CASE ClearStale
  <2>1. \A l \in Listings : /\ Unreserved(listing[l]) \in Row
                            /\ Unreserved(listing[l]).status = listing[l].status
    BY DEF Unreserved, Row
  <2>2. listing' \in [Listings -> Row]
    BY <1>3, <2>1 DEF ClearStale
  <2>3. \A l \in Listings : listing'[l].status = listing[l].status
    BY <1>3, <2>1 DEF ClearStale
  <2> QED
    BY <1>3, <2>2, <2>3 DEF ClearStale
<1>4. CASE FindExpired
  <2>1. PICK rows : rows = RowsOf({l \in Listings : PastExpiry(l)})
    OBVIOUS
  <2>2. DOMAIN rows \subseteq Listings /\ rows \in [DOMAIN rows -> Row]
    BY <2>1 DEF RowsOf
  <2>3. cron' = [cron EXCEPT !.rows = rows]
    BY <1>4, <2>1, Zenon DEF FindExpired
  <2>4. cron'.stale = cron.stale /\ cron'.rows = rows
        /\ cron' = [stale |-> cron'.stale, rows |-> cron'.rows]
    BY <2>3
  <2> QED
    BY <1>4, <2>2, <2>4 DEF FindExpired
<1>5. ASSUME NEW l \in Listings, ExpireListing(l)
      PROVE  ListingStepOK
  <2>1. PICK row : row = [cron.rows[l] EXCEPT !.status = "EXPIRED"]
    OBVIOUS
  <2>2. row \in Row /\ row.status = "EXPIRED"
    BY <1>5, <2>1 DEF ExpireListing, Row, ListingStatuses
  <2>3. listing' = [listing EXCEPT ![l] = row]
    BY <1>5, <2>1, Zenon DEF ExpireListing
  <2>4. listing' \in [Listings -> Row]
        /\ \A m \in Listings : listing'[m].status = "SOLD" => listing[m].status = "SOLD"
    BY <2>2, <2>3
  <2>5. PICK rows : rows = [m \in DOMAIN cron.rows \ {l} |-> cron.rows[m]]
    OBVIOUS
  <2>6. DOMAIN rows \subseteq Listings /\ rows \in [DOMAIN rows -> Row]
    BY <2>5
  <2>7. cron' = [cron EXCEPT !.rows = rows]
    BY <1>5, <2>5 DEF ExpireListing
  <2>8. cron'.stale = cron.stale /\ cron'.rows = rows
        /\ cron' = [stale |-> cron'.stale, rows |-> cron'.rows]
    BY <2>7
  <2> QED
    BY <1>5, <2>4, <2>6, <2>8 DEF ExpireListing
<1>6. CASE Tick
  BY <1>6 DEF Tick
<1>7. ASSUME NEW l \in Listings, CancelListing(l)
      PROVE  ListingStepOK
  <2>1. PICK row : row = [listing[l] EXCEPT !.status = "CANCELLED"]
    OBVIOUS
  <2>2. row \in Row /\ row.status = "CANCELLED"
    BY <2>1 DEF Row, ListingStatuses
  <2>3. listing' = [listing EXCEPT ![l] = row]
    BY <1>7, <2>1, Zenon DEF CancelListing
  <2> QED
    BY <1>7, <2>2, <2>3 DEF CancelListing
<1> QED
  BY <1>2, <1>3, <1>4, <1>5, <1>6, <1>7, ListingNext DEF ListingNext, CronStep

LEMMA ListingKeepsInvariant ==
    ASSUME IndInv, ListingStep
    PROVE  IndInv'
<1>1. ListingNext /\ UNCHANGED <<chain, tx, retry, job, request, crashes>>
  BY DEF ListingStep, retryVars
<1>2. ListingStepOK
  BY <1>1, ListingNextOK
<1>3. Moves /\ ChainStep
  BY <1>1, ContractAlone
<1>4. RecordStep /\ RequestsStep /\ JobsStep
  BY <1>1, <1>3, RecordsAlone, RequestsAlone, JobsAlone
<1>5. crashes' \in Nat
  BY <1>1 DEF IndInv, TypeOK
<1> QED
  BY <1>2, <1>3, <1>4, <1>5, StepKeepsInvariant

LEMMA CrashKeepsInvariant ==
    ASSUME IndInv, Crash
    PROVE  IndInv'
<1>1. UNCHANGED <<now, listing, chain, tx, retry>> /\ crashes' \in Nat
  BY DEF Crash, IndInv, TypeOK
<1>2. Moves /\ ChainStep
  BY <1>1, ContractAlone
<1>3. RecordStep
  BY <1>1, RecordsAlone
<1>4. ListingStepOK
  <2>1. PICK rows : rows = RowsOf({})
    OBVIOUS
  <2>2. DOMAIN rows = {} /\ rows \in [DOMAIN rows -> Row]
    BY <2>1 DEF RowsOf
  <2>3. cron' = [stale |-> {}, rows |-> rows]
    BY <2>1, Zenon DEF Crash
  <2> QED
    BY <1>1, <2>2, <2>3 DEF ListingStepOK, ClaimTypeOK, IndInv, TypeOK
<1>5. JobsStep
  <2>1. job \in Seq(JobStates) /\ Len(job) = Len(retry) /\ retry \in Seq(RetryRow)
    BY DEF IndInv, TypeOK
  <2>2. job' = [k \in 1..Len(job) |->
                  IF job[k] \in Working THEN "waiting" ELSE job[k]]
    BY <2>1 DEF Crash, StalledJobsRequeued
  <2>3. job' \in [1..Len(job) -> JobStates]
    BY <2>1, <2>2 DEF JobStates
  <2>4. job' \in Seq(JobStates) /\ Len(job') = Len(job)
    BY <2>1, <2>3, SeqDef
  <2>5. \A k \in DOMAIN retry : job'[k] \notin {"accepted", "recorded"}
    BY <2>1, <2>2 DEF Working
  <2>6. QueueTrue'
    BY <1>1, <2>5 DEF IndInv, QueueTrue, Paid
  <2> QED
    BY <1>1, <2>1, <2>4, <2>6 DEF JobsStep
<1>6. RequestsStep
  <2>1. NoRow \in TxRow /\ NoRow.listing \notin Listings /\ NoRow.retry = 0
        /\ NoRow.state = "none"
    BY PurchaseAssumptions DEF NoRow, TxRow, SomeListing
  <2>2. NoRequest \in RequestRow /\ Answered \in RequestRow
    <3>1. NoRequest \in RequestRow
      BY <2>1 DEF NoRequest, RequestRow, SomeListing, Steps, Outcomes
    <3> QED
      BY <3>1 DEF Answered, RequestRow, Steps
  <2>3. ASSUME NEW q, q = NoRequest \/ q = Answered
        PROVE  Sound(q)'
    <3>1. /\ q.seen = NoRow /\ q.step \in {"idle", "done"} /\ q.outcome = "none"
          /\ q.op = "none"
      BY <2>3 DEF NoRequest, Answered
    <3>2. Accurate(q.seen, q.tx)'
      BY <2>1, <3>1 DEF Accurate
    <3> QED
      BY <3>1, <3>2 DEF Sound
  <2>4. ASSUME NEW r \in Requests
        PROVE  /\ request'[r] \in RequestRow
               /\ Sound(request[r])'
    <3>1. PICK q : q = request'[r]
      OBVIOUS
    <3>2. q = NoRequest \/ q = Answered
      BY <3>1 DEF Crash
    <3>3. Sound(q)'
      BY <2>3, <3>2
    <3> QED
      BY <2>2, <3>1, <3>2, <3>3
  <2>5. request' \in [Requests -> RequestRow]
    BY <2>4 DEF Crash
  <2> QED
    BY <2>4, <2>5 DEF RequestsStep
<1> QED
  BY <1>1, <1>2, <1>3, <1>4, <1>5, <1>6, StepKeepsInvariant

-----------------------------------------------------------------------------
(* Requests. *)

(* What a request under way knows. *)
LEMMA UnderWay ==
    ASSUME IndInv, NEW r \in Requests, ~At(r, "idle"), ~At(r, "claimed"), ~At(r, "done")
    PROVE  /\ Tx(r) \in DOMAIN chain /\ Tx(r) \in DOMAIN tx
           /\ Seen(r) \in TxRow /\ Accurate(Seen(r), Tx(r))
           /\ tx[Tx(r)] \in TxRow /\ Accurate(tx[Tx(r)], Tx(r))
           /\ request[r] \in RequestRow /\ Sound(request[r])
<1>1. request[r] \in RequestRow /\ Sound(request[r])
  BY RequestTyped
<1>2. Tx(r) \in DOMAIN chain /\ Accurate(Seen(r), Tx(r))
  BY <1>1 DEF Sound, At, Tx, Seen, RequestRow, Steps
<1>3. Tx(r) \in DOMAIN tx
  BY <1>2 DEF IndInv, TypeOK
<1>4. Seen(r) \in TxRow
  BY <1>1 DEF RequestRow, Seen
<1>5. tx[Tx(r)] \in TxRow /\ Accurate(tx[Tx(r)], Tx(r))
  BY <1>3 DEF IndInv, TypeOK, RecordsTrue
<1> QED
  BY <1>1, <1>2, <1>3, <1>4, <1>5

(* A row saved from an old read is accurate if its new state is. *)
LEMMA SavedAccurate ==
    ASSUME IndInv, Moves, ChainStep, retry' \in Seq(RetryRow), Len(chain') = Len(chain),
           NEW r \in Requests, ~At(r, "idle"), ~At(r, "claimed"), ~At(r, "done"),
           NEW t, t = Tx(r), NEW state \in TxStates \union {"none"},
           tx' = Saved(r, state),
           state = "completed" => Paid(t)',
           state = "cancelled" => Dead(t)'
    PROVE  RecordStep
<1>1. t \in DOMAIN tx /\ Seen(r) \in TxRow /\ Accurate(Seen(r), t)
  BY UnderWay
<1>2. PICK old : old = Seen(r)
  OBVIOUS
<1>3. PICK row : row = [old EXCEPT !.state = state]
  OBVIOUS
<1>4. row \in TxRow /\ row.state = state /\ row.listing = old.listing
      /\ row.retry = old.retry
  BY <1>1, <1>2, <1>3 DEF TxRow
<1>5. Accurate(old, t)'
  BY <1>1, <1>2, AccurateStays DEF IndInv, ChainStep
<1>6. Accurate(row, t)'
  BY <1>4, <1>5 DEF Accurate
<1>7. tx' = [tx EXCEPT ![t] = row]
  BY <1>2, <1>3, Zenon DEF Saved
<1> QED
  BY <1>1, <1>4, <1>6, <1>7, RecordSaved

LEMMA SyncAccurate ==
    ASSUME IndInv, Moves, ChainStep, retry' \in Seq(RetryRow), Len(chain') = Len(chain),
           NEW r \in Requests, ~At(r, "idle"), ~At(r, "claimed"), ~At(r, "done"),
           Sync(r)
    PROVE  RecordStep
<1>1. CASE tx' = tx
  BY <1>1, RecordsAlone
<1>2. CASE tx' = Saved(r, Seen(r).state)
  <2>1. Seen(r) \in TxRow /\ Accurate(Seen(r), Tx(r))
    BY UnderWay
  <2>2. PICK t : t = Tx(r)
    OBVIOUS
  <2>3. PICK state : state = Seen(r).state
    OBVIOUS
  <2>4. state \in TxStates \union {"none"}
    BY <2>1, <2>3 DEF TxRow
  <2>5. (state = "completed" => Paid(t)) /\ (state = "cancelled" => Dead(t))
    BY <2>1, <2>2, <2>3 DEF Accurate
  <2>6. (state = "completed" => Paid(t)') /\ (state = "cancelled" => Dead(t)')
    BY <2>5 DEF Moves, Paid, Dead
  <2> QED
    BY <1>2, <2>2, <2>3, <2>4, <2>6, SavedAccurate
<1> QED
  BY <1>1, <1>2 DEF Sync

LEMMA RequestKeepsInvariant ==
    ASSUME IndInv, Moves, ChainStep, RecordStep, RequestsStep, JobsStep, ListingStepOK,
           UNCHANGED crashes
    PROVE  IndInv'
BY StepKeepsInvariant DEF IndInv, TypeOK

(* Most steps of a request save at most its row and move it on. *)
LEMMA RowStepKeeps ==
    ASSUME IndInv, UNCHANGED <<claimVars, chain, retry, job, crashes>>,
           RecordStep, RequestsStep
    PROVE  IndInv'
<1>1. Moves /\ ChainStep
  BY ContractAlone
<1>2. JobsStep /\ ListingStepOK
  BY <1>1, JobsAlone, ListingsAlone
<1> QED
  BY <1>1, <1>2, RequestKeepsInvariant

(* Others write the listing and no transaction. *)
LEMMA ListingWriteKeeps ==
    ASSUME IndInv, UNCHANGED <<retryVars, crashes>>, ListingStepOK, RequestsStep
    PROVE  IndInv'
<1>1. UNCHANGED <<chain, tx, retry, job>>
  BY DEF retryVars
<1>2. Moves /\ ChainStep
  BY <1>1, ContractAlone
<1>3. JobsStep /\ RecordStep
  BY <1>1, <1>2, JobsAlone, RecordsAlone
<1> QED
  BY <1>2, <1>3, RequestKeepsInvariant

(* The rows written by a purchase. *)
LEMMA ReleasedOK ==
    ASSUME IndInv, UNCHANGED <<now, cron>>, NEW l \in Listings, NEW b,
           listing' = Released(l, b)
    PROVE  ListingStepOK
<1>1. ClaimTypeOK
  BY DEF IndInv, TypeOK
<1>2. CASE listing[l].by = b /\ Active(l)
  <2>1. PICK row : row = Unreserved(listing[l])
    OBVIOUS
  <2>2. row \in Row /\ row.status = listing[l].status
    BY <1>1, <2>1 DEF ClaimTypeOK, Unreserved, Row
  <2>3. listing' = [listing EXCEPT ![l] = row]
    BY <1>2, <2>1, Zenon DEF Released
  <2> QED
    BY <2>2, <2>3, RowChanged
<1>3. CASE ~(listing[l].by = b /\ Active(l))
  BY <1>1, <1>3 DEF Released, ListingStepOK, ClaimTypeOK
<1> QED
  BY <1>2, <1>3

LEMMA StatusSetOK ==
    ASSUME IndInv, UNCHANGED <<now, cron>>, NEW l \in SomeListing,
           NEW status \in ListingStatuses,
           listing' = SetStatus(l, status),
           status = "SOLD" /\ l \in Listings =>
              \E t \in DOMAIN chain' : chain'[t].listing = l /\ Paid(t)'
    PROVE  ListingStepOK
<1>1. ClaimTypeOK
  BY DEF IndInv, TypeOK
<1>2. CASE l \in Listings
  <2>1. PICK row : row = [listing[l] EXCEPT !.status = status]
    OBVIOUS
  <2>2. row \in Row /\ row.status = status
    BY <1>1, <1>2, <2>1 DEF ClaimTypeOK, Row
  <2>3. listing' = [listing EXCEPT ![l] = row]
    BY <1>2, <2>1, Zenon DEF SetStatus
  <2> QED
    BY <1>2, <2>2, <2>3, RowChanged
<1>3. CASE l \notin Listings
  BY <1>1, <1>3 DEF SetStatus, ListingStepOK, ClaimTypeOK
<1> QED
  BY <1>2, <1>3

-----------------------------------------------------------------------------
(* Making a request. *)

LEMMA BuyKeeps ==
    ASSUME IndInv, NEW r \in Requests, NEW b \in Buyers, NEW l \in Listings,
           Buy(r, b, l)
    PROVE  IndInv'
<1>1. UNCHANGED <<now, cron, chain, tx, retry, job, crashes>> /\ ClaimListing(l, b)
  BY DEF Buy, retryVars
<1>2. Moves /\ ChainStep
  BY <1>1, ContractAlone
<1>3. JobsStep /\ RecordStep
  BY <1>1, <1>2, JobsAlone, RecordsAlone
<1>4. ListingStepOK
  <2>1. PICK row : row = [listing[l] EXCEPT !.by = b, !.at = now]
    OBVIOUS
  <2>2. row \in Row /\ row.status = listing[l].status
    BY <2>1 DEF IndInv, TypeOK, ClaimTypeOK, Row
  <2>3. listing' = [listing EXCEPT ![l] = row]
    BY <1>1, <2>1 DEF ClaimListing, IndInv, TypeOK, ClaimTypeOK
  <2> QED
    BY <1>1, <2>2, <2>3, RowChanged
<1>5. RequestsStep
  <2>1. NoRow \in TxRow /\ NoRow.listing \notin Listings /\ NoRow.retry = 0
        /\ NoRow.state = "none"
    BY PurchaseAssumptions DEF NoRow, TxRow, SomeListing
  <2>2. PICK q : q = [NoRequest EXCEPT !.op = "buy", !.step = "claimed",
                                       !.buyer = b, !.listing = l]
    OBVIOUS
  <2>3. /\ q.op = "buy" /\ q.step = "claimed" /\ q.buyer = b /\ q.listing = l
        /\ q.seen = NoRow /\ q.tx = 0 /\ q.outcome = "none"
    BY <2>2 DEF NoRequest
  <2>4. q \in RequestRow
    <3>1. NoRequest \in RequestRow
      BY <2>1 DEF NoRequest, RequestRow, SomeListing, Steps, Outcomes
    <3> QED
      BY <2>2, <3>1 DEF RequestRow, Steps, SomeListing
  <2>5. Accurate(q.seen, q.tx)'
    BY <2>1, <2>3 DEF Accurate
  <2>6. Sound(q)'
    BY <2>3, <2>5 DEF Sound
  <2>7. request' = [request EXCEPT ![r] = q]
    BY <2>2, Zenon DEF Buy
  <2> QED
    BY <2>4, <2>6, <2>7, RequestChanged
<1> QED
  BY <1>1, <1>2, <1>3, <1>4, <1>5, RequestKeepsInvariant

LEMMA OpenKeeps ==
    ASSUME IndInv, NEW r \in Requests, NEW op \in Calls, NEW t \in DOMAIN tx,
           Open(r, op, t)
    PROVE  IndInv'
<1>1. UNCHANGED <<claimVars, chain, tx, retry, job, crashes>>
  BY DEF Open, retryVars
<1>2. t \in DOMAIN chain /\ t \in Nat /\ tx[t] \in TxRow /\ Accurate(tx[t], t)
  BY DEF IndInv, TypeOK, RecordsTrue
<1>3. PICK row : row = tx[t]
  OBVIOUS
<1>4. PICK q : q = [NoRequest EXCEPT !.op = op, !.step = "read", !.tx = t, !.seen = row]
  OBVIOUS
<1>5. /\ q.op = op /\ q.step = "read" /\ q.tx = t /\ q.seen = row
      /\ q.outcome = "none"
  BY <1>4 DEF NoRequest
<1>6. q \in RequestRow
  <2>1. NoRow \in TxRow
    BY DEF NoRow, TxRow, SomeListing
  <2>2. NoRequest \in RequestRow
    BY <2>1 DEF NoRequest, RequestRow, SomeListing, Steps, Outcomes
  <2> QED
    BY <1>2, <1>3, <1>4, <2>2 DEF RequestRow, Steps
<1>7. Accurate(q.seen, q.tx)'
  BY <1>1, <1>2, <1>3, <1>5 DEF Accurate, Paid, Dead
<1>8. Sound(q)'
  BY <1>1, <1>2, <1>5, <1>7 DEF Sound, Calls
<1>9. request' = [request EXCEPT ![r] = q]
  BY <1>3, <1>4, Zenon DEF Open
<1>10. RequestsStep
  BY <1>6, <1>8, <1>9, RequestChanged
<1>11. RecordStep
  BY <1>1, RecordsAlone
<1> QED
  BY <1>1, <1>10, <1>11, RowStepKeeps

LEMMA CreateTransactionKeeps ==
    ASSUME IndInv, NEW r \in Requests, CreateTransaction(r)
    PROVE  IndInv'
<1>1. UNCHANGED <<claimVars, retry, job, crashes>> /\ At(r, "claimed")
  BY DEF CreateTransaction
<1>2. request[r] \in RequestRow /\ Sound(request[r])
  BY RequestTyped
<1>3. PICK p : p = request[r]
  OBVIOUS
<1>4. /\ p.listing \in Listings /\ p.buyer \in Buyers /\ p.op = "buy"
      /\ p.tx = 0 /\ p.seen = NoRow /\ p.outcome = "none"
  BY <1>1, <1>2, <1>3 DEF Sound, At
<1>5. PICK row : row = [state |-> "pending", listing |-> p.listing, retry |-> 0]
  OBVIOUS
<1>6. PICK c : c = [state |-> "pending", executed |-> FALSE,
                    listing |-> p.listing, buyer |-> p.buyer]
  OBVIOUS
<1>7. chain' = Append(chain, c) /\ tx' = Append(tx, row)
  BY <1>3, <1>5, <1>6 DEF CreateTransaction
<1>8. row \in TxRow /\ c \in ChainRow
  BY <1>4, <1>5, <1>6 DEF TxRow, TxStates, SomeListing, ChainRow, ChainStates
<1>9. /\ chain \in Seq(ChainRow) /\ tx \in Seq(TxRow) /\ Len(chain) = Len(tx)
      /\ retry \in Seq(RetryRow)
  BY DEF IndInv, TypeOK
<1>10. PICK n : n = Len(tx) + 1
  OBVIOUS
<1>11. /\ chain' \in Seq(ChainRow) /\ Len(chain') = n /\ chain'[n] = c
       /\ \A t \in 1..Len(chain) : chain'[t] = chain[t]
       /\ tx' \in Seq(TxRow) /\ Len(tx') = n /\ tx'[n] = row
       /\ \A t \in 1..Len(tx) : tx'[t] = tx[t]
  BY <1>7, <1>8, <1>9, <1>10, AppendProperties
<1>12. /\ DOMAIN chain' = DOMAIN chain \union {n} /\ n \notin DOMAIN chain
       /\ DOMAIN tx' = DOMAIN tx \union {n} /\ DOMAIN tx = DOMAIN chain
       /\ n \in Nat /\ n # 0
  BY <1>9, <1>10, <1>11
<1>13. Moves
  BY <1>1, <1>9, <1>11, <1>12 DEF Moves, Paid, Dead
<1>14. ChainStep
  <2>1. ASSUME NEW t \in DOMAIN chain', chain'[t].executed
        PROVE  chain'[t].state \in {"completed", "rolled_back"}
    <3>1. t # n
      BY <1>6, <1>11, <2>1
    <3>2. t \in DOMAIN chain /\ chain'[t] = chain[t]
      BY <1>9, <1>11, <1>12, <3>1
    <3> QED
      BY <2>1, <3>2 DEF ChainFinal, IndInv
  <2> QED
    BY <1>11, <2>1 DEF ChainStep, ChainFinal
<1>15. RecordStep
  <2>1. Accurate(row, n)'
    BY <1>5, <1>6, <1>11, <1>12 DEF Accurate
  <2>2. ASSUME NEW t \in DOMAIN tx'
        PROVE  (t \in DOMAIN tx /\ tx'[t] = tx[t]) \/ Accurate(tx[t], t)'
    <3>1. CASE t = n
      <4>1. tx'[t] = row
        BY <1>11, <3>1
      <4> QED
        BY <2>1, <3>1, <4>1
    <3>2. CASE t # n
      BY <1>9, <1>11, <1>12, <3>2
    <3> QED
      BY <3>1, <3>2
  <2> QED
    BY <1>11, <2>2 DEF RecordStep
<1>16. JobsStep /\ ListingStepOK
  BY <1>1, <1>13, JobsAlone, ListingsAlone
<1>17. RequestsStep
  <2>1. PICK q : q = [p EXCEPT !.step = "created", !.tx = n]
    OBVIOUS
  <2>2. /\ q \in RequestRow /\ q.step = "created" /\ q.tx = n /\ q.seen = NoRow
        /\ q.op = "buy" /\ q.listing = p.listing /\ q.buyer = p.buyer
        /\ q.outcome = "none"
    BY <1>2, <1>3, <1>4, <1>12, <2>1 DEF RequestRow, Steps
  <2>3. NoRow.listing \notin Listings /\ NoRow.retry = 0 /\ NoRow.state = "none"
    BY PurchaseAssumptions DEF NoRow
  <2>4. Accurate(q.seen, q.tx)'
    BY <2>2, <2>3 DEF Accurate
  <2>5. n \in DOMAIN chain' /\ chain'[n].listing = p.listing
    BY <1>6, <1>11, <1>12
  <2>6. Sound(q)'
    BY <1>4, <2>2, <2>4, <2>5 DEF Sound
  <2>7. request' = [request EXCEPT ![r] = q]
    BY <1>3, <1>10, <2>1 DEF CreateTransaction, IndInv, TypeOK
  <2> QED
    BY <2>2, <2>6, <2>7, RequestChanged
<1> QED
  BY <1>1, <1>13, <1>14, <1>15, <1>16, <1>17, RequestKeepsInvariant

-----------------------------------------------------------------------------
(* The purchase itself. *)

LEMMA SettlementRefusedKeeps ==
    ASSUME IndInv, NEW r \in Requests, SettlementRefused(r) \/ FallBackFails(r)
    PROVE  IndInv'
<1>1. /\ UNCHANGED <<now, cron, retryVars, crashes>> /\ Done(r)
      /\ At(r, "claimed") \/ At(r, "failing")
      /\ listing' = Released(request[r].listing, request[r].buyer)
  BY DEF SettlementRefused, FallBackFails
<1>2. request[r].listing \in Listings
  BY <1>1, RequestTyped DEF Sound, At
<1>3. ListingStepOK
  BY <1>1, <1>2, ReleasedOK
<1>4. RequestsStep
  BY <1>1, AnsweredSound
<1> QED
  BY <1>1, <1>3, <1>4, ListingWriteKeeps

LEMMA RereadKeeps ==
    ASSUME IndInv, NEW r \in Requests, Reread(r)
    PROVE  IndInv'
<1>1. UNCHANGED <<claimVars, chain, tx, retry, job, crashes>>
      /\ (At(r, "created") \/ At(r, "failing"))
  BY DEF Reread, retryVars, At
<1>2. /\ Tx(r) \in DOMAIN chain /\ tx[Tx(r)] \in TxRow /\ Accurate(tx[Tx(r)], Tx(r))
      /\ request[r] \in RequestRow /\ Sound(request[r])
  BY <1>1, UnderWay DEF At
<1>3. PICK p : p = request[r]
  OBVIOUS
<1>4. PICK row : row = tx[p.tx]
  OBVIOUS
<1>5. PICK q : q = [p EXCEPT !.seen = row,
                             !.step = IF p.step = "created" THEN "read" ELSE "fallback"]
  OBVIOUS
<1>6. p \in RequestRow /\ Sound(p) /\ row \in TxRow /\ Accurate(row, p.tx)
      /\ p.tx \in DOMAIN chain
  BY <1>2, <1>3, <1>4 DEF Tx
<1>7. /\ q \in RequestRow /\ q.step \in {"read", "fallback"} /\ q.tx = p.tx
      /\ q.seen = row /\ q.op = p.op /\ q.listing = p.listing /\ q.buyer = p.buyer
      /\ q.outcome = p.outcome
  BY <1>5, <1>6 DEF RequestRow, Steps
<1>8. Sound(q)
  BY <1>6, <1>7 DEF Sound
<1>9. Moves /\ ChainStep
  BY <1>1, ContractAlone
<1>10. retry' \in Seq(RetryRow)
  BY <1>1 DEF IndInv, TypeOK
<1>11. Sound(q)'
  BY <1>8, <1>9, <1>10, SoundStays DEF ChainStep, IndInv
<1>12. request' = [request EXCEPT ![r] = q]
  BY <1>3, <1>4, <1>5 DEF Reread, Tx, IndInv, TypeOK
<1>13. RequestsStep
  BY <1>7, <1>11, <1>12, RequestChanged
<1>14. RecordStep
  BY <1>1, RecordsAlone
<1> QED
  BY <1>1, <1>13, <1>14, RowStepKeeps

(* Facts of a step that starts at a given place. *)
LEMMA Located ==
    ASSUME IndInv, NEW r \in Requests, ~At(r, "idle"), ~At(r, "claimed"), ~At(r, "done"),
           UNCHANGED <<chain, retry>>
    PROVE  /\ Moves /\ ChainStep
           /\ chain' \in Seq(ChainRow) /\ retry' \in Seq(RetryRow)
           /\ Len(chain') = Len(chain)
           /\ Tx(r) \in DOMAIN chain /\ Tx(r) = request[r].tx
           /\ Paid(Tx(r)) => \A t : t = Tx(r) => Paid(t)'
           /\ Dead(Tx(r)) => \A t : t = Tx(r) => Dead(t)'
<1>1. Moves /\ ChainStep
  BY ContractAlone
<1>2. Tx(r) \in DOMAIN chain
  BY UnderWay
<1> QED
  BY <1>1, <1>2 DEF IndInv, TypeOK, Tx, Moves

LEMMA SyncStepsKeep ==
    ASSUME IndInv, NEW r \in Requests, Look(r) \/ FallBack(r) \/ Refuse(r)
    PROVE  IndInv'
<1>1. /\ UNCHANGED <<claimVars, chain, retry, job, crashes>> /\ Sync(r)
      /\ At(r, "read") \/ At(r, "fallback")
  BY DEF Look, FallBack, Refuse
<1>2. ~At(r, "idle") /\ ~At(r, "claimed") /\ ~At(r, "done")
  BY <1>1 DEF At
<1>3. PICK t : t = Tx(r)
  OBVIOUS
<1>4. /\ Moves /\ ChainStep /\ chain' \in Seq(ChainRow) /\ retry' \in Seq(RetryRow)
      /\ Len(chain') = Len(chain) /\ t \in DOMAIN chain /\ t = request[r].tx
      /\ Paid(t) => Paid(t)'
  BY <1>1, <1>2, <1>3, Located
<1>5. Seen(r) \in TxRow /\ Accurate(Seen(r), t)
  BY <1>2, <1>3, UnderWay
<1>6. Seen(r).state \in Outcomes /\ (Seen(r).state = "completed" => Paid(t)')
  BY <1>4, <1>5 DEF TxRow, Outcomes, Accurate
<1>7. RecordStep
  BY <1>1, <1>2, <1>4, SyncAccurate
<1>8. CASE Done(r)
  BY <1>1, <1>7, <1>8, AnsweredSound, RowStepKeeps
<1>9. CASE Return(r, Seen(r).state)
  <2>1. PICK outcome \in Outcomes : outcome = Seen(r).state
    BY <1>6
  <2>2. Leave(r, "report", outcome)
    BY <1>9, <2>1 DEF Return
  <2>3. RequestsStep
    BY <1>4, <1>6, <2>1, <2>2, LeaveSound
  <2> QED
    BY <1>1, <1>7, <2>3, RowStepKeeps
<1>10. CASE Fail(r)
  <2>1. RequestsStep
    BY <1>4, <1>10, LeaveSound DEF Fail, Outcomes
  <2> QED
    BY <1>1, <1>7, <2>1, RowStepKeeps
<1> QED
  BY <1>8, <1>9, <1>10 DEF Look, FallBack, Refuse

(* Steps that save the row in a new state and go on, leave or end. *)
LEMMA SaveStepKeeps ==
    ASSUME IndInv, NEW r \in Requests, ~At(r, "idle"), ~At(r, "claimed"), ~At(r, "done"),
           UNCHANGED <<claimVars, chain, retry, job, crashes>>,
           NEW state \in TxStates, tx' = Saved(r, state) \/ tx' = tx,
           state = "completed" => Paid(Tx(r)),
           state = "cancelled" => Dead(Tx(r)),
           RequestsStep
    PROVE  IndInv'
<1>1. PICK t : t = Tx(r)
  OBVIOUS
<1>2. /\ Moves /\ ChainStep /\ retry' \in Seq(RetryRow) /\ Len(chain') = Len(chain)
      /\ Paid(Tx(r)) => Paid(t)'
      /\ Dead(Tx(r)) => Dead(t)'
  BY <1>1, Located
<1>3. RecordStep
  BY <1>1, <1>2, SavedAccurate, RecordsAlone
<1> QED
  BY <1>3, RowStepKeeps

LEMMA BeginExecuteKeeps ==
    ASSUME IndInv, NEW r \in Requests, BeginExecute(r)
    PROVE  IndInv'
<1>1. /\ At(r, "read") /\ tx' = Saved(r, "executing") /\ Go(r, "calling")
      /\ UNCHANGED <<claimVars, chain, retry, job, crashes>>
  BY DEF BeginExecute, Executes
<1>2. ~At(r, "idle") /\ ~At(r, "claimed") /\ ~At(r, "done")
  BY <1>1 DEF At
<1>3. RequestsStep
  BY <1>1, <1>2, Located, GoSound DEF Steps
<1> QED
  BY <1>1, <1>2, <1>3, SaveStepKeeps DEF TxStates

LEMMA AdoptRetryKeeps ==
    ASSUME IndInv, NEW r \in Requests, AdoptRetry(r)
    PROVE  IndInv'
<1>1. /\ At(r, "read") /\ tx' = Saved(r, "completed") /\ Go(r, "adopted")
      /\ UNCHANGED <<claimVars, chain, retry, job, crashes>>
      /\ RetryStatus(r) = "completed"
  BY DEF AdoptRetry, Executes
<1>2. ~At(r, "idle") /\ ~At(r, "claimed") /\ ~At(r, "done")
  BY <1>1 DEF At
<1>3. PICK t : t = Tx(r)
  OBVIOUS
<1>4. Seen(r) \in TxRow /\ Accurate(Seen(r), Tx(r))
  BY <1>2, UnderWay
<1>5. RetryOf(r) # 0 /\ retry[RetryOf(r)].status = "completed"
  BY <1>1 DEF RetryStatus
<1>6. RetryOf(r) \in DOMAIN retry /\ retry[RetryOf(r)].tx = Tx(r)
  BY <1>4, <1>5 DEF RetryOf, Accurate
<1>7. Paid(Tx(r))
  BY <1>5, <1>6 DEF IndInv, QueueTrue
<1>8. RequestsStep
  BY <1>1, <1>2, <1>3, <1>7, Located, GoSound DEF Steps
<1> QED
  BY <1>1, <1>2, <1>7, <1>8, SaveStepKeeps DEF TxStates

LEMMA RecordingKeeps ==
    ASSUME IndInv, NEW r \in Requests,
           RecordCompleted(r) \/ RecordRetry(r) \/ RecordFailed(r) \/ RecordCancelled(r)
              \/ RecordRolledBack(r)
    PROVE  IndInv'
<1>1. /\ UNCHANGED <<claimVars, chain, retry, job, crashes>>
      /\ \/ At(r, "settled") \/ At(r, "queued") \/ At(r, "answered")
         \/ At(r, "cancelled") \/ At(r, "relisted")
  BY DEF RecordCompleted, RecordRetry, RecordFailed, RecordCancelled, RecordRolledBack
<1>2. ~At(r, "idle") /\ ~At(r, "claimed") /\ ~At(r, "done")
  BY <1>1 DEF At
<1>3. PICK t : t = Tx(r)
  OBVIOUS
<1>4. /\ Moves /\ ChainStep /\ chain' \in Seq(ChainRow) /\ retry' \in Seq(RetryRow)
      /\ Len(chain') = Len(chain) /\ t \in DOMAIN chain /\ t = request[r].tx
      /\ Paid(t) => Paid(t)'
  BY <1>1, <1>2, <1>3, Located
<1>5. Sound(request[r])
  BY RequestTyped
<1>6. CASE RecordCompleted(r)
  <2>1. Paid(t)
    BY <1>4, <1>5, <1>6 DEF RecordCompleted, At, Sound
  <2>2. RequestsStep
    BY <1>4, <1>6, <2>1, LeaveSound DEF RecordCompleted, Return, Outcomes, TxStates
  <2> QED
    BY <1>1, <1>2, <1>3, <1>6, <2>1, <2>2, SaveStepKeeps DEF RecordCompleted, TxStates
<1>7. CASE RecordRetry(r)
  <2>1. RequestsStep
    BY <1>4, <1>7, LeaveSound DEF RecordRetry, Return, Outcomes, TxStates
  <2> QED
    BY <1>1, <1>2, <1>7, <2>1, SaveStepKeeps DEF RecordRetry, TxStates
<1>8. CASE RecordFailed(r)
  <2>1. RequestsStep
    BY <1>4, <1>8, LeaveSound DEF RecordFailed, Fail, Outcomes, TxStates
  <2> QED
    BY <1>1, <1>2, <1>8, <2>1, SaveStepKeeps DEF RecordFailed, TxStates
<1>9. CASE RecordCancelled(r)
  <2>1. Dead(t)
    BY <1>4, <1>5, <1>9 DEF RecordCancelled, At, Sound
  <2>2. RequestsStep
    BY <1>9, AnsweredSound DEF RecordCancelled
  <2> QED
    BY <1>1, <1>2, <1>3, <1>9, <2>1, <2>2, SaveStepKeeps DEF RecordCancelled, TxStates
<1>10. CASE RecordRolledBack(r)
  <2>1. RequestsStep
    BY <1>10, AnsweredSound DEF RecordRolledBack
  <2> QED
    BY <1>1, <1>2, <1>10, <2>1, SaveStepKeeps DEF RecordRolledBack, TxStates
<1> QED
  BY <1>6, <1>7, <1>8, <1>9, <1>10

LEMMA CallContractKeeps ==
    ASSUME IndInv, NEW r \in Requests, CallContract(r)
    PROVE  IndInv'
<1>1. At(r, "calling") /\ UNCHANGED <<claimVars, tx, retry, job, crashes>>
  BY DEF CallContract
<1>2. ~At(r, "idle") /\ ~At(r, "claimed") /\ ~At(r, "done")
  BY <1>1 DEF At
<1>3. PICK t : t = Tx(r)
  OBVIOUS
<1>4. t \in DOMAIN chain /\ t = request[r].tx /\ retry \in Seq(RetryRow)
  BY <1>2, <1>3, UnderWay DEF Tx, IndInv, TypeOK
<1>5. ASSUME Moves, ChainStep, Len(chain') = Len(chain),
             NEW answer \in {"completed", "retryable", "permanent"},
             Answer(r, "answered", answer), answer = "completed" => Paid(t)'
      PROVE  IndInv'
  <2>1. RequestsStep
    BY <1>1, <1>4, <1>5, AnswerSound DEF Steps, Outcomes, TxStates, ChainStep
  <2>2. RecordStep /\ JobsStep /\ ListingStepOK
    BY <1>1, <1>5, RecordsAlone, JobsAlone, ListingsAlone
  <2> QED
    BY <1>1, <1>5, <2>1, <2>2, RequestKeepsInvariant
<1>6. CASE Executable(t) /\ chain' = Executed(t)
              /\ \E answer \in {"completed", "retryable"} : Answer(r, "answered", answer)
  <2>1. Moves /\ ChainStep /\ Len(chain') = Len(chain) /\ Paid(t)'
    BY <1>1, <1>4, <1>6, ExecutedOnce
  <2> QED
    BY <1>5, <1>6, <2>1
<1>7. CASE UNCHANGED chain
              /\ \E answer \in {"retryable", "permanent"} : Answer(r, "answered", answer)
  <2>1. Moves /\ ChainStep /\ Len(chain') = Len(chain)
    BY <1>1, <1>7, ContractAlone
  <2> QED
    BY <1>5, <1>7, <2>1
<1> QED
  BY <1>3, <1>6, <1>7 DEF CallContract

LEMMA SettleKeeps ==
    ASSUME IndInv, NEW r \in Requests, SettleListing(r) \/ SettleAdopted(r)
    PROVE  IndInv'
<1>1. /\ UNCHANGED <<now, cron, chain, retry, job, crashes>>
      /\ listing' = SetStatus(Seen(r).listing, "SOLD")
      /\ (At(r, "answered") /\ request[r].outcome = "completed") \/ At(r, "adopted")
  BY DEF SettleListing, SettleAdopted, retryVars
<1>2. ~At(r, "idle") /\ ~At(r, "claimed") /\ ~At(r, "done")
  BY <1>1 DEF At
<1>3. PICK t : t = Tx(r)
  OBVIOUS
<1>4. /\ Moves /\ ChainStep /\ chain' \in Seq(ChainRow) /\ retry' \in Seq(RetryRow)
      /\ Len(chain') = Len(chain) /\ t \in DOMAIN chain /\ t = request[r].tx
      /\ Paid(t) => Paid(t)'
  BY <1>1, <1>2, <1>3, Located
<1>5. Seen(r) \in TxRow /\ Accurate(Seen(r), t) /\ Sound(request[r])
  BY <1>2, <1>3, UnderWay
<1>6. Paid(t)
  BY <1>1, <1>4, <1>5 DEF Sound, At
<1>7. ListingStepOK
  <2>1. PICK l : l = Seen(r).listing
    OBVIOUS
  <2>2. l \in SomeListing /\ (l \in Listings => chain[t].listing = l)
    BY <1>5, <2>1 DEF TxRow, Accurate
  <2>3. l \in Listings => \E u \in DOMAIN chain' : chain'[u].listing = l /\ Paid(u)'
    BY <1>1, <1>4, <1>6, <2>2
  <2> QED
    BY <1>1, <2>1, <2>2, <2>3, StatusSetOK DEF ListingStatuses
<1>8. JobsStep
  BY <1>1, <1>4, JobsAlone
<1>9. CASE SettleListing(r)
  <2>1. RequestsStep
    BY <1>4, <1>6, <1>9, GoSound DEF SettleListing, Steps
  <2>2. RecordStep
    BY <1>4, <1>9, RecordsAlone DEF SettleListing, retryVars
  <2> QED
    BY <1>1, <1>4, <1>7, <1>8, <2>1, <2>2, RequestKeepsInvariant
<1>10. CASE SettleAdopted(r)
  <2>1. RequestsStep
    BY <1>4, <1>6, <1>10, LeaveSound
       DEF SettleAdopted, Return, Fail, Outcomes, TxStates
  <2>2. RecordStep
    <3>1. CASE tx' = tx
      BY <1>4, <3>1, RecordsAlone
    <3>2. CASE tx' = Saved(r, "completed")
      <4>1. PICK state \in TxStates \union {"none"} : state = "completed"
        BY DEF TxStates
      <4>2. Moves /\ ChainStep /\ retry' \in Seq(RetryRow) /\ Len(chain') = Len(chain)
        BY <1>4
      <4>3. /\ tx' = Saved(r, state)
            /\ state = "completed" => Paid(t)'
            /\ state = "cancelled" => Dead(t)'
        BY <1>4, <1>6, <3>2, <4>1
      <4> QED
        BY <1>2, <1>3, <4>2, <4>3, SavedAccurate, Zenon
    <3> QED
      BY <1>10, <3>1, <3>2 DEF SettleAdopted
  <2> QED
    BY <1>1, <1>4, <1>7, <1>8, <2>1, <2>2, RequestKeepsInvariant
<1> QED
  BY <1>9, <1>10

LEMMA SettlementFailsKeeps ==
    ASSUME IndInv, NEW r \in Requests, SettlementFails(r) \/ SaveFails(r)
    PROVE  IndInv'
<1>1. /\ UNCHANGED <<claimVars, chain, tx, retry, job, crashes>>
      /\ At(r, "settled") \/ At(r, "read") \/ At(r, "queued") \/ At(r, "answered")
  BY DEF SettlementFails, SaveFails, Executes, retryVars
<1>2. ~At(r, "idle") /\ ~At(r, "claimed") /\ ~At(r, "done")
  BY <1>1 DEF At
<1>3. PICK t : t = Tx(r)
  OBVIOUS
<1>4. /\ Moves /\ ChainStep /\ chain' \in Seq(ChainRow) /\ retry' \in Seq(RetryRow)
      /\ Len(chain') = Len(chain) /\ t \in DOMAIN chain /\ t = request[r].tx
  BY <1>1, <1>2, <1>3, Located
<1>5. CASE SettlementFails(r)
  <2>1. PICK answer \in {"retryable", "permanent"} : Answer(r, "answered", answer)
    BY <1>5 DEF SettlementFails
  <2>2. RequestsStep
    BY <1>4, <2>1, AnswerSound DEF Steps, Outcomes
  <2> QED
    BY <1>1, <2>2, RecordsAlone, RowStepKeeps
<1>6. CASE SaveFails(r)
  <2>1. RequestsStep
    BY <1>4, <1>6, LeaveSound DEF SaveFails, Fail, Outcomes
  <2> QED
    BY <1>1, <2>1, RecordsAlone, RowStepKeeps
<1> QED
  BY <1>5, <1>6

LEMMA ReportKeeps ==
    ASSUME IndInv, NEW r \in Requests, Report(r)
    PROVE  IndInv'
<1>1. UNCHANGED <<now, cron, retryVars, crashes>> /\ Done(r) /\ At(r, "report")
  BY DEF Report
<1>2. RequestsStep
  BY <1>1, AnsweredSound
<1>3. Sound(request[r]) /\ request[r] \in RequestRow
  BY RequestTyped
<1>4. PICK l : l = request[r].listing
  OBVIOUS
<1>5. PICK t : t = request[r].tx
  OBVIOUS
<1>6. l \in Listings /\ request[r].op = "buy" /\ t \in DOMAIN chain
  BY <1>1, <1>3, <1>4, <1>5 DEF Sound, At
<1>7. ClaimTypeOK
  BY DEF IndInv, TypeOK
<1>8. CASE request[r].outcome = "completed"
  <2>1. Paid(t)
    BY <1>3, <1>5, <1>8 DEF Sound
  <2>2. t # 0 => chain[t].listing = l
    BY <1>3, <1>4, <1>5, <1>6 DEF Sound
  <2>3. t # 0
    BY <1>6 DEF IndInv, TypeOK
  <2>4. PICK row : row = [Unreserved(listing[l]) EXCEPT !.status = "SOLD"]
    OBVIOUS
  <2>5. row \in Row
    BY <1>6, <1>7, <2>4 DEF ClaimTypeOK, Unreserved, Row, ListingStatuses
  <2>6. listing' = [listing EXCEPT ![l] = row]
    BY <1>4, <1>8, <2>4, Zenon DEF Report, MarkedSold
  <2>7. \E u \in DOMAIN chain' : chain'[u].listing = l /\ Paid(u)'
    BY <1>1, <1>6, <2>1, <2>2, <2>3 DEF Paid, retryVars
  <2>8. ListingStepOK
    BY <1>1, <1>6, <2>5, <2>6, <2>7, RowChanged
  <2> QED
    BY <1>1, <1>2, <2>8, ListingWriteKeeps
<1>9. CASE request[r].outcome \in {"failed", "cancelled", "rolled_back"}
  <2>1. listing' = Released(l, request[r].buyer)
    BY <1>4, <1>9, Zenon DEF Report
  <2>2. ListingStepOK
    BY <1>1, <1>6, <2>1, ReleasedOK
  <2> QED
    BY <1>1, <1>2, <2>2, ListingWriteKeeps
<1>10. CASE request[r].outcome \notin {"completed", "failed", "cancelled", "rolled_back"}
  <2>1. listing' = listing
    BY <1>10 DEF Report
  <2>2. ListingStepOK
    BY <1>1, <2>1, ListingsAlone DEF claimVars
  <2> QED
    BY <1>1, <1>2, <2>2, ListingWriteKeeps
<1> QED
  BY <1>8, <1>9, <1>10

LEMMA QueueRetryKeeps ==
    ASSUME IndInv, NEW r \in Requests, QueueRetry(r)
    PROVE  IndInv'
<1>1. /\ At(r, "answered") /\ request[r].outcome = "retryable"
      /\ UNCHANGED <<claimVars, chain, tx, crashes>>
  BY DEF QueueRetry
<1>2. ~At(r, "idle") /\ ~At(r, "claimed") /\ ~At(r, "done")
  BY <1>1 DEF At
<1>3. PICK t : t = Tx(r)
  OBVIOUS
<1>4. /\ t \in DOMAIN chain /\ t = request[r].tx /\ t \in Nat
      /\ request[r] \in RequestRow /\ Sound(request[r])
      /\ Seen(r) \in TxRow /\ Accurate(Seen(r), t)
  BY <1>2, <1>3, UnderWay DEF Tx, IndInv, TypeOK
<1>5. PICK rec : rec = [tx |-> t, status |-> "pending", attempts |-> 0]
  OBVIOUS
<1>6. retry' = Append(retry, rec) /\ job' = Append(job, "waiting")
  BY <1>3, <1>5 DEF QueueRetry, EnqueueRetry
<1>7. /\ retry \in Seq(RetryRow) /\ job \in Seq(JobStates) /\ Len(retry) = Len(job)
      /\ rec \in RetryRow /\ "waiting" \in JobStates
  BY <1>4, <1>5 DEF IndInv, TypeOK, RetryRow, RetryStatuses, JobStates
<1>8. PICK n : n = Len(retry) + 1
  OBVIOUS
<1>9. /\ retry' \in Seq(RetryRow) /\ Len(retry') = n /\ retry'[n] = rec
      /\ \A k \in 1..Len(retry) : retry'[k] = retry[k]
      /\ job' \in Seq(JobStates) /\ Len(job') = n /\ job'[n] = "waiting"
      /\ \A k \in 1..Len(job) : job'[k] = job[k]
  BY <1>6, <1>7, <1>8, AppendProperties
<1>10. /\ DOMAIN retry' = DOMAIN retry \union {n} /\ n \notin DOMAIN retry
       /\ DOMAIN job = DOMAIN retry /\ n \in Nat
  BY <1>7, <1>8, <1>9
<1>11. Moves
  BY <1>1, <1>7, <1>9, <1>10 DEF Moves, Paid, Dead
<1>12. ChainStep
  BY <1>1 DEF ChainStep, ChainFinal, IndInv, TypeOK
<1>13. JobsStep
  <2>1. ASSUME NEW k \in DOMAIN retry'
        PROVE  /\ retry'[k].tx \in DOMAIN chain'
               /\ retry'[k].status = "completed" => Paid(retry[k].tx)'
               /\ job'[k] \in {"accepted", "recorded"} => Paid(retry[k].tx)'
    <3>1. CASE k = n
      BY <1>1, <1>4, <1>5, <1>9, <3>1
    <3>2. CASE k # n
      <4>1. k \in DOMAIN retry /\ retry'[k] = retry[k] /\ job'[k] = job[k]
        BY <1>7, <1>9, <1>10, <3>2
      <4> QED
        BY <1>1, <4>1 DEF IndInv, QueueTrue, Paid
    <3> QED
      BY <3>1, <3>2
  <2>2. QueueTrue'
    BY <2>1 DEF QueueTrue
  <2> QED
    BY <1>9, <2>2 DEF JobsStep
<1>14. RecordStep
  BY <1>1, RecordsAlone
<1>15. ListingStepOK
  BY <1>1, ListingsAlone
<1>16. RequestsStep
  <2>1. PICK p : p = request[r]
    OBVIOUS
  <2>2. PICK row : row = [p.seen EXCEPT !.retry = n]
    OBVIOUS
  <2>3. PICK q : q = [p EXCEPT !.step = "queued", !.seen = row]
    OBVIOUS
  <2>4. p.seen \in TxRow /\ Accurate(p.seen, t) /\ p \in RequestRow /\ Sound(p)
        /\ p.tx = t
    BY <1>4, <2>1 DEF Seen
  <2>5. row \in TxRow /\ row.state = p.seen.state /\ row.listing = p.seen.listing
        /\ row.retry = n
    BY <1>10, <2>2, <2>4 DEF TxRow
  <2>6. /\ q \in RequestRow /\ q.step = "queued" /\ q.seen = row /\ q.tx = t
        /\ q.op = p.op /\ q.listing = p.listing /\ q.buyer = p.buyer
        /\ q.outcome = p.outcome
    BY <2>3, <2>4, <2>5 DEF RequestRow, Steps
  <2>7. Accurate(p.seen, t)'
    BY <1>9, <1>11, <1>12, <2>4, AccurateStays DEF ChainStep, IndInv
  <2>8. n \in DOMAIN retry' /\ retry'[n].tx = t
    BY <1>5, <1>9, <1>10
  <2>9. Accurate(row, t)'
    BY <2>5, <2>7, <2>8 DEF Accurate
  <2>10. Sound(p)'
    BY <1>9, <1>11, <1>12, <2>4, SoundStays DEF ChainStep, IndInv
  <2>11. t \in DOMAIN chain'
    BY <1>1, <1>4
  <2>12. Sound(q)'
    BY <2>4, <2>6, <2>9, <2>10, <2>11 DEF Sound
  <2>13. request' = [request EXCEPT ![r].step = "queued", ![r].seen.retry = n]
    BY <1>8 DEF QueueRetry
  <2>14. request' = [request EXCEPT ![r] = q]
    BY <2>1, <2>2, <2>3, <2>13 DEF IndInv, TypeOK
  <2> QED
    BY <2>6, <2>12, <2>14, RequestChanged
<1> QED
  BY <1>1, <1>11, <1>12, <1>13, <1>14, <1>15, <1>16, RequestKeepsInvariant

-----------------------------------------------------------------------------
(* Cancelling and rolling back. *)

LEMMA CancelRetryKeeps ==
    ASSUME IndInv, NEW r \in Requests, CancelRetry(r)
    PROVE  IndInv'
<1>1. /\ At(r, "read") /\ Sync(r) /\ Go(r, "cancelling")
      /\ UNCHANGED <<claimVars, chain, crashes>>
  BY DEF CancelRetry
<1>2. ~At(r, "idle") /\ ~At(r, "claimed") /\ ~At(r, "done")
  BY <1>1 DEF At
<1>3. PICK k : k = RetryOf(r)
  OBVIOUS
<1>4. Moves /\ ChainStep /\ JobsStep
  <2>1. CASE k # 0 /\ CanCancelRetry(k)
    <3>1. retry' = RetryCancelled(k) /\ job' = Removed(k)
      BY <1>3, <2>1 DEF CancelRetry
    <3>2. k \in DOMAIN retry
      BY <1>2, <1>3, <2>1, UnderWay DEF RetryOf, Accurate
    <3>3. /\ retry[k] \in RetryRow /\ job[k] \in JobStates
          /\ job[k] \in {"accepted", "recorded"} => Paid(retry[k].tx)
      BY <3>2, RecordTyped
    <3>4. PICK rec : rec = [retry[k] EXCEPT !.status = "cancelled"]
      OBVIOUS
    <3>5. rec \in RetryRow /\ rec.tx = retry[k].tx /\ rec.status = "cancelled"
      BY <3>3, <3>4 DEF RetryRow, RetryStatuses
    <3>6. retry' = [retry EXCEPT ![k] = rec]
      BY <3>1, <3>4, Zenon DEF RetryCancelled
    <3>7. PICK j : j = IF job[k] \in Working THEN job[k] ELSE "none"
      OBVIOUS
    <3>8. job' = [job EXCEPT ![k] = j]
      BY <3>1, <3>7 DEF Removed
    <3>9. j \in JobStates /\ (j \in {"accepted", "recorded"} => Paid(rec.tx))
      BY <3>3, <3>5, <3>7 DEF JobStates
    <3> QED
      BY <1>1, <3>2, <3>5, <3>6, <3>8, <3>9, RetryChanged
  <2>2. CASE ~(k # 0 /\ CanCancelRetry(k))
    <3>1. UNCHANGED <<retry, job>>
      BY <1>3, <2>2 DEF CancelRetry
    <3> QED
      BY <1>1, <3>1, ContractAlone, JobsAlone
  <2> QED
    BY <2>1, <2>2
<1>5. retry' \in Seq(RetryRow) /\ chain' \in Seq(ChainRow) /\ Len(chain') = Len(chain)
  BY <1>1, <1>4 DEF JobsStep, ChainStep
<1>6. RecordStep
  BY <1>1, <1>2, <1>4, <1>5, SyncAccurate
<1>7. PICK t : t = Tx(r)
  OBVIOUS
<1>8. t \in DOMAIN chain /\ t = request[r].tx
  BY <1>2, <1>7, UnderWay DEF Tx
<1>9. RequestsStep
  BY <1>1, <1>4, <1>5, <1>8, GoSound DEF Steps
<1>10. ListingStepOK
  BY <1>1, ListingsAlone
<1> QED
  BY <1>1, <1>4, <1>6, <1>9, <1>10, RequestKeepsInvariant

LEMMA CancelOnChainKeeps ==
    ASSUME IndInv, NEW r \in Requests, CancelOnChain(r)
    PROVE  IndInv'
<1>1. At(r, "cancelling") /\ UNCHANGED <<claimVars, tx, retry, job, crashes>>
  BY DEF CancelOnChain
<1>2. ~At(r, "idle") /\ ~At(r, "claimed") /\ ~At(r, "done")
  BY <1>1 DEF At
<1>3. PICK t : t = Tx(r)
  OBVIOUS
<1>4. t \in DOMAIN chain /\ t = request[r].tx /\ retry' \in Seq(RetryRow)
  BY <1>1, <1>2, <1>3, UnderWay DEF Tx, IndInv, TypeOK
<1>5. ASSUME Moves, ChainStep, Len(chain') = Len(chain), RequestsStep
      PROVE  IndInv'
  <2>1. RecordStep /\ JobsStep /\ ListingStepOK
    BY <1>1, <1>5, RecordsAlone, JobsAlone, ListingsAlone
  <2> QED
    BY <1>1, <1>5, <2>1, RequestKeepsInvariant
<1>6. CASE /\ Cancellable(t)
           /\ chain' = ChainCancelled(t)
           /\ Go(r, "cancelled") \/ Done(r)
  <2>1. Moves /\ ChainStep /\ Len(chain') = Len(chain) /\ Dead(t)'
    BY <1>1, <1>4, <1>6, CancelledForGood
  <2>2. CASE Go(r, "cancelled")
    <3>1. RequestsStep
      BY <1>4, <2>1, <2>2, GoSound DEF Steps, ChainStep
    <3> QED
      BY <1>5, <2>1, <3>1
  <2>3. CASE Done(r)
    BY <1>5, <2>1, <2>3, AnsweredSound
  <2> QED
    BY <1>6, <2>2, <2>3
<1>7. CASE UNCHANGED chain /\ Done(r)
  BY <1>1, <1>5, <1>7, ContractAlone, AnsweredSound
<1> QED
  BY <1>3, <1>6, <1>7 DEF CancelOnChain

LEMMA RollBackOnChainKeeps ==
    ASSUME IndInv, NEW r \in Requests, RollBackOnChain(r)
    PROVE  IndInv'
<1>1. At(r, "read") /\ Sync(r) /\ UNCHANGED <<claimVars, retry, job, crashes>>
  BY DEF RollBackOnChain
<1>2. ~At(r, "idle") /\ ~At(r, "claimed") /\ ~At(r, "done")
  BY <1>1 DEF At
<1>3. PICK t : t = Tx(r)
  OBVIOUS
<1>4. t \in DOMAIN chain /\ t = request[r].tx /\ retry' \in Seq(RetryRow)
  BY <1>1, <1>2, <1>3, UnderWay DEF Tx, IndInv, TypeOK
<1>5. ASSUME Moves, ChainStep, Len(chain') = Len(chain), RequestsStep
      PROVE  IndInv'
  <2>1. RecordStep
    BY <1>1, <1>2, <1>4, <1>5, SyncAccurate
  <2>2. JobsStep /\ ListingStepOK
    BY <1>1, <1>5, JobsAlone, ListingsAlone
  <2> QED
    BY <1>1, <1>5, <2>1, <2>2, RequestKeepsInvariant
<1>6. CASE chain' = RolledBack(t) /\ (Go(r, "rolled_back") \/ Done(r))
  <2>1. Moves /\ ChainStep /\ Len(chain') = Len(chain)
    BY <1>1, <1>4, <1>6, RolledBackOnContract
  <2>2. CASE Go(r, "rolled_back")
    <3>1. RequestsStep
      BY <1>4, <2>1, <2>2, GoSound DEF Steps, ChainStep
    <3> QED
      BY <1>5, <2>1, <3>1
  <2>3. CASE Done(r)
    BY <1>5, <2>1, <2>3, AnsweredSound
  <2> QED
    BY <1>6, <2>2, <2>3
<1>7. CASE UNCHANGED chain /\ Done(r)
  BY <1>1, <1>5, <1>7, ContractAlone, AnsweredSound
<1> QED
  BY <1>3, <1>6, <1>7 DEF RollBackOnChain

LEMMA RelistKeeps ==
    ASSUME IndInv, NEW r \in Requests, RelistRolledBack(r)
    PROVE  IndInv'
<1>1. /\ At(r, "rolled_back") /\ UNCHANGED <<now, cron, retryVars, crashes>>
      /\ listing' = SetStatus(Seen(r).listing, "ACTIVE") /\ Go(r, "relisted")
  BY DEF RelistRolledBack
<1>2. ~At(r, "idle") /\ ~At(r, "claimed") /\ ~At(r, "done")
  BY <1>1 DEF At
<1>3. UNCHANGED <<chain, retry>>
  BY <1>1 DEF retryVars
<1>4. RequestsStep
  BY <1>1, <1>2, <1>3, Located, GoSound DEF Steps
<1>5. ListingStepOK
  BY <1>1, <1>2, UnderWay, StatusSetOK DEF TxRow, ListingStatuses
<1> QED
  BY <1>1, <1>4, <1>5, ListingWriteKeeps

-----------------------------------------------------------------------------
LEMMA InitInvariant ==
    ASSUME Init
    PROVE  IndInv
<1>1. NoRow \in TxRow /\ NoRow.listing \notin Listings /\ NoRow.retry = 0
      /\ NoRow.state = "none"
  BY PurchaseAssumptions DEF NoRow, TxRow, SomeListing
<1>2. NoRequest \in RequestRow
  BY <1>1 DEF NoRequest, RequestRow, SomeListing, Steps, Outcomes
<1>3. chain = <<>> /\ tx = <<>> /\ retry = <<>> /\ job = <<>>
  BY DEF Init, RetryInit
<1>4. ClaimTypeOK
  <2>1. PICK rows : rows = RowsOf({})
    OBVIOUS
  <2>2. DOMAIN rows = {} /\ rows \in [DOMAIN rows -> Row]
    BY <2>1 DEF RowsOf
  <2>3. cron = [stale |-> {}, rows |-> rows] /\ now = 0
    BY <2>1, Zenon DEF Init, ClaimInit
  <2>4. listing \in [Listings -> Row]
        /\ \A l \in Listings : listing[l].status = "ACTIVE"
    BY ListingAssumptions DEF Init, ClaimInit, Row, ListingStatuses
  <2> QED
    BY <2>2, <2>3, <2>4 DEF ClaimTypeOK
<1>5. TypeOK
  BY <1>2, <1>3, <1>4 DEF TypeOK, Init
<1>6. RequestsSound
  BY <1>1 DEF RequestsSound, Sound, Accurate, Init, NoRequest
<1>7. SoldIsPaid
  BY ListingAssumptions DEF SoldIsPaid, Init, ClaimInit
<1> QED
  BY <1>3, <1>5, <1>6, <1>7 DEF IndInv, ChainFinal, RecordsTrue, QueueTrue

LEMMA StepInvariant ==
    ASSUME IndInv, [Next]_vars
    PROVE  IndInv'
<1>1. ASSUME NEW r \in Requests, RequestStep(r)
      PROVE  IndInv'
  BY <1>1, SettlementRefusedKeeps, CreateTransactionKeeps, RereadKeeps,
     SyncStepsKeep, BeginExecuteKeeps, AdoptRetryKeeps, SettleKeeps,
     CallContractKeeps, SettlementFailsKeeps, RecordingKeeps, QueueRetryKeeps,
     ReportKeeps, CancelRetryKeeps, CancelOnChainKeeps, RollBackOnChainKeeps,
     RelistKeeps, Zenon DEF RequestStep
<1>2. ASSUME NEW r \in Requests, NewRequest(r)
      PROVE  IndInv'
  BY <1>2, BuyKeeps, OpenKeeps DEF NewRequest
<1>3. CASE ListingStep
  BY <1>3, ListingKeepsInvariant
<1>4. CASE QueueStep
  BY <1>4, QueueKeepsInvariant DEF QueueStep, QueueNext
<1>5. CASE Crash
  BY <1>5, CrashKeepsInvariant
<1>6. CASE UNCHANGED vars
  <2>1. UNCHANGED <<claimVars, chain, tx, retry, job, request, crashes>>
    BY <1>6 DEF vars, retryVars
  <2> QED
    BY <2>1, RecordsAlone, RequestsAlone, RowStepKeeps
<1> QED
  BY <1>1, <1>2, <1>3, <1>4, <1>5, <1>6 DEF Next

LEMMA Invariant == Spec => []IndInv
<1>1. Init => IndInv
  BY InitInvariant
<1>2. IndInv /\ [Next]_vars => IndInv'
  BY StepInvariant
<1> QED
  BY <1>1, <1>2, PTL DEF Spec

(* Every variable keeps to its type, so no request ever follows a row to a *)
(* transaction, or a job to a record, that does not exist.                 *)
THEOREM PurchaseTypes == Spec => []TypeOK
<1>1. IndInv => TypeOK
  BY DEF IndInv
<1> QED
  BY <1>1, Invariant, PTL

(* The record of a transaction is never ahead of the contract.             *)
THEOREM RecordsFollow == Spec => []RecordNotAhead
<1>1. IndInv => RecordNotAhead
  BY DEF IndInv, RecordsTrue, Accurate, RecordNotAhead, Paid, Dead, Executable
<1> QED
  BY <1>1, Invariant, PTL

(* Nothing is sold that the contract did not execute a purchase of.        *)
THEOREM SoldListingsArePaid == Spec => []SoldIsPaid
<1>1. IndInv => SoldIsPaid
  BY DEF IndInv
<1> QED
  BY <1>1, Invariant, PTL
=============================================================================
