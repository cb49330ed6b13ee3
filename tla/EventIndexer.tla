----------------------------- MODULE EventIndexer -----------------------------
(***************************************************************************)
(* The job that copies the settlement contract's events into the table     *)
(* contract_events (contract-event-indexer.job.ts).  It runs every minute, *)
(* whether or not an earlier activation has ended, and on every instance:  *)
(* it loads a cursor, fetches the events from that ledger on, inserts them *)
(* in one database transaction and moves the cursor to the latest ledger.  *)
(*                                                                         *)
(* The events as the RPC server returns them carry no index within their   *)
(* transaction, so that all of a transaction's events have index 0.        *)
(***************************************************************************)
EXTENDS Naturals, FiniteSets

CONSTANTS
    Jobs,       \* activations that may be under way at the same time
    MaxLedger,  \* bound: ledgers
    MaxEvents,  \* bound: events
    PageSize    \* events in one answer of the RPC server

ASSUME IndexerAssumptions ==
    MaxLedger \in Nat \ {0} /\ MaxEvents \in Nat /\ PageSize \in Nat \ {0}

VARIABLES
    ledger,     \* latest closed ledger
    emitted,    \* events of the contract, numbered in their order
    cursor,     \* system_settings: last indexed ledger, 0 when there is no row
    stored,     \* contract_events
    job,        \* per activation: how far it is and what it knows
    lost        \* events the cursor was moved past knowingly (history)

vars == <<ledger, emitted, cursor, stored, job, lost>>

EventIds == 1..MaxEvents
Ledgers == 0..MaxLedger
Event == [id : EventIds, ledger : Ledgers, tx : EventIds]
JobRow ==
    [step : {"idle", "loaded", "fetched", "persisted", "advancing"},
     from : Ledgers, latest : Ledgers, page : SUBSET Event, missed : SUBSET Event]
NoJob == [step |-> "idle", from |-> 0, latest |-> 0, page |-> {}, missed |-> {}]

(* Indexing starts where an operator has put the cursor.                   *)
Init ==
    /\ ledger = 1
    /\ emitted = {}
    /\ cursor \in {0, 1}
    /\ stored = {}
    /\ job = [j \in Jobs |-> NoJob]
    /\ lost = {}

TypeOK ==
    /\ ledger \in Ledgers \ {0}
    /\ emitted \in SUBSET Event
    /\ cursor \in Ledgers
    /\ stored \in SUBSET Event
    /\ job \in [Jobs -> JobRow]
    /\ lost \in SUBSET Event

-----------------------------------------------------------------------------
At(j, step) == job[j].step = step
GoIdle(j) == job' = [job EXCEPT ![j] = NoJob]
NextId == Cardinality(emitted) + 1

(* A ledger closes, with n events of one transaction or of n.              *)
NewEvents(n, sameTx) ==
    {[id |-> i, ledger |-> ledger + 1, tx |-> IF sameTx THEN NextId ELSE i] :
        i \in NextId..(NextId + n - 1)}

CloseLedger ==
    /\ ledger < MaxLedger
    /\ ledger' = ledger + 1
    /\ \E n \in 0..2, sameTx \in BOOLEAN :
        /\ NextId + n - 1 <= MaxEvents
        /\ emitted' = emitted \union NewEvents(n, sameTx)
    /\ UNCHANGED <<cursor, stored, job, lost>>

-----------------------------------------------------------------------------
LoadCursor(j) ==
    /\ At(j, "idle")
    /\ job' = [job EXCEPT ![j] = [NoJob EXCEPT !.step = "loaded", !.from = cursor]]
    /\ UNCHANGED <<ledger, emitted, cursor, stored, lost>>

(* The server returns the first events from that ledger on, and the latest *)
(* ledger of the chain; it serves no request without a ledger to start at. *)
Since(from) == {e \in emitted : e.ledger >= from}
Page(from) ==
    {e \in Since(from) : Cardinality({f \in Since(from) : f.id < e.id}) < PageSize}

Fetch(j) ==
    /\ At(j, "loaded")
    /\ job[j].from > 0
    /\ job' = [job EXCEPT ![j] =
                 [step |-> "fetched", from |-> @.from, latest |-> ledger,
                  page |-> Page(@.from), missed |-> Since(@.from) \ Page(@.from)]]
    /\ UNCHANGED <<ledger, emitted, cursor, stored, lost>>

(* Mutant: the failure is taken for an answer without events.              *)
FetchFailsUnnoticed(j) ==
    /\ At(j, "loaded")
    /\ job' = [job EXCEPT ![j].step = "fetched", ![j].latest = ledger]
    /\ UNCHANGED <<ledger, emitted, cursor, stored, lost>>
FetchFails(j) ==
    /\ At(j, "loaded")
    /\ GoIdle(j)
    /\ UNCHANGED <<ledger, emitted, cursor, stored, lost>>

(* An insert is ignored when its transaction and index are there already.  *)
Inserted(page) ==
    {e \in page : /\ \A s \in stored : s.tx # e.tx
                  /\ \A f \in page : f.tx = e.tx => f.id >= e.id}

Persist(j) ==
    /\ At(j, "fetched")
    /\ stored' = stored \union Inserted(job[j].page)
    /\ job' = [job EXCEPT ![j].step = "persisted"]
    /\ UNCHANGED <<ledger, emitted, cursor, lost>>

(* The database refuses one insert.  The error is caught, but has aborted  *)
(* the transaction: what follows, the dead letter included, fails, and the *)
(* commit at the end rolls everything back without an error.               *)
PersistRefused(j) ==
    /\ At(j, "fetched")
    /\ job[j].page # {}
    /\ job' = [job EXCEPT ![j].step = "persisted", ![j].missed = @ \union job[j].page]
    /\ UNCHANGED <<ledger, emitted, cursor, stored, lost>>

(* The transaction cannot be begun or committed.                           *)
PersistFails(j) ==
    /\ At(j, "fetched")
    /\ job[j].page # {}
    /\ GoIdle(j)
    /\ UNCHANGED <<ledger, emitted, cursor, stored, lost>>

(* The cursor is read once more, and saved when it is behind.              *)
(* Mutant: the comparison turned round.                                    *)
NotBehindReversed(j) == job[j].latest >= cursor
NotBehind(j) == job[j].latest <= cursor
AdvanceCursor(j) ==
    /\ At(j, "persisted")
    /\ IF NotBehind(j) THEN GoIdle(j) ELSE job' = [job EXCEPT ![j].step = "advancing"]
    /\ UNCHANGED <<ledger, emitted, cursor, stored, lost>>

SaveCursor(j) ==
    /\ At(j, "advancing")
    /\ cursor' = job[j].latest
    /\ lost' = lost \union job[j].missed
    /\ GoIdle(j)
    /\ UNCHANGED <<ledger, emitted, stored>>

(* The instance stops, or the settings cannot be read or written.          *)
Crash(j) ==
    /\ ~At(j, "idle")
    /\ GoIdle(j)
    /\ UNCHANGED <<ledger, emitted, cursor, stored, lost>>

-----------------------------------------------------------------------------
Step(j) ==
    \/ LoadCursor(j) \/ Fetch(j) \/ FetchFails(j)
    \/ Persist(j) \/ PersistRefused(j) \/ PersistFails(j)
    \/ AdvanceCursor(j) \/ SaveCursor(j) \/ Crash(j)

Next == CloseLedger \/ \E j \in Jobs : Step(j)

Spec == Init /\ [][Next]_vars

(* The job is started every minute, and server and database, asked again   *)
(* and again, answer some time.                                            *)
FairSpec ==
    /\ Spec
    /\ \A j \in Jobs :
        /\ WF_vars(LoadCursor(j))
        /\ SF_vars(Fetch(j))
        /\ SF_vars(Persist(j))
        /\ SF_vars(AdvanceCursor(j))
        /\ SF_vars(SaveCursor(j))

-----------------------------------------------------------------------------
(* A transaction is recorded by the first of its events.                   *)
Recorded(e) == \E s \in stored : s.tx = e.tx

(* Whatever fails between fetching, storing and moving the cursor, however *)
(* activations overlap and even when one of them moves the cursor back, no *)
(* event at or behind the cursor is missing, but for those of a batch that *)
(* the database refused or beyond a full page (handleIndexing).            *)
NothingSkipped ==
    \A e \in emitted : e.ledger <= cursor => Recorded(e) \/ e \in lost

(* Once there is a cursor, every transaction is recorded or lost in one of *)
(* these two ways: failures alone delay it (handleIndexing).               *)
EventsRecorded ==
    \A i \in EventIds :
        (cursor # 0 /\ \E e \in emitted : e.id = i)
            ~> \E e \in emitted : e.id = i /\ (Recorded(e) \/ e \in lost)
=============================================================================
