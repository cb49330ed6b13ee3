-------------------------- MODULE EventIndexer_proofs --------------------------
(***************************************************************************)
(* Proof that the indexer skips no event silently.  What is known of the   *)
(* cursor is known of every ledger up to which an activation may move it.  *)
(***************************************************************************)
EXTENDS EventIndexer, FiniteSetTheorems, WellFoundedInduction, TLAPS

Accounted(e) == Recorded(e) \/ e \in lost

(* No event is ahead of the chain, and nobody believes the chain further.  *)
Behind ==
    /\ IsFiniteSet(emitted)
    /\ \A e \in emitted : e.ledger <= ledger
    /\ cursor <= ledger
    /\ \A j \in Jobs : job[j].from <= ledger /\ job[j].latest <= ledger

(* Where an activation starts, all earlier events are accounted for; with  *)
(* its answer it has all others.                                           *)
StartsCovered ==
    \A j \in Jobs : job[j].step \in {"loaded", "fetched"} =>
        \A e \in emitted : e.ledger <= job[j].from => Accounted(e)
AnswerComplete ==
    \A j \in Jobs : job[j].step = "fetched" =>
        \A e \in emitted : job[j].from <= e.ledger /\ e.ledger <= job[j].latest
            => e \in job[j].page \union job[j].missed
(* What an activation moves the cursor to is accounted for or missed.      *)
TargetCovered ==
    \A j \in Jobs : job[j].step \in {"persisted", "advancing"} =>
        \A e \in emitted : e.ledger <= job[j].latest
            => Accounted(e) \/ e \in job[j].missed

IndInv ==
    TypeOK /\ Behind /\ NothingSkipped /\ StartsCovered /\ AnswerComplete /\ TargetCovered

-----------------------------------------------------------------------------
(* A nonempty set of events has a first one.                               *)
LEMMA FirstEvent ==
    ASSUME NEW S \in SUBSET Event, S # {}
    PROVE  \E e \in S : \A f \in S : f.id >= e.id
<1> DEFINE T == {e.id : e \in S}
<1>1. T \subseteq Nat /\ T # {}
  BY DEF Event, EventIds
<1>2. \E x \in T : \A y \in T : ~(<<y, x>> \in OpToRel(<, Nat))
  BY <1>1, WFMin, NatLessThanWellFounded, Zenon
<1>3. PICK x \in T : \A y \in T : ~(<<y, x>> \in OpToRel(<, Nat))
  BY <1>2
<1>4. \A y \in T : ~(y < x)
  BY <1>1, <1>3 DEF OpToRel
<1>5. PICK e \in S : e.id = x
  OBVIOUS
<1>6. ASSUME NEW f \in S PROVE f.id >= e.id
  <2>1. f.id \in T /\ f.id \in Nat /\ e.id \in Nat
    BY <1>1
  <2> QED
    BY <2>1, <1>4, <1>5
<1> QED
  BY <1>5, <1>6

(* The inserts of a page leave each of its transactions recorded.          *)
LEMMA PageRecorded ==
    ASSUME NEW page \in SUBSET Event, NEW e \in page
    PROVE  \E s \in stored \union Inserted(page) : s.tx = e.tx
<1> DEFINE S == {f \in page : f.tx = e.tx}
<1>1. CASE \E s \in stored : s.tx = e.tx
  BY <1>1
<1>2. CASE \A s \in stored : s.tx # e.tx
  <2>1. PICK f \in S : \A g \in S : g.id >= f.id
    <3>1. S \in SUBSET Event /\ S # {}
      OBVIOUS
    <3> HIDE DEF S
    <3> QED
      BY <3>1, FirstEvent
  <2>2. f \in Inserted(page)
    BY <1>2, <2>1 DEF Inserted
  <2> QED
    BY <2>2
<1> QED
  BY <1>1, <1>2

-----------------------------------------------------------------------------
LEMMA InitInv == Init => IndInv
<1> SUFFICES ASSUME Init PROVE IndInv
  OBVIOUS
<1>1. TypeOK
  BY IndexerAssumptions DEF Init, TypeOK, JobRow, NoJob, Ledgers
<1>2. Behind
  BY FS_EmptySet DEF Init, Behind, NoJob
<1> QED
  BY <1>1, <1>2
     DEF Init, IndInv, NothingSkipped, StartsCovered, AnswerComplete, TargetCovered, NoJob

(* A ledger closes: what is new is ahead of all that is known.             *)
LEMMA CloseLedgerKeeps == IndInv /\ CloseLedger => IndInv'
<1> SUFFICES ASSUME IndInv, CloseLedger PROVE IndInv'
  OBVIOUS
<1> USE DEF IndInv
<1>1. PICK n \in 0..2, sameTx \in BOOLEAN :
         /\ NextId + n - 1 <= MaxEvents
         /\ emitted' = emitted \union NewEvents(n, sameTx)
  BY DEF CloseLedger
<1>2. NextId \in Nat \ {0} /\ ledger \in Nat /\ ledger' = ledger + 1 /\ ledger' \in Ledgers \ {0}
  BY FS_CardinalityType, IndexerAssumptions
     DEF Behind, NextId, TypeOK, Ledgers, CloseLedger
<1>3. \A e \in NewEvents(n, sameTx) : e \in Event /\ e.ledger = ledger + 1
  BY <1>1, <1>2, IndexerAssumptions DEF NewEvents, Event, EventIds, Ledgers, CloseLedger
<1>4. TypeOK'
  BY <1>1, <1>2, <1>3 DEF TypeOK, CloseLedger
<1>5. IsFiniteSet(NewEvents(n, sameTx))
  <2>1. IsFiniteSet(NextId..(NextId + n - 1))
    BY <1>2, FS_Interval
  <2> DEFINE New(i) == [id |-> i, ledger |-> ledger + 1,
                        tx |-> IF sameTx THEN NextId ELSE i]
  <2>2. NewEvents(n, sameTx) = {New(i) : i \in NextId..(NextId + n - 1)}
    BY DEF NewEvents
  <2> DEFINE f == [i \in NextId..(NextId + n - 1) |-> New(i)]
  <2>3. NewEvents(n, sameTx) = {f[i] : i \in NextId..(NextId + n - 1)}
    BY <2>2
  <2>4. f \in Surjection(NextId..(NextId + n - 1), NewEvents(n, sameTx))
    BY <2>3 DEF Surjection
  <2> QED
    BY <2>1, <2>4, FS_Surjection
<1>6. Behind'
  <2>1. IsFiniteSet(emitted')
    BY <1>1, <1>5, FS_Union DEF Behind
  <2>2. \A e \in emitted' : e.ledger <= ledger'
    BY <1>1, <1>2, <1>3 DEF Behind, TypeOK, Event, Ledgers
  <2>3. /\ cursor' <= ledger'
       /\ \A j \in Jobs : job'[j].from <= ledger' /\ job'[j].latest <= ledger'
    BY <1>2 DEF Behind, TypeOK, CloseLedger, Ledgers, JobRow
  <2> QED
    BY <2>1, <2>2, <2>3 DEF Behind
<1>7. UNCHANGED <<cursor, stored, job, lost>>
  BY DEF CloseLedger
<1>8. \A e \in emitted' : e \in emitted \/ e.ledger = ledger + 1
  BY <1>1, <1>3
<1>9. cursor <= ledger /\ cursor \in Nat
  BY DEF Behind, TypeOK, Ledgers
<1>10. NothingSkipped'
  BY <1>2, <1>7, <1>8, <1>9 DEF NothingSkipped, Recorded
<1>11. \A j \in Jobs : /\ job[j].from <= ledger /\ job[j].latest <= ledger
                       /\ job[j].from \in Nat /\ job[j].latest \in Nat
  BY DEF Behind, TypeOK, JobRow, Ledgers
<1>12. \A e : Accounted(e)' <=> Accounted(e)
  BY <1>7 DEF Accounted, Recorded
<1>13. StartsCovered'
  BY <1>2, <1>7, <1>8, <1>11, <1>12 DEF StartsCovered
<1>14. AnswerComplete'
  BY <1>2, <1>7, <1>8, <1>11 DEF AnswerComplete
<1>15. TargetCovered'
  BY <1>2, <1>7, <1>8, <1>11, <1>12 DEF TargetCovered
<1> QED
  BY <1>4, <1>6, <1>10, <1>13, <1>14, <1>15

-----------------------------------------------------------------------------
(* A step of an activation that only forgets what it knew.                 *)
LEMMA GoIdleKeeps ==
    ASSUME IndInv, NEW j \in Jobs, GoIdle(j),
           UNCHANGED <<ledger, emitted, cursor, stored, lost>>
    PROVE  IndInv'
<1> USE DEF IndInv
<1>1. NoJob \in JobRow
  BY IndexerAssumptions DEF NoJob, JobRow, Ledgers
<1>2. TypeOK'
  BY <1>1 DEF TypeOK, GoIdle
<1>3. \A k \in Jobs : job'[k] = job[k] \/ job'[k] = NoJob
  BY DEF GoIdle, TypeOK
<1>4. Behind'
  <2>1. ledger \in Nat
    BY DEF TypeOK, Ledgers
  <2> QED
    BY <1>3, <2>1 DEF Behind, NoJob
<1>5. NothingSkipped'
  BY DEF NothingSkipped, Recorded
<1>6. StartsCovered' /\ AnswerComplete' /\ TargetCovered'
  BY <1>3 DEF StartsCovered, AnswerComplete, TargetCovered, Accounted, Recorded, NoJob
<1> QED
  BY <1>2, <1>4, <1>5, <1>6

LEMMA LoadCursorKeeps == \A j \in Jobs : IndInv /\ LoadCursor(j) => IndInv'
<1> SUFFICES ASSUME NEW j \in Jobs, IndInv, LoadCursor(j) PROVE IndInv'
  OBVIOUS
<1> USE DEF IndInv
<1>1. PICK q : q = [NoJob EXCEPT !.step = "loaded", !.from = cursor]
  OBVIOUS
<1>2. q = [step |-> "loaded", from |-> cursor, latest |-> 0, page |-> {}, missed |-> {}]
  BY <1>1 DEF NoJob
<1>3. job' = [job EXCEPT ![j] = q] /\ UNCHANGED <<ledger, emitted, cursor, stored, lost>>
  BY <1>1 DEF LoadCursor
<1>4. TypeOK'
  BY <1>2, <1>3, IndexerAssumptions DEF TypeOK, JobRow, Ledgers
<1>5. \A k \in Jobs : job'[k] = IF k = j THEN q ELSE job[k]
  BY <1>3 DEF TypeOK
<1>6. Behind'
  BY <1>2, <1>3, <1>5 DEF Behind, TypeOK, Ledgers
<1>7. NothingSkipped'
  BY <1>3 DEF NothingSkipped, Recorded
<1>8. StartsCovered' /\ AnswerComplete' /\ TargetCovered'
  BY <1>2, <1>3, <1>5
     DEF StartsCovered, AnswerComplete, TargetCovered, Accounted, Recorded, NothingSkipped
<1> QED
  BY <1>4, <1>6, <1>7, <1>8

LEMMA FetchKeeps == \A j \in Jobs : IndInv /\ Fetch(j) => IndInv'
<1> SUFFICES ASSUME NEW j \in Jobs, IndInv, Fetch(j) PROVE IndInv'
  OBVIOUS
<1> USE DEF IndInv
<1> DEFINE F == job[j].from
<1>1. PICK q : q = [step |-> "fetched", from |-> F, latest |-> ledger,
                    page |-> Page(F), missed |-> Since(F) \ Page(F)]
  OBVIOUS
<1>2. job' = [job EXCEPT ![j] = q] /\ UNCHANGED <<ledger, emitted, cursor, stored, lost>>
  BY <1>1 DEF Fetch, TypeOK
<1>3. Page(F) \subseteq Since(F) /\ Since(F) \subseteq emitted
  BY DEF Page, Since
<1>4. TypeOK'
  BY <1>1, <1>2, <1>3 DEF TypeOK, JobRow, Ledgers
<1>5. \A k \in Jobs : job'[k] = IF k = j THEN q ELSE job[k]
  BY <1>2 DEF TypeOK
<1>6. Behind'
  BY <1>1, <1>2, <1>5 DEF Behind, TypeOK, Ledgers
<1>7. NothingSkipped'
  BY <1>2 DEF NothingSkipped, Recorded
<1>8. \A e \in emitted : F <= e.ledger => e \in Page(F) \union (Since(F) \ Page(F))
  <2>1. \A e \in emitted : F <= e.ledger => e \in Since(F)
    BY DEF Since, TypeOK, JobRow, Event, Ledgers
  <2> QED
    BY <2>1
<1>9. StartsCovered' /\ TargetCovered'
  BY <1>1, <1>2, <1>5 DEF StartsCovered, TargetCovered, Accounted, Recorded, Fetch, At
<1>10. AnswerComplete'
  BY <1>1, <1>2, <1>5, <1>8 DEF AnswerComplete
<1> QED
  BY <1>4, <1>6, <1>7, <1>9, <1>10

LEMMA PersistKeeps == \A j \in Jobs : IndInv /\ Persist(j) => IndInv'
<1> SUFFICES ASSUME NEW j \in Jobs, IndInv, Persist(j) PROVE IndInv'
  OBVIOUS
<1> USE DEF IndInv
<1> DEFINE P == job[j].page
<1>1. PICK q : q = [job[j] EXCEPT !.step = "persisted"]
  OBVIOUS
<1>2. job' = [job EXCEPT ![j] = q] /\ UNCHANGED <<ledger, emitted, cursor, lost>>
  BY <1>1 DEF Persist, TypeOK
<1>3. job[j] \in JobRow /\ job[j].step = "fetched"
  BY DEF TypeOK, Persist, At
<1>4. q \in JobRow /\ q.step = "persisted" /\ q.from = job[j].from
        /\ q.latest = job[j].latest /\ q.page = P /\ q.missed = job[j].missed
  BY <1>1, <1>3 DEF JobRow
<1>5. stored' = stored \union Inserted(P) /\ P \in SUBSET Event
  BY <1>3 DEF Persist, JobRow
<1>6. TypeOK'
  <2>1. Inserted(P) \subseteq P
    BY DEF Inserted
  <2> QED
    BY <1>2, <1>4, <1>5, <2>1 DEF TypeOK
<1>7. \A k \in Jobs : job'[k] = IF k = j THEN q ELSE job[k]
  BY <1>2 DEF TypeOK
<1>8. Behind'
  BY <1>2, <1>4, <1>7 DEF Behind
<1>9. \A e : Accounted(e) => Accounted(e)'
  BY <1>2, <1>5 DEF Accounted, Recorded
<1>10. \A e \in P : Accounted(e)'
  BY <1>5, PageRecorded DEF Accounted, Recorded
<1>11. NothingSkipped'
  BY <1>2, <1>9 DEF NothingSkipped, Accounted
<1>12. StartsCovered' /\ AnswerComplete'
  BY <1>2, <1>4, <1>7, <1>9 DEF StartsCovered, AnswerComplete
<1>13. \A e \in emitted : e.ledger <= q.latest => Accounted(e)' \/ e \in q.missed
  <2> SUFFICES ASSUME NEW e \in emitted, e.ledger <= q.latest
               PROVE  Accounted(e)' \/ e \in q.missed
    OBVIOUS
  <2>1. CASE e.ledger <= job[j].from
    BY <1>3, <1>9, <2>1 DEF StartsCovered
  <2>2. CASE job[j].from <= e.ledger
    BY <1>3, <1>4, <1>10, <2>2 DEF AnswerComplete
  <2>3. e.ledger \in Nat /\ job[j].from \in Nat
    BY <1>3 DEF TypeOK, Event, JobRow, Ledgers
  <2> QED
    BY <2>1, <2>2, <2>3
<1>14. TargetCovered'
  BY <1>2, <1>7, <1>9, <1>13 DEF TargetCovered
<1> QED
  BY <1>6, <1>8, <1>11, <1>12, <1>14

LEMMA PersistRefusedKeeps == \A j \in Jobs : IndInv /\ PersistRefused(j) => IndInv'
<1> SUFFICES ASSUME NEW j \in Jobs, IndInv, PersistRefused(j) PROVE IndInv'
  OBVIOUS
<1> USE DEF IndInv
<1>1. PICK q : q = [job[j] EXCEPT !.step = "persisted", !.missed = @ \union job[j].page]
  OBVIOUS
<1>2. job' = [job EXCEPT ![j] = q] /\ UNCHANGED <<ledger, emitted, cursor, stored, lost>>
  BY <1>1 DEF PersistRefused, TypeOK
<1>3. job[j] \in JobRow /\ job[j].step = "fetched"
  BY DEF TypeOK, PersistRefused, At
<1>4. q \in JobRow /\ q.step = "persisted" /\ q.from = job[j].from
        /\ q.latest = job[j].latest /\ q.missed = job[j].missed \union job[j].page
  BY <1>1, <1>3 DEF JobRow
<1>5. TypeOK'
  BY <1>2, <1>4 DEF TypeOK
<1>6. \A k \in Jobs : job'[k] = IF k = j THEN q ELSE job[k]
  BY <1>2 DEF TypeOK
<1>7. Behind'
  BY <1>2, <1>4, <1>6 DEF Behind
<1>8. \A e : Accounted(e)' <=> Accounted(e)
  BY <1>2 DEF Accounted, Recorded
<1>9. NothingSkipped'
  BY <1>2, <1>8 DEF NothingSkipped, Accounted
<1>10. StartsCovered' /\ AnswerComplete'
  BY <1>2, <1>4, <1>6, <1>8 DEF StartsCovered, AnswerComplete
<1>11. \A e \in emitted : e.ledger <= q.latest => Accounted(e) \/ e \in q.missed
  <2> SUFFICES ASSUME NEW e \in emitted, e.ledger <= q.latest
               PROVE  Accounted(e) \/ e \in q.missed
    OBVIOUS
  <2>1. CASE e.ledger <= job[j].from
    BY <1>3, <2>1 DEF StartsCovered
  <2>2. CASE job[j].from <= e.ledger
    BY <1>3, <1>4, <2>2 DEF AnswerComplete
  <2>3. e.ledger \in Nat /\ job[j].from \in Nat
    BY <1>3 DEF TypeOK, Event, JobRow, Ledgers
  <2> QED
    BY <2>1, <2>2, <2>3
<1>12. TargetCovered'
  BY <1>2, <1>6, <1>8, <1>11 DEF TargetCovered
<1> QED
  BY <1>5, <1>7, <1>9, <1>10, <1>12

LEMMA AdvanceCursorKeeps == \A j \in Jobs : IndInv /\ AdvanceCursor(j) => IndInv'
<1> SUFFICES ASSUME NEW j \in Jobs, IndInv, AdvanceCursor(j), ~NotBehind(j) PROVE IndInv'
  BY GoIdleKeeps DEF AdvanceCursor
<1> USE DEF IndInv
<1>1. PICK q : q = [job[j] EXCEPT !.step = "advancing"]
  OBVIOUS
<1>2. job' = [job EXCEPT ![j] = q] /\ UNCHANGED <<ledger, emitted, cursor, stored, lost>>
  BY <1>1 DEF AdvanceCursor, TypeOK
<1>3. job[j] \in JobRow /\ job[j].step = "persisted"
  BY DEF TypeOK, AdvanceCursor, At
<1>4. q \in JobRow /\ q.step = "advancing" /\ q.from = job[j].from
        /\ q.latest = job[j].latest /\ q.missed = job[j].missed
  BY <1>1, <1>3 DEF JobRow
<1>5. TypeOK'
  BY <1>2, <1>4 DEF TypeOK
<1>6. \A k \in Jobs : job'[k] = IF k = j THEN q ELSE job[k]
  BY <1>2 DEF TypeOK
<1>7. Behind'
  BY <1>2, <1>4, <1>6 DEF Behind
<1>8. \A e : Accounted(e)' <=> Accounted(e)
  BY <1>2 DEF Accounted, Recorded
<1>9. NothingSkipped'
  BY <1>2, <1>8 DEF NothingSkipped, Accounted
<1>10. StartsCovered' /\ AnswerComplete'
  BY <1>2, <1>4, <1>6, <1>8 DEF StartsCovered, AnswerComplete
<1>11. TargetCovered'
  BY <1>2, <1>3, <1>4, <1>6, <1>8 DEF TargetCovered
<1> QED
  BY <1>5, <1>7, <1>9, <1>10, <1>11

LEMMA SaveCursorKeeps == \A j \in Jobs : IndInv /\ SaveCursor(j) => IndInv'
<1> SUFFICES ASSUME NEW j \in Jobs, IndInv, SaveCursor(j) PROVE IndInv'
  OBVIOUS
<1> USE DEF IndInv
<1>1. job[j] \in JobRow /\ job[j].step = "advancing"
  BY DEF TypeOK, SaveCursor, At
<1>2. /\ cursor' = job[j].latest
      /\ lost' = lost \union job[j].missed
      /\ job' = [job EXCEPT ![j] = NoJob]
      /\ UNCHANGED <<ledger, emitted, stored>>
  BY DEF SaveCursor, GoIdle
<1>3. TypeOK'
  <2>1. NoJob \in JobRow
    BY IndexerAssumptions DEF NoJob, JobRow, Ledgers
  <2> QED
    BY <1>1, <1>2, <2>1 DEF TypeOK, JobRow
<1>4. \A k \in Jobs : job'[k] = job[k] \/ job'[k] = NoJob
  BY <1>2 DEF TypeOK
<1>5. Behind'
  <2>1. ledger \in Nat
    BY DEF TypeOK, Ledgers
  <2> QED
    BY <1>2, <1>4, <2>1 DEF Behind, NoJob
<1>6. \A e : Accounted(e) => Accounted(e)'
  BY <1>2 DEF Accounted, Recorded
<1>7. NothingSkipped'
  BY <1>1, <1>2, <1>6 DEF TargetCovered, NothingSkipped, Accounted
<1>8. StartsCovered' /\ AnswerComplete' /\ TargetCovered'
  BY <1>2, <1>4, <1>6 DEF StartsCovered, AnswerComplete, TargetCovered, NoJob
<1> QED
  BY <1>3, <1>5, <1>7, <1>8

-----------------------------------------------------------------------------
(* The inductive invariant holds in every reachable state.                 *)
THEOREM IndexerInvariant == Spec => []IndInv
<1>1. IndInv /\ [Next]_vars => IndInv'
  <2> SUFFICES ASSUME IndInv, [Next]_vars PROVE IndInv'
    OBVIOUS
  <2>1. CASE CloseLedger
    BY <2>1, CloseLedgerKeeps
  <2>2. ASSUME NEW j \in Jobs, Step(j) PROVE IndInv'
    <3>1. CASE FetchFails(j)
      BY <3>1, GoIdleKeeps DEF FetchFails
    <3>2. CASE PersistFails(j)
      BY <3>2, GoIdleKeeps DEF PersistFails
    <3>3. CASE Crash(j)
      BY <3>3, GoIdleKeeps DEF Crash
    <3> QED
      BY <2>2, <3>1, <3>2, <3>3, LoadCursorKeeps, FetchKeeps, PersistKeeps,
         PersistRefusedKeeps, AdvanceCursorKeeps, SaveCursorKeeps DEF Step
  <2>3. CASE UNCHANGED vars
    BY <2>3 DEF vars, IndInv, TypeOK, Behind, NothingSkipped, StartsCovered,
               AnswerComplete, TargetCovered, Accounted, Recorded
  <2> QED
    BY <2>1, <2>2, <2>3 DEF Next
<1> QED
  BY <1>1, InitInv, PTL DEF Spec

(* For any number of overlapping activations, ledgers and events and any   *)
(* size of a page, every event at or behind the cursor is recorded, or was *)
(* in a refused batch or beyond a full page (handleIndexing).              *)
THEOREM EventsAreNotSkipped == Spec => []NothingSkipped
<1>1. IndInv => NothingSkipped
  BY DEF IndInv
<1> QED
  BY <1>1, IndexerInvariant, PTL
=============================================================================
