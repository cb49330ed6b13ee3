---------------------------- MODULE ListingClaims ----------------------------
(***************************************************************************)
(* The listings table of the backend (listing.service.ts): a purchase      *)
(* claims a listing by reserving its row, and gives the row back, marks it *)
(* sold or leaves the reservation to the cron job, which releases          *)
(* reservations past their time to live and expires listings.              *)
(*                                                                         *)
(* The job reads and writes in separate statements, with requests in       *)
(* between; `cron' holds what it has read and not yet written.             *)
(***************************************************************************)
EXTENDS Naturals, FiniteSets

CONSTANTS
    Listings, Buyers, NoUser,
    ReservationTTL,     \* LISTING_RESERVATION_TTL_SECONDS
    Expiries,           \* expiry times a listing may have
    MaxTime             \* bound of the clock

ASSUME ListingAssumptions ==
    /\ NoUser \notin Buyers
    /\ ReservationTTL \in Nat /\ MaxTime \in Nat
    /\ Expiries \subseteq Nat

VARIABLES
    now,        \* time
    listing,    \* rows: status, expiry, and who reserved it when (reservedBy,
                \* reservedAt)
    cron        \* the expiry job: ids it found stale, rows it found expired
                \* (a function on their ids), not yet written back

claimVars == <<now, listing, cron>>

ListingStatuses == {"ACTIVE", "SOLD", "CANCELLED", "EXPIRED"}
Row == [status : ListingStatuses, expires : Expiries,
        by : Buyers \union {NoUser}, at : Nat]

ClaimTypeOK ==
    /\ now \in Nat
    /\ listing \in [Listings -> Row]
    /\ cron = [stale |-> cron.stale, rows |-> cron.rows]
    /\ cron.stale \subseteq Listings
    /\ DOMAIN cron.rows \subseteq Listings
    /\ cron.rows \in [DOMAIN cron.rows -> Row]

RowsOf(S) == [l \in S |-> listing[l]]
CronIdle == cron.stale = {} /\ DOMAIN cron.rows = {}

ClaimInit ==
    /\ now = 0
    /\ listing \in [Listings -> {[status |-> "ACTIVE", expires |-> e, by |-> NoUser,
                                  at |-> 0] : e \in Expiries}]
    /\ cron = [stale |-> {}, rows |-> RowsOf({})]

-----------------------------------------------------------------------------
Active(l) == listing[l].status = "ACTIVE"
Reserved(l) == listing[l].by # NoUser
(* Mutant: the cutoff compared the wrong way round. *)
StaleWhenNew(l) ==
    Active(l) /\ Reserved(l) /\ now < listing[l].at + ReservationTTL
Stale(l) == Active(l) /\ Reserved(l) /\ listing[l].at + ReservationTTL < now
PastExpiry(l) == Active(l) /\ listing[l].expires <= now

Unreserved(row) == [row EXCEPT !.by = NoUser, !.at = 0]

(* The row lock makes the availability check and the reservation one step. *)
ClaimListing(l, b) ==
    /\ Active(l) /\ ~Reserved(l) /\ now < listing[l].expires
    /\ listing' = [listing EXCEPT ![l].by = b, ![l].at = now]

(* The row after releaseReservation, whose condition makes it a no-op for  *)
(* anyone but the holder and for a listing no longer ACTIVE.               *)
Released(l, b) ==
    IF listing[l].by = b /\ Active(l)
    THEN [listing EXCEPT ![l] = Unreserved(@)]
    ELSE listing

MarkedSold(l) ==
    [listing EXCEPT ![l] = [Unreserved(@) EXCEPT !.status = "SOLD"]]

(* The seller's conditional update loses against any purchase that holds   *)
(* the row.                                                                *)
CancelListing(l) ==
    /\ Active(l) /\ ~Reserved(l)
    /\ listing' = [listing EXCEPT ![l].status = "CANCELLED"]
    /\ UNCHANGED <<now, cron>>

-----------------------------------------------------------------------------
(* Every minute: select the stale reservations ...                         *)
FindStale ==
    /\ CronIdle
    /\ \E l \in Listings : Stale(l)
    /\ cron' = [cron EXCEPT !.stale = {l \in Listings : Stale(l)}]
    /\ UNCHANGED <<now, listing>>

(* ... clear the rows with these ids, whoever holds them by now ...        *)
ClearStale ==
    /\ cron.stale # {}
    /\ listing' = [l \in Listings |->
                     IF l \in cron.stale /\ Active(l) THEN Unreserved(listing[l])
                     ELSE listing[l]]
    /\ cron' = [cron EXCEPT !.stale = {}]
    /\ UNCHANGED now

(* ... select the listings past their expiry, reserved ones too ...        *)
FindExpired ==
    /\ CronIdle
    /\ \E l \in Listings : PastExpiry(l)
    /\ cron' = [cron EXCEPT !.rows = RowsOf({l \in Listings : PastExpiry(l)})]
    /\ UNCHANGED <<now, listing>>

(* ... and save each row as it was read, with its new status.              *)
ExpireListing(l) ==
    /\ l \in DOMAIN cron.rows
    /\ listing' = [listing EXCEPT ![l] = [cron.rows[l] EXCEPT !.status = "EXPIRED"]]
    /\ cron' = [cron EXCEPT !.rows = [m \in DOMAIN @ \ {l} |-> @[m]]]
    /\ UNCHANGED now

Tick ==
    /\ now < MaxTime
    /\ now' = now + 1
    /\ UNCHANGED <<listing, cron>>

CronStep ==
    \/ FindStale \/ ClearStale \/ FindExpired
    \/ \E l \in Listings : ExpireListing(l)

ListingNext == CronStep \/ Tick \/ \E l \in Listings : CancelListing(l)
=============================================================================
