-------------------------- MODULE DisputeResolution --------------------------
(***************************************************************************)
(* Disputes (dispute_resolution.rs) and the one escrow path that may pay a *)
(* holding to somebody other than its depositor (settle_dispute_escrow of  *)
(* atomic_swap.rs).  A dispute names a transaction id; the escrow it       *)
(* settles is looked up among the swaps, so it is the escrow of the sale   *)
(* with that id, and the auction it is linked to is the auction with the   *)
(* same id, if there is one.                                               *)
(*                                                                         *)
(* The weighted shuffle that selects arbitrators is a nondeterministic     *)
(* choice here: below MAX_SELECTION_POOL entries every eligible arbitrator *)
(* is in the shuffled pool, so any set of the right size may be drawn.     *)
(* Signatures of oracles are taken as valid.                               *)
(***************************************************************************)
EXTENDS SaleEscrow, AuctionHouse

CONSTANTS
    MaxDisputes,        \* bound: disputes in a behaviour
    Arbitrators,        \* addresses that register as arbitrators
    Reputations,        \* initial_reputation arguments
    ReputationChanges,  \* reputation_change arguments
    Oracles,            \* addresses the dispute admins register as oracles
    AdminCandidates,    \* addresses added to the dispute admin registry
    ForcedResolutions,  \* resolution arguments of force_resolve and the oracle
    StartDisputeConfig, \* DisputeConfig::default()
    DisputeConfigs      \* configurations a dispute admin may submit

Resolutions == {"RefundBuyer", "ReleaseToSeller", "SplitFunds", "CancelTransaction"}
None == "NotResolved"

DisputeConfigType == [quorum : Nat, most : Nat, minReputation : Nat,
                      timeout : Nat, splitBps : Nat, default : Resolutions]

(* validate_dispute_config *)
ValidDisputeConfig(c) ==
    /\ c.quorum > 0 /\ c.quorum <= c.most
    /\ c.splitBps <= 10000

ASSUME DisputeAssumption ==
    /\ MaxDisputes \in Nat
    /\ Arbitrators \subseteq Users /\ Oracles \subseteq Users
    /\ AdminCandidates \subseteq Users
    /\ Reputations \subseteq Nat /\ ReputationChanges \subseteq Int
    /\ ForcedResolutions \subseteq Resolutions
    /\ DisputeConfigs \subseteq DisputeConfigType
    /\ StartDisputeConfig \in DisputeConfigType
    /\ ValidDisputeConfig(StartDisputeConfig)

VARIABLES
    nextDispute,    \* NEXT_DISPUTE_ID
    dispute,        \* DISPUTES
    arbitrator,     \* ARBITRATORS
    oracle,         \* ORACLES that are registered and active
    disputeAdmin,   \* DISPUTE_ADMINS
    disputeConfig   \* DISPUTE_CONFIG

disputeVars == <<nextDispute, dispute, arbitrator, oracle, disputeAdmin, disputeConfig>>
DisputeIds == 1..(nextDispute - 1)

(* The payments of a settled dispute are in the sale and auction state;    *)
(* `votes' maps the arbitrators who have voted to 0 or 1.                  *)
DisputeTypeOK ==
    /\ nextDispute \in 1..(MaxDisputes + 1)
    /\ DOMAIN dispute = DisputeIds
    /\ \A d \in DisputeIds :
          /\ dispute[d].transaction \in Nat
          /\ dispute[d].arbitrators \subseteq Users
          /\ dispute[d].resolution \in Resolutions \union {None}
          /\ dispute[d].votes \in
                [DOMAIN dispute[d].votes -> {0, 1}]
          /\ DOMAIN dispute[d].votes \subseteq dispute[d].arbitrators
    /\ \A a \in DOMAIN arbitrator :
          arbitrator[a] \in [score : Nat, handled : Nat, successes : Nat]
    /\ disputeConfig \in DisputeConfigType

DisputeInit ==
    /\ nextDispute = 1
    /\ dispute = [d \in {} |-> {}]
    /\ arbitrator = [a \in {} |-> {}]
    /\ oracle = {}
    /\ disputeAdmin = {}
    /\ disputeConfig = StartDisputeConfig

-----------------------------------------------------------------------------
(* Arbitrators. *)

Newcomer(reputation) == [score |-> reputation, handled |-> 0, successes |-> 0]

(* get_arbitrator: one that was never registered counts as a newcomer.     *)
ArbitratorOf(a) == IF a \in DOMAIN arbitrator THEN arbitrator[a] ELSE Newcomer(1000)

WithArbitrator(a, r) ==
    [x \in DOMAIN arbitrator \union {a} |-> IF x = a THEN r ELSE arbitrator[x]]

Eligible ==
    {a \in DOMAIN arbitrator : arbitrator[a].score >= disputeConfig.minReputation}

(* select_arbitrators *)
MaySelect(chosen) ==
    /\ chosen \subseteq Eligible
    /\ Cardinality(chosen) = IF Cardinality(Eligible) < disputeConfig.most
                             THEN Cardinality(Eligible) ELSE disputeConfig.most

(* update_arbitrator_reputations: the score becomes a success rate.        *)
Rated(a, success) ==
    LET handled == arbitrator[a].handled + 1
        successes == arbitrator[a].successes + (IF success THEN 1 ELSE 0)
    IN  [score |-> (successes * 100) \div handled,
         handled |-> handled, successes |-> successes]

AllRated(d, success) ==
    [a \in DOMAIN arbitrator |->
        IF a \in dispute[d].arbitrators THEN Rated(a, success) ELSE arbitrator[a]]

-----------------------------------------------------------------------------
(* Settlement: settle_dispute_escrow with payout_plan, the escrow release  *)
(* and the outcome on the sale record.  The parties are the holders of     *)
(* what is in escrow; a missing party is replaced by the other one.        *)
MarketFrame == UNCHANGED <<clockVars, accessVars, feeVars, nextSale, swapConfig, auctionVars>>

NftRecipient(w, resolution) ==
    IF resolution = "ReleaseToSeller" /\ Live(w.pay) THEN w.pay.holder ELSE w.nft.holder

(* The buyer's part of a live payment holding, rounded down, and the rest. *)
BuyerBps(resolution) ==
    CASE resolution = "ReleaseToSeller" -> 0
      [] resolution = "SplitFunds" -> disputeConfig.splitBps
      [] OTHER -> 10000

PaySplit(w, resolution) ==
    LET seller == IF Live(w.nft) THEN w.nft.holder ELSE w.pay.holder
        toBuyer == (w.pay.amount * BuyerBps(resolution)) \div 10000
    IN  PayOut(w.pay.holder, toBuyer, seller, w.pay.amount - toBuyer)

SettleEscrow(d, resolution) ==
    LET i == dispute[d].transaction
        w == swap[i]
    IN  /\ i \in SaleIds
        /\ Live(w.nft) \/ (Live(w.pay) /\ w.pay.amount > 0)
        /\ IF Live(w.nft) THEN MoveNft(w.nft.token, Contract, NftRecipient(w, resolution))
                          ELSE UNCHANGED owner
        /\ IF Live(w.pay) THEN PaySplit(w, resolution) ELSE UNCHANGED balance
        /\ FailSwaps({i})
        /\ sale' = [sale EXCEPT ![i].state =
              CASE @ = "Executed" -> @
                [] @ # "Executed" /\ resolution = "CancelTransaction" -> "Cancelled"
                [] OTHER -> "Resolved"]
        /\ MarketFrame

(* The escrow, the sales and the auctions are not touched. *)
NothingMoves == UNCHANGED <<assetVars, sale, swap>> /\ MarketFrame

DisputesOpen == ModuleOpen("disputes")
(* Mutant: a decision does not close the dispute. *)
UnresolvedUntilPaid(d) == ~dispute[d].settled

Unresolved(d) == dispute[d].resolution = None
Unsettled(d) == ~dispute[d].settled

-----------------------------------------------------------------------------
(* initiate_dispute: of any id, by anyone, once per id. *)
InitiateDispute(u, i) ==
    /\ nextDispute <= MaxDisputes
    /\ now + disputeConfig.timeout <= MaxTime
    /\ DisputesOpen
    /\ \A d \in DisputeIds : dispute[d].transaction # i
    /\ Eligible # {}
    /\ \E chosen \in SUBSET Eligible :
          /\ MaySelect(chosen)
          /\ dispute' = [d \in 1..nextDispute |-> IF d < nextDispute THEN dispute[d] ELSE
                [transaction |-> i, onAuction |-> i \in AuctionIds, initiator |-> u,
                 arbitrators |-> chosen, votes |-> [a \in {} |-> 0],
                 required |-> disputeConfig.quorum, createdAt |-> now,
                 resolution |-> None, settled |-> FALSE]]
    /\ nextDispute' = nextDispute + 1
    /\ UNCHANGED <<arbitrator, oracle, disputeAdmin, disputeConfig>>
    /\ NothingMoves

(* Mutant: half of the votes are enough. *)
OutcomeByHalf(votes) ==
    IF 2 * Cardinality({x \in DOMAIN votes : votes[x] = 1}) >= Cardinality(DOMAIN votes)
    THEN "RefundBuyer" ELSE "ReleaseToSeller"

(* try_resolve_dispute: a simple majority of the votes cast. *)
Outcome(votes) ==
    IF Cardinality({x \in DOMAIN votes : votes[x] = 1}) > Cardinality(DOMAIN votes) \div 2
    THEN "RefundBuyer" ELSE "ReleaseToSeller"

(* vote_on_dispute with try_resolve_dispute: the vote that completes the   *)
(* quorum decides.                                                         *)
VoteOnDispute(d, a, vote) ==
    LET votes == [x \in DOMAIN dispute[d].votes \union {a} |->
                    IF x = a THEN vote ELSE dispute[d].votes[x]]
        cast == Cardinality(DOMAIN votes)
        decided == cast >= dispute[d].required
    IN  /\ d \in DisputeIds
        /\ DisputesOpen
        /\ Unresolved(d)
        /\ a \in dispute[d].arbitrators \ DOMAIN dispute[d].votes
        /\ dispute' = [dispute EXCEPT ![d].votes = votes,
                          ![d].resolution = IF decided THEN Outcome(votes) ELSE None]
        /\ arbitrator' = IF decided THEN AllRated(d, TRUE) ELSE arbitrator
        /\ UNCHANGED <<nextDispute, oracle, disputeAdmin, disputeConfig>>
        /\ NothingMoves

(* force_resolve_dispute: decided and paid out in one call, or not at all. *)
ForceResolveDispute(d, admin, resolution) ==
    /\ d \in DisputeIds
    /\ DisputesOpen
    /\ admin \in disputeAdmin \union {Admin}
    /\ Unresolved(d) /\ Unsettled(d)
    /\ SettleEscrow(d, resolution)
    /\ dispute' = [dispute EXCEPT ![d].resolution = resolution, ![d].settled = TRUE]
    /\ arbitrator' = AllRated(d, TRUE)
    /\ UNCHANGED <<nextDispute, oracle, disputeAdmin, disputeConfig>>

(* submit_oracle_resolution: arbitrators are not rated. *)
SubmitOracleResolution(d, o, resolution) ==
    /\ d \in DisputeIds
    /\ DisputesOpen
    /\ o \in oracle
    /\ Unresolved(d) /\ Unsettled(d)
    /\ SettleEscrow(d, resolution)
    /\ dispute' = [dispute EXCEPT ![d].resolution = resolution, ![d].settled = TRUE]
    /\ UNCHANGED <<nextDispute, arbitrator, oracle, disputeAdmin, disputeConfig>>

(* execute_dispute_resolution: anyone, what was decided by vote. *)
ExecuteDisputeResolution(d) ==
    /\ d \in DisputeIds
    /\ DisputesOpen
    /\ ~Unresolved(d) /\ Unsettled(d)
    /\ SettleEscrow(d, dispute[d].resolution)
    /\ dispute' = [dispute EXCEPT ![d].settled = TRUE]
    /\ UNCHANGED <<nextDispute, arbitrator, oracle, disputeAdmin, disputeConfig>>

(* Mutant: only a dispute that was decided times out. *)
TimedOutDecided(d) ==
    /\ ~Unresolved(d)
    /\ now >= dispute[d].createdAt + disputeConfig.timeout

TimedOut(d) ==
    /\ disputeConfig.timeout > 0
    /\ now >= dispute[d].createdAt + disputeConfig.timeout

(* resolve_dispute_timeout: anyone, when the dispute is old enough under   *)
(* the timeout in force today; an undecided one gets the default outcome.  *)
ResolveDisputeTimeout(d) ==
    LET resolution == IF Unresolved(d) THEN disputeConfig.default
                                       ELSE dispute[d].resolution
    IN  /\ d \in DisputeIds
        /\ DisputesOpen
        /\ Unsettled(d)
        /\ TimedOut(d)
        /\ SettleEscrow(d, resolution)
        /\ dispute' = [dispute EXCEPT ![d].resolution = resolution, ![d].settled = TRUE]
        /\ arbitrator' = IF Unresolved(d) THEN AllRated(d, FALSE) ELSE arbitrator
        /\ UNCHANGED <<nextDispute, oracle, disputeAdmin, disputeConfig>>

-----------------------------------------------------------------------------
(* The registries.  Registering again starts an arbitrator's record anew.  *)

RegisterArbitrator(a, reputation) ==
    /\ arbitrator' = WithArbitrator(a, Newcomer(reputation))
    /\ UNCHANGED <<nextDispute, dispute, oracle, disputeAdmin, disputeConfig>>
    /\ NothingMoves

UpdateArbitratorReputation(a, change) ==
    /\ arbitrator' = WithArbitrator(a,
          [ArbitratorOf(a) EXCEPT !.score = AtLeast(@ + change, 0)])
    /\ UNCHANGED <<nextDispute, dispute, oracle, disputeAdmin, disputeConfig>>
    /\ NothingMoves

RegisterOracle(o, active) ==
    /\ oracle' = IF active THEN oracle \union {o} ELSE oracle \ {o}
    /\ UNCHANGED <<nextDispute, dispute, arbitrator, disputeAdmin, disputeConfig>>
    /\ NothingMoves

AddDisputeAdmin(u) ==
    /\ u \notin disputeAdmin
    /\ disputeAdmin' = disputeAdmin \union {u}
    /\ UNCHANGED <<nextDispute, dispute, arbitrator, oracle, disputeConfig>>
    /\ NothingMoves

RemoveDisputeAdmin(u) ==
    /\ u \in disputeAdmin
    /\ disputeAdmin' = disputeAdmin \ {u}
    /\ UNCHANGED <<nextDispute, dispute, arbitrator, oracle, disputeConfig>>
    /\ NothingMoves

UpdateDisputeConfig(c) ==
    /\ ValidDisputeConfig(c)
    /\ disputeConfig' = c
    /\ UNCHANGED <<nextDispute, dispute, arbitrator, oracle, disputeAdmin>>
    /\ NothingMoves

DisputeNext ==
    \/ \E u \in Users, i \in 1..MaxSales : InitiateDispute(u, i)
    \/ \E d \in 1..MaxDisputes, a \in Arbitrators, v \in {0, 1} : VoteOnDispute(d, a, v)
    \/ \E d \in 1..MaxDisputes, u \in Users, r \in ForcedResolutions :
          ForceResolveDispute(d, u, r)
    \/ \E d \in 1..MaxDisputes, o \in Oracles, r \in ForcedResolutions :
          SubmitOracleResolution(d, o, r)
    \/ \E d \in 1..MaxDisputes : ExecuteDisputeResolution(d)
    \/ \E d \in 1..MaxDisputes : ResolveDisputeTimeout(d)
    \/ \E a \in Arbitrators, r \in Reputations : RegisterArbitrator(a, r)
    \/ \E a \in Arbitrators, c \in ReputationChanges : UpdateArbitratorReputation(a, c)
    \/ \E o \in Oracles, active \in BOOLEAN : RegisterOracle(o, active)
    \/ \E u \in AdminCandidates : AddDisputeAdmin(u) \/ RemoveDisputeAdmin(u)
    \/ \E c \in DisputeConfigs : UpdateDisputeConfig(c)
=============================================================================
