---------------------------- MODULE AuctionHouse ----------------------------
(***************************************************************************)
(* Auctions (auction_engine.rs, storage/auction_store.rs) with the         *)
(* front-running detector they consult (security/frontrun_protection.rs).  *)
(*                                                                         *)
(* Bids are escrowed in the contract and pushed back when they are outbid. *)
(* The refund flag lives in the bid history and is looked up by bidder:    *)
(* the history may hold several bids of one bidder, the flag of the first  *)
(* speaks for all of them.  Commit-reveal is switched off at               *)
(* initialization and no entrypoint switches it on, so reveal_bid always   *)
(* fails and every bid is a direct one.                                    *)
(***************************************************************************)
EXTENDS FeeManager

CONSTANTS
    MaxAuctions,        \* bound: auctions created in a behaviour
    StartPrices,        \* starting_price arguments of create_auction
    Reserves,           \* reserve_price arguments
    AuctionDurations,   \* duration_seconds arguments
    Increments,         \* bid_increment arguments
    Kinds,              \* auction types created: "English", "Dutch"
    BidAmounts,         \* bid_amount arguments of place_bid
    MaxAuctionDuration, \* 604800
    ExtensionWindow,    \* 300
    MinIncrementBps,    \* 100
    MinimumBidAmount,   \* 100000
    MaxBidsPerAuction,  \* 100
    RapidWindow,        \* 60
    TimingSlack         \* 5

ASSUME AuctionAssumption ==
    /\ MaxAuctions \in Nat
    /\ StartPrices \subseteq Int /\ Reserves \subseteq Int
    /\ AuctionDurations \subseteq Nat /\ Increments \subseteq Int
    /\ Kinds \subseteq {"English", "Dutch"}
    /\ BidAmounts \subseteq Int
    /\ MaxAuctionDuration \in Nat /\ ExtensionWindow \in Nat
    /\ MinIncrementBps \in Nat
    /\ MinimumBidAmount \in Nat \ {0}
    /\ MaxBidsPerAuction \in Nat /\ RapidWindow \in Nat /\ TimingSlack \in Nat

VARIABLES
    nextAuction, \* NEXT_AUCTION_ID
    auction,     \* AUCTIONS
    bids,        \* AUCTION_BIDS, the bid history of each auction
    dutch        \* DUTCH_AUCTIONS, only for auctions of that type

auctionVars == <<nextAuction, auction, bids, dutch>>
AuctionIds == 1..(nextAuction - 1)

AuctionStates == {"Pending", "Executed", "Cancelled", "Resolved"}
Auctions == [seller : Users, token : Tokens, starting : Nat, reserve : Nat,
             highest : Nat, bidder : Users \union {NoUser}, increment : Nat,
             endTime : Nat, state : AuctionStates]
BidRecords == [bidder : Users, amount : Nat, at : Nat, refunded : BOOLEAN]

AuctionTypeOK ==
    /\ nextAuction \in 1..(MaxAuctions + 1)
    /\ auction \in [AuctionIds -> Auctions]
    /\ bids \in [AuctionIds -> Seq(BidRecords)]
    /\ dutch \in [DOMAIN dutch -> [price : Int, updated : Nat]]
    /\ DOMAIN dutch \subseteq AuctionIds

AuctionInit ==
    /\ nextAuction = 1
    /\ auction = [i \in {} |-> {}]
    /\ bids = [i \in {} |-> {}]
    /\ dutch = [i \in {} |-> {}]

-----------------------------------------------------------------------------
(* The bid history. *)

BidsBy(i, u) == {k \in DOMAIN bids[i] : bids[i][k].bidder = u}
FirstBy(i, u) == CHOOSE k \in BidsBy(i, u) : \A j \in BidsBy(i, u) : k <= j

(* mark_bid_refunded stops at the bidder's first bid, and refuses when     *)
(* that one has been refunded before.                                      *)
Refundable(i, u) ==
    BidsBy(i, u) # {} /\ ~bids[i][FirstBy(i, u)].refunded

(* Mutant: the bid paid back is not marked. *)
RefundedUnmarked(i, u) == bids[i]

Refunded(i, u) == [bids[i] EXCEPT ![FirstBy(i, u)].refunded = TRUE]

HasBidder(i) == auction[i].bidder # NoUser
Pending(i) == auction[i].state = "Pending"

OpenAuctions == {i \in AuctionIds : Pending(i)}

(* The money that the standing bids of the auctions in S come to. *)
StandingBids(S) ==
    SumFunctionOnSet([i \in AuctionIds |-> auction[i].highest], {i \in S : HasBidder(i)})

-----------------------------------------------------------------------------
(* detect_suspicious_patterns: any one of three patterns rejects the bid.  *)
RapidBidding(i, u) ==
    Cardinality({k \in BidsBy(i, u) : now - bids[i][k].at < RapidWindow}) >= 3

IncrementGaming(i, amount) ==
    \E k \in DOMAIN bids[i] :
        /\ k > Len(bids[i]) - 3
        /\ amount = bids[i][k].amount + auction[i].increment

TimedBidding(i) ==
    LET n == Len(bids[i])
        gap == (now - bids[i][n].at) - (bids[i][n].at - bids[i][n - 1].at)
    IN  n >= 2 /\ -TimingSlack < gap /\ gap < TimingSlack

Suspicious(i, u, amount) ==
    RapidBidding(i, u) \/ IncrementGaming(i, amount) \/ TimedBidding(i)

(* Mutant: every bid is compared with the starting price only. *)
AmountReachesStart(i, amount) ==
    amount >= MinimumBidAmount /\ amount >= auction[i].starting

(* validate_bid_amount: the increment over a standing bid is a percentage  *)
(* of it, rounded down; the first bid must reach the starting price.       *)
AmountAccepted(i, amount) ==
    LET standing == auction[i].highest
    IN  /\ amount >= MinimumBidAmount
        /\ amount > standing
        /\ amount >= IF standing > 0
                     THEN standing + (standing * MinIncrementBps) \div 10000
                     ELSE auction[i].starting

(* Mutant: late bids extend nothing. *)
FixedEnd(i) == auction[i].endTime

(* The end after a bid made now. *)
ExtendedEnd(i) ==
    IF auction[i].endTime - now <= ExtensionWindow
    THEN AtLeast(now + ExtensionWindow, auction[i].endTime)
    ELSE auction[i].endTime

-----------------------------------------------------------------------------
CreateAuction(s, t, kind, starting, reserve, duration, increment) ==
    /\ nextAuction <= MaxAuctions
    /\ now + duration < MaxTime
    /\ ModuleOpen("auctions")
    /\ BlockChecked(s)
    /\ RateCounted(s, "create_auction")
    /\ {"nft", "token"} \subseteq allowed
    /\ starting > 0
    /\ reserve \in 0..starting
    /\ duration \in 1..MaxAuctionDuration
    /\ increment > 0
    /\ (increment * 10000) \div starting >= MinIncrementBps
    /\ MoveNft(t, s, Contract)
    /\ nextAuction' = nextAuction + 1
    /\ auction' = [i \in 1..nextAuction |-> IF i < nextAuction THEN auction[i] ELSE
          [seller |-> s, token |-> t, starting |-> starting,
           reserve |-> reserve, highest |-> 0, bidder |-> NoUser,
           increment |-> increment, endTime |-> now + duration,
           state |-> "Pending"]]
    /\ bids' = [i \in 1..nextAuction |-> IF i < nextAuction THEN bids[i] ELSE <<>>]
    /\ dutch' = [i \in DOMAIN dutch \union
                        (IF kind = "Dutch" THEN {nextAuction} ELSE {}) |->
          IF i \in DOMAIN dutch THEN dutch[i]
          ELSE [price |-> starting, updated |-> now]]
    /\ UNCHANGED <<clockVars, balance, adminVars, feeVars>>

(* place_bid: the money comes in, the displaced bidder's goes back in the  *)
(* same invocation, and a late bid extends the auction.                    *)
PlaceBid(i, u, amount) ==
    LET a == auction[i]
        bid == [bidder |-> u, amount |-> amount, at |-> now, refunded |-> FALSE]
    IN  /\ i \in AuctionIds
        /\ ExtendedEnd(i) < MaxTime
        /\ ModuleOpen("auctions")
        /\ BlockChecked(u)
        /\ RateCounted(u, "place_bid")
        /\ Pending(i) /\ now <= a.endTime
        /\ Len(bids[i]) < MaxBidsPerAuction
        /\ AmountAccepted(i, amount)
        /\ ~Suspicious(i, u, amount)
        /\ IF HasBidder(i)
           THEN /\ Refundable(i, a.bidder)
                /\ PayInThenOut(u, amount, a.bidder, a.highest, a.bidder, 0)
                /\ bids' = [bids EXCEPT ![i] = Append(Refunded(i, a.bidder), bid)]
           ELSE /\ PayInThenOut(u, amount, u, 0, u, 0)
                /\ bids' = [bids EXCEPT ![i] = Append(@, bid)]
        /\ auction' = [auction EXCEPT ![i].highest = amount,
                                      ![i].bidder = u,
                                      ![i].endTime = ExtendedEnd(i)]
        /\ UNCHANGED <<clockVars, owner, adminVars, feeVars, nextAuction, dutch>>

(* Mutant: end_auction does not look at the clock. *)
EndedAnyTime(i) == Pending(i)

Ended(i) == Pending(i) /\ now > auction[i].endTime
Sold(i) == HasBidder(i) /\ auction[i].highest >= auction[i].reserve

(* end_auction, with a winner: the fee is quoted now, under the fee        *)
(* configuration of the day, and the proceeds leave with the NFT.          *)
SettleAuction(i) ==
    LET a == auction[i]
        royalty == Percentage(a.highest, Royalty.bps)
        fee == FeeFor(a.highest, a.seller)
    IN  /\ i \in AuctionIds
        /\ ModuleOpen("auctions")
        /\ Ended(i) /\ Sold(i)
        /\ fee >= 0
        /\ PayOut(Royalty.creator, royalty,
                  a.seller, a.highest - royalty - fee)
        /\ CollectFee(fee, a.bidder)
        /\ MoveNft(a.token, Contract, a.bidder)
        /\ auction' = [auction EXCEPT ![i].state = "Executed"]
        /\ UNCHANGED <<clockVars, accessVars, feeConfig, nextAuction, bids, dutch>>

(* Mutant: only the NFT goes back. *)
ReturnNftOnly(i) ==
    /\ MoveNft(auction[i].token, Contract, auction[i].seller)
    /\ UNCHANGED <<balance, bids, clockVars, accessVars, feeVars, nextAuction, dutch>>

(* The standing bid, if there is one, goes back; so does the NFT. *)
ReturnAll(i) ==
    LET a == auction[i]
    IN  /\ IF HasBidder(i)
           THEN /\ Refundable(i, a.bidder)
                /\ PayOut(a.bidder, a.highest, a.bidder, 0)
                /\ bids' = [bids EXCEPT ![i] = Refunded(i, a.bidder)]
           ELSE UNCHANGED <<balance, bids>>
        /\ MoveNft(a.token, Contract, a.seller)
        /\ UNCHANGED <<clockVars, accessVars, feeVars, nextAuction, dutch>>

(* Mutant: an auction nobody bid in is not closed. *)
CloseOnlyWithBidder(i) ==
    /\ i \in AuctionIds
    /\ ModuleOpen("auctions")
    /\ Ended(i) /\ ~Sold(i) /\ HasBidder(i)
    /\ ReturnAll(i)
    /\ auction' = [auction EXCEPT ![i].state = "Executed"]

(* end_auction, without one. *)
CloseUnsold(i) ==
    /\ i \in AuctionIds
    /\ ModuleOpen("auctions")
    /\ Ended(i) /\ ~Sold(i)
    /\ ReturnAll(i)
    /\ auction' = [auction EXCEPT ![i].state = "Executed"]

(* Mutant: the cancelled auction is not stored. *)
CancelNotStored(i) ==
    /\ i \in AuctionIds
    /\ ModuleOpen("auctions")
    /\ Pending(i)
    /\ ReturnAll(i)
    /\ UNCHANGED auction

(* cancel_auction_with_refund: the seller, at any time before the end. *)
CancelAuctionWithRefund(i) ==
    /\ i \in AuctionIds
    /\ ModuleOpen("auctions")
    /\ Pending(i)
    /\ ReturnAll(i)
    /\ auction' = [auction EXCEPT ![i].state = "Cancelled"]

(* The conditions under which withdraw_losing_bid pays a bidder.           *)
(* NothingLeftToWithdraw says they never arise, so it is not an action.    *)
CanWithdrawLosingBid(i, u) ==
    /\ i \in AuctionIds
    /\ ~Pending(i)
    /\ ~(auction[i].bidder = u /\ auction[i].state = "Executed")
    /\ Refundable(i, u)

(* Mutant: interpolated from the starting price instead of the last one.   *)
DutchPriceFromStart(i) ==
    LET d == dutch[i]
        a == auction[i]
    IN  IF now <= d.updated THEN d.price
        ELSE IF now >= a.endTime THEN a.reserve
        ELSE a.starting - ((a.starting - a.reserve) * (now - d.updated))
                            \div (a.endTime - d.updated)

(* get_dutch_auction_price: a query that anybody may make, at any time,    *)
(* and that stores what it answers; the next answer is interpolated from   *)
(* there.  calculate_time_weighted_price rounds towards the higher price.  *)
DutchPriceAt(i) ==
    LET d == dutch[i]
        end == auction[i].endTime
        floor == auction[i].reserve
    IN  IF now <= d.updated THEN d.price
        ELSE IF now >= end THEN floor
        ELSE d.price - ((d.price - floor) * (now - d.updated)) \div (end - d.updated)

GetDutchAuctionPrice(i) ==
    /\ i \in DOMAIN dutch
    /\ dutch' = [dutch EXCEPT ![i] = [price |-> DutchPriceAt(i), updated |-> now]]
    /\ UNCHANGED <<ledgerVars, accessVars, feeVars, nextAuction, auction, bids>>

AuctionNext ==
    \/ \E s \in Users, t \in Tokens, k \in Kinds, p \in StartPrices,
          r \in Reserves, d \in AuctionDurations, c \in Increments :
          CreateAuction(s, t, k, p, r, d, c)
    \/ \E i \in 1..MaxAuctions, u \in Users, x \in BidAmounts : PlaceBid(i, u, x)
    \/ \E i \in 1..MaxAuctions : SettleAuction(i)
    \/ \E i \in 1..MaxAuctions : CloseUnsold(i)
    \/ \E i \in 1..MaxAuctions : CancelAuctionWithRefund(i)
    \/ \E i \in 1..MaxAuctions : GetDutchAuctionPrice(i)
=============================================================================
