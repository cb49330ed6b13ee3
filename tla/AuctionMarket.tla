---------------------------- MODULE AuctionMarket ----------------------------
(***************************************************************************)
(* The auction side of the settlement contract as one system: auctions     *)
(* (AuctionHouse), the fee ledger (FeeManager), the access policy          *)
(* (AccessPolicy) and the ledger they run on (MarketLedger).               *)
(***************************************************************************)
EXTENDS AuctionHouse

vars == <<ledgerVars, accessVars, feeVars, auctionVars>>

Init == LedgerInit /\ AccessInit /\ FeeInit /\ AuctionInit

LedgerStep == LedgerNext /\ UNCHANGED <<accessVars, feeVars, auctionVars>>
AccessStep == AccessNext /\ UNCHANGED <<ledgerVars, feeVars, auctionVars>>
FeeStep == FeeNext /\ UNCHANGED <<clockVars, accessVars, auctionVars>>

Next == AuctionNext \/ LedgerStep \/ AccessStep \/ FeeStep

Spec == Init /\ [][Next]_vars

(* Ledgers keep closing, and once an auction is over somebody - its winner *)
(* or its seller has every reason to - calls end_auction, which is open to *)
(* anyone.  Nobody is assumed to bid, to cancel or to lift a pause.        *)
Fairness ==
    /\ WF_vars(CloseLedger /\ UNCHANGED <<accessVars, feeVars, auctionVars>>)
    /\ \A i \in 1..MaxAuctions : WF_vars(SettleAuction(i) \/ CloseUnsold(i))

FairSpec == Spec /\ Fairness

-----------------------------------------------------------------------------
(* Variables hold values of their types. *)
TypeOK == LedgerTypeOK /\ AccessTypeOK /\ FeeTypeOK /\ AuctionTypeOK

(* Custody: the contract holds a token exactly when one open auction       *)
(* offers it.  Ending or cancelling an auction never leaves the NFT behind *)
(* and a second auction of a returned NFT is never confused with the first.*)
Custody ==
    /\ \A i, j \in OpenAuctions : auction[i].token = auction[j].token => i = j
    /\ \A t \in Tokens :
          owner[t] = Contract <=> \E i \in OpenAuctions : auction[i].token = t

(* Between invocations the contract holds the booked fees and the standing *)
(* bid of every open auction, and nothing else: no refund is paid twice or *)
(* out of another auction's money, and no bid stays behind.                *)
EscrowedBids == balance[Contract] = accumulated + StandingBids(OpenAuctions)

(* Nobody has parted with more than the bids that stand or have won: every *)
(* outbid or aborted bid came back in full, also when the user bid several *)
(* times in several auctions.  A user who has only ever bid got nothing    *)
(* else back either; sellers, the creator and - if some configuration      *)
(* names the admin as recipient - receivers of fees have other income.     *)
BiddersMadeWhole ==
    \A u \in Users :
        LET spent == StandingBids(
              {i \in AuctionIds : auction[i].bidder = u /\ auction[i].state # "Cancelled"})
        IN  /\ balance[u] >= StartBalance - spent
            /\ \/ balance[u] = StartBalance - spent
               \/ \E i \in AuctionIds : auction[i].seller = u
               \/ Royalty.creator = u
               \/ \E c \in FeeConfigs \union {StartFeeConfig} : c.recipient = Admin

(* The pull path finds nothing to pay: when an auction is over, every bid  *)
(* but the winner's has been pushed back, so withdraw_losing_bid cannot    *)
(* pay anyone a second time.                                               *)
NothingLeftToWithdraw ==
    \A i \in AuctionIds, u \in Users : ~CanWithdrawLosingBid(i, u)

(* No sniping: whatever the order of late bids, an open auction has a full *)
(* extension window left after the last of them.                           *)
TimeToAnswer ==
    \A i \in AuctionIds :
        bids[i] # <<>> =>
            auction[i].endTime >= bids[i][Len(bids[i])].at + ExtensionWindow

(* While an auction is open its standing bid only rises, by at least the   *)
(* configured percentage, from a first bid of at least the starting price, *)
(* its end only moves away, and the bid and the end move only on a bid     *)
(* placed in time; a closed auction never changes again.                   *)
BiddingStep ==
    \A i \in AuctionIds :
        LET a == auction[i]
            b == auction'[i]
        IN  /\ ~Pending(i) => b = a
            /\ b.endTime >= a.endTime
            /\ <<b.highest, b.bidder, b.endTime>> # <<a.highest, a.bidder, a.endTime>> =>
                  /\ now <= a.endTime
                  /\ b.highest > a.highest
                  /\ b.highest >= a.starting
                  /\ (b.highest - a.highest) * 10000 > a.highest * MinIncrementBps - 10000
OnlyBidsMoveAnAuction == [][BiddingStep]_vars

(* When an auction closes, NFT and money go opposite ways at once: to the  *)
(* standing bidder, who then pays the standing bid - shared by creator,    *)
(* seller and platform to the unit - or back to seller and bidder both.    *)
CloseStep ==
    \A i \in OpenAuctions :
        LET a == auction[i]
            b == auction'[i]
            taken == balance[Contract] - balance'[Contract]
        IN  b.state # "Pending" =>
              IF owner'[a.token] = a.bidder /\ b.state = "Executed"
              THEN /\ a.highest >= a.reserve /\ now > a.endTime
                   /\ taken + (accumulated' - accumulated) = a.highest
              ELSE /\ owner'[a.token] = a.seller
                   /\ taken = a.highest
                   /\ HasBidder(i) => balance'[a.bidder] = balance[a.bidder] + a.highest
                   /\ b.state = "Executed" => now > a.endTime
ClosesAtomically == [][CloseStep]_vars

(* The Dutch price anybody may query, and thereby move, never rises and    *)
(* stays between the reserve and the starting price, however often and     *)
(* whenever it is asked, and although late bids move the auction's end.    *)
DutchStep ==
    \A i \in DOMAIN dutch :
        /\ dutch'[i].price <= dutch[i].price
        /\ dutch'[i].price >= auction[i].reserve
        /\ now >= auction[i].endTime /\ dutch'[i] # dutch[i] =>
              dutch'[i].price = auction[i].reserve
DutchPriceFalls == [][DutchStep]_vars

(* Every auction is settled in the end: no order of bids makes an auction  *)
(* that end_auction rejects for ever.  Two decisions of the admin do: a    *)
(* pause, and a fee floor that leaves the seller less than nothing.        *)
FeeExceedsBid(i) ==
    /\ Sold(i)
    /\ FeeFor(auction[i].highest, auction[i].seller)
         > auction[i].highest - Percentage(auction[i].highest, Royalty.bps)

AuctionSettles ==
    \A i \in 1..MaxAuctions :
        (i \in OpenAuctions) ~>
            \/ i \notin OpenAuctions
            \/ ~ModuleOpen("auctions")
            \/ FeeExceedsBid(i)

-----------------------------------------------------------------------------
(* auction_engine.rs:515 calls cancel_auction_with_refund the seller's     *)
(* abort path when bids exist; taken at its word, the standing bid of an   *)
(* open auction can always be marked refunded.                             *)
SellerCanAbort ==
    \A i \in OpenAuctions : HasBidder(i) => Refundable(i, auction[i].bidder)
=============================================================================
