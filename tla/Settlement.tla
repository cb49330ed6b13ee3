------------------------------ MODULE Settlement ------------------------------
(***************************************************************************)
(* The settlement contract as one system: sales and their escrow, auctions *)
(* and disputes over one ledger, one fee account and one access policy.    *)
(* The three keep separate records under ids that are counted separately;  *)
(* they meet in the NFTs, in the contract's payment balance and in the     *)
(* disputes, which know transactions by id alone.                          *)
(***************************************************************************)
EXTENDS DisputeResolution

vars == <<ledgerVars, accessVars, feeVars, saleVars, auctionVars, disputeVars>>

Init == LedgerInit /\ AccessInit /\ FeeInit /\ SaleInit /\ AuctionInit /\ DisputeInit

LedgerStep == LedgerNext /\ UNCHANGED <<accessVars, feeVars, saleVars, auctionVars, disputeVars>>
AccessStep == AccessNext /\ UNCHANGED <<ledgerVars, feeVars, saleVars, auctionVars, disputeVars>>
FeeStep == FeeNext /\ UNCHANGED <<clockVars, accessVars, saleVars, auctionVars, disputeVars>>
SaleStep == SaleNext /\ UNCHANGED <<auctionVars, disputeVars>>
AuctionStep == AuctionNext /\ UNCHANGED <<saleVars, disputeVars>>

Next == SaleStep \/ AuctionStep \/ DisputeNext \/ LedgerStep \/ AccessStep \/ FeeStep

Spec == Init /\ [][Next]_vars

(* Ledgers keep closing and a party to a dispute calls the permissionless  *)
(* resolve_dispute_timeout once it would settle.  Arbitrators need not     *)
(* vote, and nobody need execute a resolution.                             *)
Fairness ==
    /\ WF_vars(CloseLedger /\ UNCHANGED <<accessVars, feeVars, saleVars, auctionVars, disputeVars>>)
    /\ \A d \in 1..MaxDisputes : WF_vars(ResolveDisputeTimeout(d))

FairSpec == Spec /\ Fairness

-----------------------------------------------------------------------------
(* Variables hold values of their types. *)
TypeOK ==
    /\ LedgerTypeOK /\ AccessTypeOK /\ FeeTypeOK
    /\ SaleTypeOK /\ AuctionTypeOK /\ DisputeTypeOK

(* One token, one claim: a token in the contract is in the escrow of one   *)
(* swap or on offer in one open auction, never both and never neither -    *)
(* no settlement of a dispute reaches for an NFT that an auction holds,    *)
(* although both may know it by the same id.                               *)
OneClaim ==
    \A t \in Tokens :
        LET escrowed == {i \in SaleIds : Live(swap[i].nft) /\ swap[i].nft.token = t}
            offered == {i \in OpenAuctions : auction[i].token = t}
        IN  Cardinality(escrowed) + Cardinality(offered)
              = IF owner[t] = Contract THEN 1 ELSE 0

(* Sales, auctions and disputes share one balance: it is always the booked *)
(* fees plus the standing bids, so that no sale pays its royalties, and no *)
(* dispute its outcome, out of a bidder's money.                           *)
Solvent == balance[Contract] = accumulated + StandingBids(OpenAuctions)

(* A dispute is decided once and paid once: a resolution, once reached by  *)
(* whichever of quorum, admin, oracle and timeout came first, is never     *)
(* replaced by another; votes stay as cast; a settled dispute is final.    *)
DecisionStep ==
    \A d \in DisputeIds :
        /\ dispute[d].resolution # None =>
                             /\ dispute'[d].resolution = dispute[d].resolution
                             /\ dispute'[d].votes = dispute[d].votes
        /\ dispute[d].settled => dispute'[d] = dispute[d]
        /\ \A a \in DOMAIN dispute[d].votes : dispute'[d].votes[a] = dispute[d].votes[a]
DecidedOnce == [][DecisionStep]_vars

(* A dispute that pays moves the NFT of a sale still pending, hands it to  *)
(* its depositor whatever the resolution - payments never rest in escrow,  *)
(* so there is no other party to award it to - and closes the sale; an     *)
(* executed or cancelled sale is out of every dispute's reach.             *)
SettlementStep ==
    \A d \in DisputeIds :
        ~dispute[d].settled /\ dispute'[d].settled =>
            LET i == dispute[d].transaction
            IN  /\ sale[i].state = "Pending" /\ Live(swap[i].nft)
                /\ owner'[sale[i].token] = sale[i].seller
                /\ balance' = balance
                /\ sale'[i].state \in {"Resolved", "Cancelled"}
                /\ swap'[i].state = "Failed" /\ ~Live(swap'[i].nft)
DisputeUnwinds == [][SettlementStep]_vars

(* An arbitrated outcome is the will of a quorum: a dispute resolved but   *)
(* not yet settled was decided by at least the votes its configuration     *)
(* asked for when it was opened, by more than half of them for the         *)
(* initiator or not, however arbitrators re-register, lose reputation or   *)
(* the configuration changes meanwhile.                                    *)
QuorumDecides ==
    \A d \in DisputeIds :
        dispute[d].resolution # None /\ ~dispute[d].settled =>
            LET votes == dispute[d].votes
                inFavour == {a \in DOMAIN votes : votes[a] = 1}
            IN  /\ Cardinality(DOMAIN votes) = dispute[d].required
                /\ dispute[d].resolution =
                      IF Cardinality(inFavour) > Cardinality(DOMAIN votes \ inFavour)
                      THEN "RefundBuyer" ELSE "ReleaseToSeller"

(* The claim on a token in the contract: from the sale that escrows it, or *)
(* from the auction that offers it.                                        *)
SaleClaim(i) ==
    [depositor |-> sale[i].seller, ask |-> sale[i].price, due |-> AtLeast(sale[i].share, 0),
     pledger |-> NoUser, pledge |-> 0]

AuctionClaim(i) ==
    [depositor |-> auction[i].seller, ask |-> auction[i].starting, due |-> 0,
     pledger |-> auction[i].bidder, pledge |-> auction[i].highest]

EscrowsOf(t) == {i \in SaleIds : Live(swap[i].nft) /\ swap[i].nft.token = t}
OffersOf(t) == {i \in OpenAuctions : auction[i].token = t}

ClaimOn(t) ==
    IF EscrowsOf(t) # {} THEN SaleClaim(CHOOSE i \in EscrowsOf(t) : TRUE)
    ELSE IF OffersOf(t) # {} THEN AuctionClaim(CHOOSE i \in OffersOf(t) : TRUE)
    ELSE [depositor |-> NoUser, ask |-> 0, due |-> 0, pledger |-> NoUser, pledge |-> 0]

Promise ==
    INSTANCE EscrowPromise WITH
        Things <- Tokens, Parties <- Users, Keeper <- Contract, NoParty <- NoUser,
        Amounts <- Prices \union StartPrices \union BidAmounts,
        holder <- owner, claim <- [t \in Tokens |-> ClaimOn(t)],
        purse <- [u \in Users |-> balance[u]]

(* Whatever sales, refunds, auctions and disputes do to each other, the    *)
(* contract is one escrow: every NFT comes out once, to its depositor or   *)
(* to the one who pays what was asked, pledges go back to the unit, and    *)
(* nobody else parts with money.                                           *)
PromiseKept == Promise!Spec

(* Arbitration cannot lock an escrow: while a disputed sale has its NFT in *)
(* escrow, the dispute settles or the sale ends otherwise, even if no      *)
(* arbitrator votes or there are fewer of them than the quorum.            *)
Disputed(i) == \E d \in DisputeIds : dispute[d].transaction = i /\ Unsettled(d)
DisputeEnds ==
    \A i \in 1..MaxSales :
        (i \in SaleIds /\ Live(swap[i].nft) /\ Disputed(i))
          ~> ((i \in SaleIds /\ ~Live(swap[i].nft)) \/ ~DisputesOpen)

=============================================================================
