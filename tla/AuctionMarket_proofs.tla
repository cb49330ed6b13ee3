------------------------ MODULE AuctionMarket_proofs ------------------------
(***************************************************************************)
(* Theorems about AuctionMarket for any number of users, tokens and        *)
(* auctions, any bids and any fee configuration.  Custody of the tokens,   *)
(* the escrow of the bids and the refund marks in the histories are one    *)
(* invariant: an auction without a buyer returns a standing bid only if    *)
(* its mark says so, and the contract's money is accounted for only if     *)
(* closing returns all of it.                                              *)
(***************************************************************************)
EXTENDS AuctionMarket, AuctionHouse_proofs

IndInv == HouseInv({})

(* The invariant holds initially and is kept by every step. *)
LEMMA InitInd == Init => IndInv
BY HouseInit DEF Init, IndInv

LEMMA StutterKeeps ==
    ASSUME IndInv, UNCHANGED vars
    PROVE  IndInv'
<1>1. HouseTypes /\ GoodPrices
  BY DEF IndInv, HouseInv
<1>2. UNCHANGED <<now, ledger, owner, balance, pause, scheduled, blocked, allowed, rateConfig,
                  rate, feeConfig, accumulated, volume, nextAuction, auction, bids, dutch>>
  BY DEF vars, ledgerVars, accessVars, feeVars, auctionVars
<1>3. HouseTypes'
  BY <1>1, <1>2 DEF HouseTypes, LedgerTypeOK, AccessTypeOK, FeeTypeOK, AuctionTypeOK, AuctionIds
<1>4. GoodPrices'
  BY <1>1, <1>2 DEF GoodPrices
<1> QED
  BY <1>2, <1>3, <1>4, HouseUntouched DEF IndInv

LEMMA Inductive == IndInv /\ [Next]_vars => IndInv'
<1> SUFFICES ASSUME IndInv, [Next]_vars PROVE IndInv'
  OBVIOUS
<1>1. CASE AuctionNext
  BY <1>1, AuctionKeeps DEF IndInv
<1>2. CASE LedgerStep
  BY <1>2, LedgerKeepsHouse DEF LedgerStep, IndInv
<1>3. CASE AccessStep
  BY <1>3, AccessKeepsHouse DEF AccessStep, IndInv
<1>4. CASE FeeStep
  BY <1>4, FeeKeepsHouse DEF FeeStep, IndInv
<1>5. CASE UNCHANGED vars
  BY <1>5, StutterKeeps
<1> QED
  BY <1>1, <1>2, <1>3, <1>4, <1>5 DEF Next

THEOREM IndInvariant == Spec => []IndInv
BY InitInd, Inductive, PTL DEF Spec

(* The variables of the auction side keep their types. *)
THEOREM AuctionTypes == Spec => []TypeOK
<1>1. IndInv => TypeOK
  BY DEF IndInv, HouseInv, HouseTypes, TypeOK
<1> QED
  BY <1>1, IndInvariant, PTL

(* The contract holds a token exactly when one open auction offers it:     *)
(* create_auction takes it, end_auction and cancel_auction_with_refund     *)
(* give it away, whoever bid and whatever was traded outside meanwhile.    *)
THEOREM AuctionCustody == Spec => []Custody
<1>1. IndInv => Custody
  BY DEF IndInv, HouseInv, HoldsOffers, Custody
<1> QED
  BY <1>1, IndInvariant, PTL

(* The contract's money is the booked fees and the standing bids of the    *)
(* open auctions, to the unit.                                             *)
THEOREM BidsAreEscrowed == Spec => []EscrowedBids
<1>1. IndInv => EscrowedBids
  <2> SUFFICES ASSUME IndInv PROVE EscrowedBids
    OBVIOUS
  <2>1. StandingBids(OpenAuctions) = Stakes
    BY StakesStand DEF IndInv, HouseInv, HouseTypes
  <2> QED
    BY <2>1 DEF IndInv, HouseInv, StakesBooked, EscrowedBids
<1> QED
  BY <1>1, IndInvariant, PTL

(* withdraw_losing_bid never finds a bid to pay: place_bid and the two     *)
(* ways to end an auction have pushed every one of them back.              *)
THEOREM PullFindsNothing == Spec => []NothingLeftToWithdraw
<1>1. IndInv => NothingLeftToWithdraw
  <2> SUFFICES ASSUME IndInv, NEW i \in AuctionIds, NEW u \in Users, CanWithdrawLosingBid(i, u)
               PROVE  FALSE
    BY DEF NothingLeftToWithdraw
  <2>1. ~PaidBack(bids[i], u) /\ ~Pending(i)
        /\ ~(auction[i].bidder = u /\ auction[i].state = "Executed")
    BY Lookups DEF CanWithdrawLosingBid
  <2>2. GoodAuction(i) /\ auction[i].state \in AuctionStates
    BY AuctionFields DEF IndInv, HouseInv, GoodAuctions, HouseTypes
  <2>3. CASE auction[i].bidder = u
    BY <2>1, <2>2, <2>3 DEF GoodAuction, AuctionStates, Pending
  <2>4. CASE auction[i].bidder # u
    BY <2>1, <2>2, <2>4 DEF GoodAuction
  <2> QED
    BY <2>3, <2>4
<1> QED
  BY <1>1, IndInvariant, PTL

(* Whatever the order of late bids, the end of an auction is a full        *)
(* extension window after the last of them (extend_auction_if_needed).     *)
THEOREM TimeToAnswerHolds == Spec => []TimeToAnswer
<1>1. IndInv => TimeToAnswer
  BY DEF IndInv, HouseInv, GoodAuctions, GoodAuction, TimeToAnswer
<1> QED
  BY <1>1, IndInvariant, PTL

-----------------------------------------------------------------------------
(* Action properties. *)

(* What OnlyBidsMoveAnAuction asks for one auction. *)
BiddingAt(i) ==
    LET a == auction[i]
        b == auction'[i]
    IN  /\ ~Pending(i) => b = a
        /\ b.endTime >= a.endTime
        /\ <<b.highest, b.bidder, b.endTime>> # <<a.highest, a.bidder, a.endTime>> =>
              /\ now <= a.endTime
              /\ b.highest > a.highest
              /\ b.highest >= a.starting
              /\ (b.highest - a.highest) * 10000 > a.highest * MinIncrementBps - 10000

LEMMA StillStands ==
    ASSUME HouseTypes, NEW i \in AuctionIds, auction'[i] = auction[i]
    PROVE  BiddingAt(i)
<1>1. auction[i].endTime \in Nat
  BY AuctionFields DEF HouseTypes
<1> QED
  BY <1>1 DEF BiddingAt

(* A closing auction keeps its standing bid and its end. *)
LEMMA ClosingStands ==
    ASSUME HouseTypes, NEW i \in AuctionIds, Pending(i), NEW s \in AuctionStates,
           auction' = [auction EXCEPT ![i].state = s]
    PROVE  \A j \in AuctionIds : BiddingAt(j)
<1>1. /\ \A j \in AuctionIds : j # i => auction'[j] = auction[j]
      /\ auction'[i].highest = auction[i].highest
      /\ auction'[i].bidder = auction[i].bidder
      /\ auction'[i].endTime = auction[i].endTime
  BY StateWritten DEF HouseTypes
<1>2. auction[i].endTime \in Nat
  BY AuctionFields DEF HouseTypes
<1>3. BiddingAt(i)
  <2>1. auction'[i].endTime >= auction[i].endTime
    BY <1>1, <1>2
  <2> QED
    BY <1>1, <2>1 DEF BiddingAt
<1> QED
  BY <1>1, <1>3, StillStands

LEMMA BidStands ==
    ASSUME HouseTypes, GoodAuctions,
           NEW i, NEW u \in Users, NEW x \in BidAmounts, PlaceBid(i, u, x)
    PROVE  \A j \in AuctionIds : BiddingAt(j)
<1>1. /\ i \in AuctionIds /\ Pending(i) /\ now <= auction[i].endTime
      /\ x > auction[i].highest /\ x >= auction[i].starting
      /\ \A j \in AuctionIds : j # i => auction'[j] = auction[j]
      /\ auction'[i].highest = x
      /\ auction'[i].endTime = ExtendedEnd(i)
  BY BidRecord
<1>2. (x - auction[i].highest) * 10000 > auction[i].highest * MinIncrementBps - 10000
  BY <1>1, AcceptedAmount, AuctionAssumption DEF PlaceBid
<1>3. ExtendedEnd(i) >= auction[i].endTime
  BY <1>1, ExtendedEndLater
<1>4. BiddingAt(i)
  BY <1>1, <1>2, <1>3 DEF BiddingAt
<1> QED
  BY <1>1, <1>4, StillStands

(* While an auction is open its standing bid only rises, and by no less    *)
(* than the increment of validate_bid_amount; the end only moves away; a   *)
(* closed auction never changes again.                                     *)
THEOREM BidsMoveAuctions == Spec => OnlyBidsMoveAnAuction
<1>1. ASSUME IndInv, [Next]_vars PROVE \A j \in AuctionIds : BiddingAt(j)
  <2>0. HouseTypes /\ GoodAuctions
    BY <1>1 DEF IndInv, HouseInv
  <2>1. CASE \A j \in AuctionIds : auction'[j] = auction[j]
    BY <2>0, <2>1, StillStands
  <2>2. CASE AuctionNext
    <3>1. CASE \E s \in Users, t \in Tokens, k \in Kinds, p \in StartPrices,
                  r \in Reserves, d \in AuctionDurations, c \in Increments :
                  CreateAuction(s, t, k, p, r, d, c)
      <4>1. \A j \in AuctionIds : auction'[j] = auction[j]
        BY <2>0, <3>1, CreateFacts
      <4> QED
        BY <2>1, <4>1
    <3>2. CASE \E i \in 1..MaxAuctions, u \in Users, x \in BidAmounts : PlaceBid(i, u, x)
      BY <2>0, <3>2, BidStands
    <3>3. CASE \E i \in 1..MaxAuctions : SettleAuction(i)
      <4>1. PICK i : SettleAuction(i)
        BY <3>3
      <4>2. i \in AuctionIds /\ Pending(i) /\ auction' = [auction EXCEPT ![i].state = "Executed"]
        BY <2>0, <4>1, SettleFacts DEF Ended
      <4> QED
        BY <2>0, <4>2, ClosingStands DEF AuctionStates
    <3>4. CASE \E i \in 1..MaxAuctions : CloseUnsold(i)
      <4>1. PICK i : CloseUnsold(i)
        BY <3>4
      <4>2. i \in AuctionIds /\ Pending(i) /\ auction' = [auction EXCEPT ![i].state = "Executed"]
        BY <2>0, <4>1, UnsoldHasNoBidder DEF Ended
      <4> QED
        BY <2>0, <4>2, ClosingStands DEF AuctionStates
    <3>5. CASE \E i \in 1..MaxAuctions : CancelAuctionWithRefund(i)
      <4>1. PICK i : CancelAuctionWithRefund(i)
        BY <3>5
      <4>2. i \in AuctionIds /\ Pending(i) /\ auction' = [auction EXCEPT ![i].state = "Cancelled"]
        BY <4>1, CancelFacts
      <4> QED
        BY <2>0, <4>2, ClosingStands DEF AuctionStates
    <3>6. CASE \E i \in 1..MaxAuctions : GetDutchAuctionPrice(i)
      BY <2>1, <3>6 DEF GetDutchAuctionPrice
    <3> QED
      BY <2>2, <3>1, <3>2, <3>3, <3>4, <3>5, <3>6 DEF AuctionNext
  <2>3. CASE LedgerStep \/ AccessStep \/ FeeStep \/ UNCHANGED vars
    BY <2>1, <2>3 DEF LedgerStep, AccessStep, FeeStep, vars, auctionVars
  <2> QED
    BY <1>1, <2>2, <2>3 DEF Next
<1>2. IndInv /\ [Next]_vars => BiddingStep
  BY <1>1 DEF BiddingStep, BiddingAt
<1> QED
  BY <1>2, IndInvariant, PTL DEF Spec, OnlyBidsMoveAnAuction

-----------------------------------------------------------------------------
(* What ClosesAtomically asks for one auction. *)
ClosingAt(i) ==
    LET a == auction[i]
        b == auction'[i]
        taken == balance[Contract] - balance'[Contract]
    IN  b.state # "Pending" =>
          IF owner'[a.token] = a.bidder /\ b.state = "Executed"
          THEN /\ a.highest >= a.reserve /\ now > a.endTime
               /\ taken + (accumulated' - accumulated) = a.highest
          ELSE /\ owner'[a.token] = a.seller
               /\ taken = a.highest
               /\ HasBidder(i) => balance'[a.bidder] = balance[a.bidder] + a.highest
               /\ b.state = "Executed" => now > a.endTime

LEMMA StaysOpen ==
    ASSUME NEW i, Pending(i), auction'[i].state = auction[i].state
    PROVE  ClosingAt(i)
BY Zenon DEF ClosingAt, Pending

(* end_auction with a winner exchanges the token for the standing bid. *)
LEMMA SettleCloses ==
    ASSUME HouseTypes, GoodAuctions, NEW i, SettleAuction(i)
    PROVE  \A j \in OpenAuctions : ClosingAt(j)
<1>1. /\ i \in AuctionIds /\ Ended(i) /\ Sold(i)
      /\ auction' = [auction EXCEPT ![i].state = "Executed"]
      /\ MoveNft(auction[i].token, Contract, auction[i].bidder)
      /\ balance' \in [Accounts -> Nat] /\ accumulated' \in Nat
      /\ balance'[Contract] - accumulated'
            = balance[Contract] - accumulated - auction[i].highest
  BY SettleFacts
<1>2. /\ \A j \in AuctionIds : j # i => auction'[j] = auction[j]
      /\ auction'[i].state = "Executed"
  BY <1>1, StateWritten DEF HouseTypes, AuctionStates
<1>3. auction[i].token \in Tokens /\ auction[i].highest \in Nat
      /\ balance[Contract] \in Nat /\ balance'[Contract] \in Nat /\ accumulated \in Nat
      /\ owner \in [Tokens -> Accounts]
  BY <1>1, AuctionFields DEF HouseTypes, LedgerTypeOK, FeeTypeOK, Accounts
<1>4. owner'[auction[i].token] = auction[i].bidder
  BY <1>1, <1>3 DEF MoveNft
<1>5. balance[Contract] - balance'[Contract] + (accumulated' - accumulated) = auction[i].highest
  BY <1>1, <1>3
<1>6. ClosingAt(i)
  BY <1>1, <1>2, <1>4, <1>5 DEF ClosingAt, Ended, Sold
<1> QED
  BY <1>2, <1>6, StaysOpen DEF OpenAuctions

(* The two other ways out return everything: ReturnAll. *)
LEMMA ReturnCloses ==
    ASSUME HouseTypes, GoodAuctions, NEW i \in AuctionIds, Pending(i), ReturnAll(i),
           NEW s \in {"Executed", "Cancelled"},
           auction' = [auction EXCEPT ![i].state = s],
           s = "Executed" => ~HasBidder(i) /\ now > auction[i].endTime
    PROVE  \A j \in OpenAuctions : ClosingAt(j)
<1> DEFINE a == auction[i]
<1>1. /\ MoveNft(a.token, Contract, a.seller)
      /\ balance' \in [Accounts -> Nat]
      /\ balance'[Contract] = balance[Contract] - a.highest
      /\ \A v \in Users : balance'[v] = balance[v] + (IF v = a.bidder THEN a.highest ELSE 0)
  BY ReturnFacts
<1>2. /\ \A j \in AuctionIds : j # i => auction'[j] = auction[j]
      /\ auction'[i].state = s
  BY StateWritten DEF HouseTypes, AuctionStates
<1>3. /\ a.token \in Tokens /\ a.seller \in Users /\ a.highest \in Nat
      /\ HasBidder(i) => a.bidder \in Users
      /\ balance[Contract] \in Nat /\ owner \in [Tokens -> Accounts]
  BY AuctionFields DEF HouseTypes, LedgerTypeOK, Accounts
<1>4. owner'[a.token] = a.seller
  BY <1>1, <1>3 DEF MoveNft
<1>5. balance[Contract] - balance'[Contract] = a.highest
  BY <1>1, <1>3
<1>6. HasBidder(i) => balance'[a.bidder] = balance[a.bidder] + a.highest
  BY <1>1, <1>3
<1>7. s = "Executed" => a.seller # a.bidder
  BY <1>3, FeeAssumption DEF HasBidder
<1>8. ClosingAt(i)
  BY <1>2, <1>4, <1>5, <1>6, <1>7 DEF ClosingAt
<1> QED
  BY <1>2, <1>8, StaysOpen DEF OpenAuctions

(* When an auction closes, token and money go opposite ways at once: the   *)
(* winner gets the one and parts with the other, or seller and bidder get  *)
(* back what they put in.                                                  *)
THEOREM AuctionsCloseAtomically == Spec => ClosesAtomically
<1>1. ASSUME IndInv, [Next]_vars PROVE \A j \in OpenAuctions : ClosingAt(j)
  <2>0. HouseTypes /\ GoodAuctions
    BY <1>1 DEF IndInv, HouseInv
  <2>1. CASE \A j \in AuctionIds : auction'[j].state = auction[j].state
    BY <2>1, StaysOpen DEF OpenAuctions
  <2>2. CASE AuctionNext
    <3>1. CASE \E s \in Users, t \in Tokens, k \in Kinds, p \in StartPrices,
                  r \in Reserves, d \in AuctionDurations, c \in Increments :
                  CreateAuction(s, t, k, p, r, d, c)
      <4>1. \A j \in AuctionIds : auction'[j] = auction[j]
        BY <2>0, <3>1, CreateFacts
      <4> QED
        BY <2>1, <4>1
    <3>2. CASE \E i \in 1..MaxAuctions, u \in Users, x \in BidAmounts : PlaceBid(i, u, x)
      <4>1. PICK i \in 1..MaxAuctions, u \in Users, x \in BidAmounts : PlaceBid(i, u, x)
        BY <3>2
      <4>2. /\ \A j \in AuctionIds : j # i => auction'[j] = auction[j]
            /\ auction'[i].state = auction[i].state
        BY <2>0, <4>1, BidRecord
      <4> QED
        BY <2>1, <4>2
    <3>3. CASE \E i \in 1..MaxAuctions : SettleAuction(i)
      BY <2>0, <3>3, SettleCloses
    <3>4. CASE \E i \in 1..MaxAuctions : CloseUnsold(i)
      <4>1. PICK i : CloseUnsold(i)
        BY <3>4
      <4>2. /\ i \in AuctionIds /\ Pending(i) /\ ReturnAll(i)
            /\ ~HasBidder(i) /\ now > auction[i].endTime
            /\ auction' = [auction EXCEPT ![i].state = "Executed"]
        BY <2>0, <4>1, UnsoldHasNoBidder DEF Ended
      <4> QED
        BY <2>0, <4>2, ReturnCloses
    <3>5. CASE \E i \in 1..MaxAuctions : CancelAuctionWithRefund(i)
      <4>1. PICK i : CancelAuctionWithRefund(i)
        BY <3>5
      <4>2. /\ i \in AuctionIds /\ Pending(i) /\ ReturnAll(i)
            /\ auction' = [auction EXCEPT ![i].state = "Cancelled"]
        BY <4>1, CancelFacts
      <4> QED
        BY <2>0, <4>2, ReturnCloses
    <3>6. CASE \E i \in 1..MaxAuctions : GetDutchAuctionPrice(i)
      BY <2>1, <3>6 DEF GetDutchAuctionPrice
    <3> QED
      BY <2>2, <3>1, <3>2, <3>3, <3>4, <3>5, <3>6 DEF AuctionNext
  <2>3. CASE LedgerStep \/ AccessStep \/ FeeStep \/ UNCHANGED vars
    BY <2>1, <2>3 DEF LedgerStep, AccessStep, FeeStep, vars, auctionVars
  <2> QED
    BY <1>1, <2>2, <2>3 DEF Next
<1>2. IndInv /\ [Next]_vars => CloseStep
  BY <1>1 DEF CloseStep, ClosingAt
<1> QED
  BY <1>2, IndInvariant, PTL DEF Spec, ClosesAtomically

-----------------------------------------------------------------------------
(* What DutchPriceFalls asks for one auction. *)
FallingAt(i) ==
    /\ dutch'[i].price <= dutch[i].price
    /\ dutch'[i].price >= auction[i].reserve
    /\ now >= auction[i].endTime /\ dutch'[i] # dutch[i] =>
          dutch'[i].price = auction[i].reserve

LEMMA PriceStays ==
    ASSUME HouseTypes, GoodPrices, NEW i \in DOMAIN dutch, dutch'[i] = dutch[i]
    PROVE  FallingAt(i)
<1>1. dutch[i].price \in Int
  BY DEF HouseTypes, AuctionTypeOK
<1> QED
  BY <1>1 DEF FallingAt, GoodPrices

LEMMA AskedPriceFalls ==
    ASSUME HouseTypes, GoodPrices, NEW i, GetDutchAuctionPrice(i)
    PROVE  \A j \in DOMAIN dutch : FallingAt(j)
<1>1. /\ i \in DOMAIN dutch
      /\ dutch' \in [DOMAIN dutch -> [price : Int, updated : Nat]]
      /\ \A j \in DOMAIN dutch : j # i => dutch'[j] = dutch[j]
      /\ dutch'[i].price = DutchPriceAt(i) /\ dutch'[i].updated = now
  BY AskFacts
<1>2. /\ DutchPriceAt(i) \in Int
      /\ DutchPriceAt(i) <= dutch[i].price
      /\ DutchPriceAt(i) >= auction[i].reserve
      /\ dutch[i].updated # now /\ now >= auction[i].endTime =>
            DutchPriceAt(i) = auction[i].reserve
      /\ dutch[i].updated = now => DutchPriceAt(i) = dutch[i].price
  BY <1>1, DutchPrice
<1>3. dutch[i].updated = now => dutch'[i] = dutch[i]
  <2>1. dutch[i] \in [price : Int, updated : Nat] /\ dutch'[i] \in [price : Int, updated : Nat]
    BY <1>1 DEF HouseTypes, AuctionTypeOK
  <2> QED
    BY <1>1, <1>2, <2>1
<1>4. FallingAt(i)
  BY <1>1, <1>2, <1>3 DEF FallingAt
<1> QED
  BY <1>1, <1>4, PriceStays

(* However often and whenever get_dutch_auction_price is asked, the stored *)
(* price never rises and never falls below the reserve.                    *)
THEOREM DutchPricesFall == Spec => DutchPriceFalls
<1>1. ASSUME IndInv, [Next]_vars PROVE \A j \in DOMAIN dutch : FallingAt(j)
  <2>0. HouseTypes /\ GoodPrices /\ GoodAuctions
    BY <1>1 DEF IndInv, HouseInv
  <2>1. CASE \A j \in DOMAIN dutch : dutch'[j] = dutch[j]
    BY <2>0, <2>1, PriceStays
  <2>2. CASE AuctionNext
    <3>1. CASE \E s \in Users, t \in Tokens, k \in Kinds, p \in StartPrices,
                  r \in Reserves, d \in AuctionDurations, c \in Increments :
                  CreateAuction(s, t, k, p, r, d, c)
      <4>1. \A j \in DOMAIN dutch : dutch'[j] = dutch[j]
        BY <2>0, <3>1, CreatePrices
      <4> QED
        BY <2>1, <4>1
    <3>2. CASE \E i \in 1..MaxAuctions, u \in Users, x \in BidAmounts : PlaceBid(i, u, x)
      BY <2>1, <3>2 DEF PlaceBid
    <3>3. CASE \E i \in 1..MaxAuctions : SettleAuction(i)
      BY <2>1, <3>3 DEF SettleAuction
    <3>4. CASE \E i \in 1..MaxAuctions : CloseUnsold(i)
      BY <2>1, <3>4 DEF CloseUnsold, ReturnAll
    <3>5. CASE \E i \in 1..MaxAuctions : CancelAuctionWithRefund(i)
      BY <2>1, <3>5 DEF CancelAuctionWithRefund, ReturnAll
    <3>6. CASE \E i \in 1..MaxAuctions : GetDutchAuctionPrice(i)
      BY <2>0, <3>6, AskedPriceFalls
    <3> QED
      BY <2>2, <3>1, <3>2, <3>3, <3>4, <3>5, <3>6 DEF AuctionNext
  <2>3. CASE LedgerStep \/ AccessStep \/ FeeStep \/ UNCHANGED vars
    BY <2>1, <2>3 DEF LedgerStep, AccessStep, FeeStep, vars, auctionVars
  <2> QED
    BY <1>1, <2>2, <2>3 DEF Next
<1>2. IndInv /\ [Next]_vars => DutchStep
  BY <1>1 DEF DutchStep, FallingAt
<1> QED
  BY <1>2, IndInvariant, PTL DEF Spec, DutchPriceFalls

-----------------------------------------------------------------------------
(* What a user has bid and not got back. *)
Part(i, u) ==
    IF auction[i].bidder = u /\ auction[i].state # "Cancelled"
    THEN auction[i].highest ELSE 0
Spent(u) == SumFunctionOnSet([i \in AuctionIds |-> Part(i, u)], AuctionIds)

(* Who may have other income. *)
Earns(u) ==
    \/ \E i \in AuctionIds : auction[i].seller = u
    \/ Royalty.creator = u
    \/ \E c \in FeeConfigs \union {StartFeeConfig} : c.recipient = Admin

MadeWhole ==
    \A u \in Users :
        /\ balance[u] + Spent(u) >= StartBalance
        /\ balance[u] + Spent(u) = StartBalance \/ Earns(u)

(* Fees go by a configuration that was submitted. *)
ConfigSubmitted == feeConfig \in FeeConfigs \union {StartFeeConfig}

WholeInv == IndInv /\ MadeWhole /\ ConfigSubmitted

LEMMA PartNat ==
    ASSUME AuctionTypeOK, NEW u
    PROVE  \A i \in AuctionIds : Part(i, u) \in Nat
BY AuctionFields DEF Part

LEMMA SpentNat ==
    ASSUME AuctionTypeOK, NEW u
    PROVE  Spent(u) \in Nat
<1> DEFINE f == [j \in AuctionIds |-> Part(j, u)]
<1>1. \A j \in AuctionIds : f[j] \in Nat
  BY PartNat
<1> HIDE DEF f
<1>2. SumFunctionOnSet(f, AuctionIds) \in Nat
  BY <1>1, AuctionsFinite, SumNat
<1> QED
  BY <1>2 DEF Spent, f

(* A change of one auction changes what was spent by as much. *)
LEMMA SpentChange ==
    ASSUME AuctionTypeOK, AuctionTypeOK', UNCHANGED nextAuction, NEW i \in AuctionIds,
           \A j \in AuctionIds : j # i => auction'[j] = auction[j],
           NEW u
    PROVE  Spent(u)' = Spent(u) + Part(i, u)' - Part(i, u)
<1> DEFINE f == [j \in AuctionIds |-> Part(j, u)]
           g == [j \in AuctionIds |-> Part(j, u)']
<1>1. AuctionIds' = AuctionIds
  BY DEF AuctionIds
<1>2. \A j \in AuctionIds : Part(j, u) \in Nat /\ Part(j, u)' \in Nat
  <2>1. \A j \in AuctionIds : auction[j].highest \in Nat /\ auction'[j].highest \in Nat
    <3>1. auction \in [AuctionIds -> Auctions] /\ auction' \in [AuctionIds -> Auctions]
      BY <1>1 DEF AuctionTypeOK
    <3> QED
      BY <3>1 DEF Auctions
  <2> QED
    BY <2>1 DEF Part
<1>3. \A j \in AuctionIds : j # i => Part(j, u)' = Part(j, u)
  BY DEF Part
<1>4. \A j \in AuctionIds : f[j] \in Int /\ g[j] \in Int
  BY <1>2
<1>5. \A j \in AuctionIds \ {i} : f[j] = g[j]
  BY <1>3
<1>6. f[i] = Part(i, u) /\ g[i] = Part(i, u)'
  OBVIOUS
<1>7. Spent(u) = SumFunctionOnSet(f, AuctionIds) /\ Spent(u)' = SumFunctionOnSet(g, AuctionIds)
  BY <1>1 DEF Spent
<1> HIDE DEF f, g
<1>8. SumFunctionOnSet(g, AuctionIds) = SumFunctionOnSet(f, AuctionIds) + g[i] - f[i]
  BY <1>4, <1>5, AuctionsFinite, SumChange
<1> QED
  BY <1>6, <1>7, <1>8

(* Nobody has spent anything on a new auction. *)
LEMMA SpentAdded ==
    ASSUME AuctionTypeOK, nextAuction' = nextAuction + 1,
           \A j \in AuctionIds : auction'[j] = auction[j],
           auction'[nextAuction].highest = 0, NEW u
    PROVE  Spent(u)' = Spent(u)
<1> DEFINE n == nextAuction
           f == [j \in AuctionIds |-> Part(j, u)]
           g == [j \in AuctionIds \union {n} |-> Part(j, u)']
<1>1. AuctionIds' = AuctionIds \union {n} /\ n \notin AuctionIds
  BY AuctionsFinite DEF AuctionIds
<1>2. /\ \A j \in AuctionIds : g[j] = f[j] /\ f[j] \in Int
      /\ g[n] = 0
  BY DEF Part, AuctionTypeOK, Auctions
<1>3. Spent(u) = SumFunctionOnSet(f, AuctionIds)
      /\ Spent(u)' = SumFunctionOnSet(g, AuctionIds \union {n})
  BY <1>1 DEF Spent
<1> HIDE DEF f, g
<1>4. SumFunctionOnSet(g, AuctionIds \union {n}) = g[n] + SumFunctionOnSet(g, AuctionIds)
  <2>1. \A x \in AuctionIds \union {n} : g[x] \in Int
    BY <1>2
  <2> HIDE DEF n
  <2> QED
    BY <1>1, <2>1, AuctionsFinite, SumAdd
<1>5. SumFunctionOnSet(g, AuctionIds) = SumFunctionOnSet(f, AuctionIds)
  BY <1>2, AuctionsFinite, SumSame
<1>6. SumFunctionOnSet(f, AuctionIds) \in Int
  BY <1>2, AuctionsFinite, SumInt
<1> QED
  BY <1>2, <1>3, <1>4, <1>5, <1>6

LEMMA SpentSame ==
    ASSUME UNCHANGED <<nextAuction, auction>>, NEW u
    PROVE  Spent(u)' = Spent(u)
<1>1. AuctionIds' = AuctionIds
  BY DEF AuctionIds
<1>2. [j \in AuctionIds |-> Part(j, u)]' = [j \in AuctionIds |-> Part(j, u)]
  BY <1>1 DEF Part
<1> QED
  BY <1>1, <1>2, Zenon DEF Spent

(* The sum BiddersMadeWhole speaks of. *)
LEMMA SpentStands ==
    ASSUME AuctionTypeOK, NEW u \in Users
    PROVE  StandingBids({i \in AuctionIds :
              auction[i].bidder = u /\ auction[i].state # "Cancelled"}) = Spent(u)
<1> DEFINE Q == {i \in AuctionIds : auction[i].bidder = u /\ auction[i].state # "Cancelled"}
           f == [i \in AuctionIds |-> auction[i].highest]
           g == [i \in AuctionIds |-> Part(i, u)]
<1>1. \A i \in AuctionIds : f[i] \in Int
  BY AuctionFields
<1>2. \A i \in AuctionIds : g[i] = IF i \in Q THEN f[i] ELSE 0
  BY DEF Part
<1>3. {i \in Q : HasBidder(i)} = Q
  BY FeeAssumption DEF HasBidder
<1>4. StandingBids(Q) = SumFunctionOnSet(f, Q)
  BY <1>3, Zenon DEF StandingBids
<1>5. Q \in SUBSET AuctionIds
  OBVIOUS
<1> HIDE DEF Q, f, g
<1>6. SumFunctionOnSet(f, Q) = SumFunctionOnSet(g, AuctionIds)
  BY <1>1, <1>2, <1>5, AuctionsFinite, SumOfPart
<1> QED
  BY <1>4, <1>6 DEF Spent, Q, g

(* A step that makes nobody poorer than the bids it adds, and richer only  *)
(* those who may have other income, keeps everyone whole.                  *)
LEMMA StaysWhole ==
    ASSUME WholeInv, HouseTypes', AuctionIds \subseteq AuctionIds',
           \A i \in AuctionIds : auction'[i].seller = auction[i].seller,
           \A u \in Users :
              /\ balance'[u] + Spent(u)' >= balance[u] + Spent(u)
              /\ balance'[u] + Spent(u)' = balance[u] + Spent(u) \/ Earns(u)
    PROVE  MadeWhole'
<1> SUFFICES ASSUME NEW u \in Users
             PROVE  /\ balance'[u] + Spent(u)' >= StartBalance
                    /\ balance'[u] + Spent(u)' = StartBalance \/ Earns(u)'
  BY DEF MadeWhole
<1>1. Earns(u) => Earns(u)'
  BY Zenon DEF Earns
<1>2. /\ balance[u] \in Nat /\ balance'[u] \in Nat
      /\ Spent(u) \in Nat /\ Spent(u)' \in Nat /\ StartBalance \in Nat
  <2>1. Spent(u) \in Nat /\ balance[u] \in Nat
    BY SpentNat DEF WholeInv, IndInv, HouseInv, HouseTypes, LedgerTypeOK, Accounts
  <2>2. Spent(u)' \in Nat
    <3>1. \A i \in AuctionIds' : Part(i, u)' \in Nat
      <4>1. auction' \in [AuctionIds' -> Auctions]
        BY DEF HouseTypes, AuctionTypeOK
      <4> QED
        BY <4>1 DEF Part, Auctions
    <3>2. IsFiniteSet(AuctionIds')
      BY FS_Interval DEF HouseTypes, AuctionTypeOK, AuctionIds
    <3> DEFINE g == [i \in AuctionIds' |-> Part(i, u)']
    <3>3. \A i \in AuctionIds' : g[i] \in Nat
      BY <3>1
    <3> HIDE DEF g
    <3>4. SumFunctionOnSet(g, AuctionIds') \in Nat
      BY <3>2, <3>3, SumNat
    <3> QED
      BY <3>4 DEF Spent, g
  <2>3. balance'[u] \in Nat
    BY DEF HouseTypes, LedgerTypeOK, Accounts
  <2> QED
    BY <2>1, <2>2, <2>3, LedgerAssumption
<1> QED
  BY <1>1, <1>2 DEF WholeInv, MadeWhole

(* A bidder pays the bid and gets the displaced one back. *)
LEMMA BidWhole ==
    ASSUME WholeInv, HouseTypes',
           NEW i, NEW u \in Users, NEW x \in BidAmounts, PlaceBid(i, u, x)
    PROVE  MadeWhole'
<1>0. HouseTypes /\ GoodAuctions /\ HouseTypes'
  BY DEF WholeInv, IndInv, HouseInv
<1>1. /\ i \in AuctionIds /\ x \in Nat /\ Pending(i)
      /\ \A j \in AuctionIds : j # i => auction'[j] = auction[j]
      /\ auction'[i].highest = x /\ auction'[i].bidder = u
      /\ Untouched(i) /\ auction'[i].state = auction[i].state
  BY <1>0, BidRecord
<1>2. /\ balance' \in [Accounts -> Nat]
      /\ balance'[Contract] = balance[Contract] + x - auction[i].highest
      /\ \A v \in Users :
            balance'[v] = balance[v] - (IF v = u THEN x ELSE 0)
                            + (IF v = auction[i].bidder THEN auction[i].highest ELSE 0)
  <2>1. x \in Nat
    BY <1>1
  <2> QED
    BY <1>0, <2>1, BidMoney
<1>3. UNCHANGED nextAuction /\ AuctionIds' = AuctionIds
  BY DEF PlaceBid, AuctionIds
<1>4. ASSUME NEW v \in Users
      PROVE  balance'[v] + Spent(v)' = balance[v] + Spent(v)
  <2>1. Spent(v)' = Spent(v) + Part(i, v)' - Part(i, v)
    BY <1>0, <1>1, <1>3, SpentChange DEF HouseTypes
  <2>2. /\ Part(i, v)' = IF v = u THEN x ELSE 0
        /\ Part(i, v) = IF v = auction[i].bidder THEN auction[i].highest ELSE 0
    BY <1>1 DEF Part, Pending
  <2>3. /\ balance[v] \in Nat /\ Spent(v) \in Nat
        /\ Part(i, v)' \in Nat /\ Part(i, v) \in Nat
    BY <1>0, <1>1, <2>2, SpentNat, AuctionFields DEF HouseTypes, LedgerTypeOK, Accounts
  <2>4. balance'[v] = balance[v] - Part(i, v)' + Part(i, v)
    BY <1>2, <2>2
  <2> QED
    BY <2>1, <2>3, <2>4
<1>5. \A j \in AuctionIds : auction'[j].seller = auction[j].seller
  BY <1>1 DEF Untouched
<1>6. \A v \in Users : balance'[v] + Spent(v)' \in Int
  BY <1>0, <1>1, <1>2, <1>4, SpentNat DEF HouseTypes, LedgerTypeOK, Accounts
<1> QED
  BY <1>0, <1>3, <1>4, <1>5, <1>6, StaysWhole

(* A winner has spent the winning bid; creator and seller earn theirs. *)
LEMMA SettleWhole ==
    ASSUME WholeInv, HouseTypes', NEW i, SettleAuction(i)
    PROVE  MadeWhole'
<1>0. HouseTypes /\ GoodAuctions
  BY DEF WholeInv, IndInv, HouseInv
<1>1. /\ i \in AuctionIds /\ Pending(i)
      /\ auction' = [auction EXCEPT ![i].state = "Executed"]
      /\ UNCHANGED nextAuction
      /\ balance' \in [Accounts -> Nat]
      /\ \A v \in Users :
            /\ balance'[v] >= balance[v]
            /\ v # Royalty.creator /\ v # auction[i].seller => balance'[v] = balance[v]
  BY <1>0, SettleFacts DEF Ended
<1>2. /\ \A j \in AuctionIds : j # i => auction'[j] = auction[j]
      /\ auction'[i].state = "Executed"
      /\ auction'[i].highest = auction[i].highest
      /\ auction'[i].bidder = auction[i].bidder
      /\ Untouched(i)
  BY <1>0, <1>1, StateWritten DEF HouseTypes, AuctionStates
<1>3. AuctionIds' = AuctionIds
  BY <1>1 DEF AuctionIds
<1>4. ASSUME NEW v \in Users
      PROVE  /\ balance'[v] + Spent(v)' >= balance[v] + Spent(v)
             /\ balance'[v] + Spent(v)' = balance[v] + Spent(v) \/ Earns(v)
  <2>1. Spent(v)' = Spent(v) + Part(i, v)' - Part(i, v)
    BY <1>0, <1>1, <1>2, SpentChange DEF HouseTypes
  <2>2. Part(i, v)' = Part(i, v)
    BY <1>1, <1>2 DEF Part, Pending
  <2>3. /\ balance[v] \in Nat /\ balance'[v] \in Nat /\ Spent(v) \in Nat /\ Part(i, v) \in Nat
    BY <1>0, <1>1, SpentNat, PartNat DEF HouseTypes, LedgerTypeOK, Accounts
  <2>4. balance'[v] = balance[v] \/ Earns(v)
    BY <1>1 DEF Earns
  <2> QED
    BY <1>1, <2>1, <2>2, <2>3, <2>4
<1>5. \A j \in AuctionIds : auction'[j].seller = auction[j].seller
  BY <1>2 DEF Untouched
<1> QED
  BY <1>3, <1>4, <1>5, StaysWhole

(* Without a buyer the standing bid comes back, when there is one. *)
LEMMA ReturnWhole ==
    ASSUME WholeInv, HouseTypes', NEW i \in AuctionIds, Pending(i), ReturnAll(i),
           NEW s \in {"Executed", "Cancelled"},
           auction' = [auction EXCEPT ![i].state = s],
           s = "Executed" => auction[i].highest = 0
    PROVE  MadeWhole'
<1>0. HouseTypes /\ GoodAuctions
  BY DEF WholeInv, IndInv, HouseInv
<1>1. /\ UNCHANGED nextAuction
      /\ \A v \in Users :
            balance'[v] = balance[v] + (IF v = auction[i].bidder THEN auction[i].highest ELSE 0)
  BY <1>0, ReturnFacts
<1>2. /\ \A j \in AuctionIds : j # i => auction'[j] = auction[j]
      /\ auction'[i].state = s
      /\ auction'[i].highest = auction[i].highest
      /\ auction'[i].bidder = auction[i].bidder
      /\ Untouched(i)
  BY <1>0, StateWritten DEF HouseTypes, AuctionStates
<1>3. AuctionIds' = AuctionIds
  BY <1>1 DEF AuctionIds
<1>4. ASSUME NEW v \in Users
      PROVE  /\ balance'[v] + Spent(v)' = balance[v] + Spent(v)
             /\ balance[v] + Spent(v) \in Int
  <2>1. Spent(v)' = Spent(v) + Part(i, v)' - Part(i, v)
    BY <1>0, <1>1, <1>2, SpentChange DEF HouseTypes
  <2>2. auction[i].highest \in Nat /\ balance[v] \in Nat /\ Spent(v) \in Nat
    BY <1>0, SpentNat, AuctionFields DEF HouseTypes, LedgerTypeOK, Accounts
  <2>3. /\ Part(i, v)' = 0
        /\ Part(i, v) = IF v = auction[i].bidder THEN auction[i].highest ELSE 0
    BY <1>2 DEF Part, Pending
  <2> QED
    BY <1>1, <2>1, <2>2, <2>3
<1>5. \A j \in AuctionIds : auction'[j].seller = auction[j].seller
  BY <1>2 DEF Untouched
<1> QED
  BY <1>3, <1>4, <1>5, StaysWhole

(* Every step keeps everybody whole. *)
LEMMA InductiveWhole == WholeInv /\ [Next]_vars => WholeInv'
<1> SUFFICES ASSUME WholeInv, [Next]_vars PROVE WholeInv'
  OBVIOUS
<1>0. HouseTypes /\ GoodAuctions
  BY DEF WholeInv, IndInv, HouseInv
<1>1. IndInv' /\ HouseTypes'
  BY Inductive DEF WholeInv, IndInv, HouseInv
<1>2. \A v \in Users : balance[v] \in Nat /\ Spent(v) \in Nat
  BY <1>0, SpentNat DEF HouseTypes, LedgerTypeOK, Accounts
<1>3. ASSUME UNCHANGED <<balance, nextAuction, auction>> PROVE MadeWhole'
  <2>1. \A v \in Users : Spent(v)' = Spent(v)
    BY <1>3, SpentSame
  <2>2. AuctionIds' = AuctionIds
    BY <1>3 DEF AuctionIds
  <2> QED
    BY <1>1, <1>2, <1>3, <2>1, <2>2, StaysWhole
<1>4. MadeWhole'
  <2>1. CASE AuctionNext
    <3>1. ASSUME NEW s \in Users, NEW t \in Tokens, NEW k \in Kinds, NEW p \in StartPrices,
                 NEW r \in Reserves, NEW d \in AuctionDurations, NEW c \in Increments,
                 CreateAuction(s, t, k, p, r, d, c)
          PROVE  MadeWhole'
      <4>1. /\ nextAuction' = nextAuction + 1
            /\ AuctionIds' = AuctionIds \union {nextAuction}
            /\ \A j \in AuctionIds : auction'[j] = auction[j]
            /\ auction'[nextAuction].highest = 0
            /\ UNCHANGED balance
        BY <1>0, <3>1, CreateFacts
      <4>2. \A v \in Users : Spent(v)' = Spent(v)
        BY <1>0, <4>1, SpentAdded DEF HouseTypes
      <4> QED
        BY <1>1, <1>2, <4>1, <4>2, StaysWhole
    <3>2. CASE \E i \in 1..MaxAuctions, u \in Users, x \in BidAmounts : PlaceBid(i, u, x)
      BY <1>1, <3>2, BidWhole
    <3>3. CASE \E i \in 1..MaxAuctions : SettleAuction(i)
      BY <1>1, <3>3, SettleWhole
    <3>4. CASE \E i \in 1..MaxAuctions : CloseUnsold(i)
      <4>1. PICK i : CloseUnsold(i)
        BY <3>4
      <4>2. /\ i \in AuctionIds /\ Pending(i) /\ ReturnAll(i) /\ auction[i].highest = 0
            /\ auction' = [auction EXCEPT ![i].state = "Executed"]
        BY <1>0, <4>1, UnsoldHasNoBidder DEF Ended
      <4> QED
        BY <1>1, <4>2, ReturnWhole
    <3>5. CASE \E i \in 1..MaxAuctions : CancelAuctionWithRefund(i)
      <4>1. PICK i : CancelAuctionWithRefund(i)
        BY <3>5
      <4>2. /\ i \in AuctionIds /\ Pending(i) /\ ReturnAll(i)
            /\ auction' = [auction EXCEPT ![i].state = "Cancelled"]
        BY <4>1, CancelFacts
      <4> QED
        BY <1>1, <4>2, ReturnWhole
    <3>6. CASE \E i \in 1..MaxAuctions : GetDutchAuctionPrice(i)
      BY <1>3, <3>6 DEF GetDutchAuctionPrice, ledgerVars
    <3> QED
      BY <2>1, <3>1, <3>2, <3>3, <3>4, <3>5, <3>6 DEF AuctionNext
  <2>2. CASE LedgerStep
    BY <1>3, <2>2 DEF LedgerStep, LedgerNext, CloseLedger, TransferOutside, assetVars, auctionVars
  <2>3. CASE AccessStep
    BY <1>3, <2>3 DEF AccessStep, ledgerVars, auctionVars
  <2>4. CASE FeeStep
    <3>1. CASE \E c \in FeeConfigs : UpdateFeeConfig(c)
      BY <1>3, <2>4, <3>1 DEF UpdateFeeConfig, FeeStep, assetVars, auctionVars
    <3>2. CASE \E to \in Users : WithdrawPlatformFees(to)
      <4>1. PICK to \in Users : WithdrawPlatformFees(to)
        BY <3>2
      <4>2. UNCHANGED <<nextAuction, auction>> /\ AuctionIds' = AuctionIds
        BY <2>4 DEF FeeStep, auctionVars, AuctionIds
      <4>3. \A v \in Users : Spent(v)' = Spent(v)
        BY <4>2, SpentSame
      <4>4. \A v \in Users : Earns(v)
        BY <4>1 DEF WithdrawPlatformFees, WholeInv, ConfigSubmitted, Earns
      <4>5. \A v \in Users : balance'[v] >= balance[v]
        <5>1. \A v \in Users : v \in Accounts /\ v # Contract
          BY LedgerAssumption DEF Accounts
        <5>2. accumulated \in Nat
          BY <1>0 DEF HouseTypes, FeeTypeOK
        <5> QED
          BY <1>2, <4>1, <5>1, <5>2 DEF WithdrawPlatformFees, PayOut, Received
      <4>6. \A v \in Users : balance'[v] \in Nat
        BY <1>1 DEF HouseTypes, LedgerTypeOK, Accounts
      <4> QED
        BY <1>1, <1>2, <4>2, <4>3, <4>4, <4>5, <4>6, StaysWhole
    <3> QED
      BY <2>4, <3>1, <3>2 DEF FeeStep, FeeNext
  <2>5. CASE UNCHANGED vars
    BY <1>3, <2>5 DEF vars, ledgerVars, auctionVars
  <2> QED
    BY <2>1, <2>2, <2>3, <2>4, <2>5 DEF Next
<1>5. ConfigSubmitted'
  <2>1. CASE FeeStep
    BY <2>1 DEF FeeStep, FeeNext, UpdateFeeConfig, WithdrawPlatformFees, WholeInv, ConfigSubmitted
  <2>2. CASE AuctionNext
    <3>1. UNCHANGED feeConfig
      <4>1. ASSUME NEW s, NEW t, NEW k, NEW p, NEW r, NEW d, NEW c,
                   CreateAuction(s, t, k, p, r, d, c)
            PROVE  UNCHANGED feeConfig
        BY <4>1 DEF CreateAuction, feeVars
      <4>2. ASSUME NEW i, NEW u, NEW x, PlaceBid(i, u, x) PROVE UNCHANGED feeConfig
        BY <4>2 DEF PlaceBid, feeVars
      <4>3. ASSUME NEW i, SettleAuction(i) PROVE UNCHANGED feeConfig
        BY <4>3 DEF SettleAuction
      <4>4. ASSUME NEW i, CloseUnsold(i) \/ CancelAuctionWithRefund(i) PROVE UNCHANGED feeConfig
        BY <4>4 DEF CloseUnsold, CancelAuctionWithRefund, ReturnAll, feeVars
      <4>5. ASSUME NEW i, GetDutchAuctionPrice(i) PROVE UNCHANGED feeConfig
        BY <4>5 DEF GetDutchAuctionPrice, feeVars
      <4> QED
        BY <2>2, <4>1, <4>2, <4>3, <4>4, <4>5 DEF AuctionNext
    <3> QED
      BY <3>1 DEF WholeInv, ConfigSubmitted
  <2>3. CASE LedgerStep \/ AccessStep \/ UNCHANGED vars
    BY <2>3 DEF LedgerStep, AccessStep, vars, feeVars, WholeInv, ConfigSubmitted
  <2> QED
    BY <2>1, <2>2, <2>3 DEF Next
<1> QED
  BY <1>1, <1>4, <1>5 DEF WholeInv

LEMMA InitWhole == Init => WholeInv
<1> SUFFICES ASSUME Init PROVE WholeInv
  OBVIOUS
<1>1. IndInv
  BY InitInd
<1>2. AuctionIds = {}
  BY DEF Init, AuctionInit, AuctionIds
<1>3. \A u \in Users : Spent(u) = 0
  BY <1>2, SumEmpty DEF Spent
<1>4. \A u \in Users : balance[u] = StartBalance
  BY LedgerAssumption DEF Init, LedgerInit, Accounts
<1>5. MadeWhole
  BY <1>3, <1>4, LedgerAssumption DEF MadeWhole
<1>6. ConfigSubmitted
  BY DEF Init, FeeInit, ConfigSubmitted
<1> QED
  BY <1>1, <1>5, <1>6 DEF WholeInv

(* Nobody has parted with more than the bids that stand or have won, and   *)
(* who only ever bid has not got anything else either: every outbid or     *)
(* aborted bid came back in full.                                          *)
THEOREM BiddersAreMadeWhole == Spec => []BiddersMadeWhole
<1>1. Spec => []WholeInv
  BY InitWhole, InductiveWhole, PTL DEF Spec
<1>2. WholeInv => BiddersMadeWhole
  <2> SUFFICES ASSUME WholeInv, NEW u \in Users
      PROVE  LET spent == StandingBids({i \in AuctionIds :
                    auction[i].bidder = u /\ auction[i].state # "Cancelled"})
             IN  /\ balance[u] >= StartBalance - spent
                 /\ \/ balance[u] = StartBalance - spent
                    \/ Earns(u)
    BY Zenon DEF BiddersMadeWhole, Earns
  <2>1. HouseTypes
    BY DEF WholeInv, IndInv, HouseInv
  <2>2. StandingBids({i \in AuctionIds :
            auction[i].bidder = u /\ auction[i].state # "Cancelled"}) = Spent(u)
    BY <2>1, SpentStands DEF HouseTypes
  <2>3. balance[u] \in Nat /\ Spent(u) \in Nat
    BY <2>1, SpentNat DEF HouseTypes, LedgerTypeOK, Accounts
  <2> DEFINE spent == StandingBids({i \in AuctionIds :
            auction[i].bidder = u /\ auction[i].state # "Cancelled"})
  <2>4. spent = Spent(u)
    BY <2>2
  <2> HIDE DEF spent
  <2>5. /\ balance[u] >= StartBalance - spent
        /\ \/ balance[u] = StartBalance - spent
           \/ Earns(u)
    BY <2>3, <2>4, LedgerAssumption DEF WholeInv, MadeWhole
  <2> QED
    BY <2>5 DEF spent
<1> QED
  BY <1>1, <1>2, PTL
=============================================================================
