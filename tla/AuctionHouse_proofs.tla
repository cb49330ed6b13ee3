------------------------- MODULE AuctionHouse_proofs -------------------------
(***************************************************************************)
(* Lemmas about the auction house (auction_engine.rs) whoever composes it: *)
(* what its entrypoints do to the bid histories, to the tokens the         *)
(* contract holds and to the money of the standing bidders.                *)
(***************************************************************************)
EXTENDS AuctionHouse, FeeManager_proofs, SequenceTheorems

-----------------------------------------------------------------------------
(* Bid histories.  The lookups of AuctionHouse as functions of a history.  *)
BidsIn(h, u) == {k \in DOMAIN h : h[k].bidder = u}
FirstIn(h, u) == CHOOSE k \in BidsIn(h, u) : \A j \in BidsIn(h, u) : k <= j

(* The history with the bidder's bid marked refunded. *)
Marked(h, u) == [h EXCEPT ![FirstIn(h, u)].refunded = TRUE]

(* Nothing in the history h is due to u any more. *)
PaidBack(h, u) == BidsIn(h, u) # {} => h[FirstIn(h, u)].refunded

(* What every auction's record and history satisfy: the standing bid       *)
(* reached starting price and reserve, everybody else has been paid back,  *)
(* after a cancellation the standing bidder too, and the end is a full     *)
(* window after the last bid.                                              *)
GoodAuction(i) ==
    LET a == auction[i]
        h == bids[i]
    IN  /\ a.state # "Resolved"
        /\ a.reserve <= a.starting
        /\ ~HasBidder(i) => a.highest = 0 /\ h = <<>>
        /\ HasBidder(i) =>
              /\ a.highest >= a.starting /\ a.highest > 0
              /\ h # <<>>
              /\ a.endTime >= h[Len(h)].at + ExtensionWindow
        /\ \A u \in Users : u # a.bidder => PaidBack(h, u)
        /\ a.state = "Cancelled" => PaidBack(h, a.bidder)

GoodAuctions == \A i \in AuctionIds : GoodAuction(i)

(* The contract holds the tokens offered in open auctions, one each, and   *)
(* besides them exactly those in `held', which are none of the auctions'.  *)
HoldsOffers(held) ==
    /\ \A i, j \in OpenAuctions : auction[i].token = auction[j].token => i = j
    /\ \A i \in OpenAuctions : auction[i].token \notin held
    /\ \A t \in Tokens :
          owner[t] = Contract <=> t \in held \/ \E i \in OpenAuctions : auction[i].token = t

(* The prices of Dutch auctions stay above the reserve, and were last      *)
(* asked for in the past.                                                  *)
GoodPrices ==
    \A i \in DOMAIN dutch :
        dutch[i].price >= auction[i].reserve /\ dutch[i].updated <= now

(* What an auction holds of its standing bidder's money. *)
Stake(i) == IF Pending(i) THEN auction[i].highest ELSE 0
Stakes == SumFunctionOnSet([i \in AuctionIds |-> Stake(i)], AuctionIds)
StakesBooked == balance[Contract] = accumulated + Stakes

HouseTypes == LedgerTypeOK /\ AccessTypeOK /\ FeeTypeOK /\ AuctionTypeOK

HouseInv(held) ==
    /\ HouseTypes
    /\ GoodAuctions
    /\ GoodPrices
    /\ HoldsOffers(held)
    /\ StakesBooked

(* What no entrypoint changes in an auction's record. *)
Untouched(i) ==
    /\ auction'[i].seller = auction[i].seller
    /\ auction'[i].token = auction[i].token
    /\ auction'[i].starting = auction[i].starting
    /\ auction'[i].reserve = auction[i].reserve
    /\ auction'[i].increment = auction[i].increment

-----------------------------------------------------------------------------
(* The first bid of a bidder is one of the bidder's, and the first. *)
LEMMA FirstIsFirst ==
    ASSUME NEW h \in Seq(BidRecords), NEW u, BidsIn(h, u) # {}
    PROVE  /\ FirstIn(h, u) \in BidsIn(h, u)
           /\ \A j \in BidsIn(h, u) : FirstIn(h, u) <= j
           /\ FirstIn(h, u) \in 1..Len(h)
<1>1. BidsIn(h, u) \in SUBSET Nat /\ BidsIn(h, u) \subseteq 1..Len(h)
  BY DEF BidsIn
<1>2. \E k \in BidsIn(h, u) : \A j \in BidsIn(h, u) : k <= j
  BY <1>1, LeastElement, Zenon
<1>3. /\ FirstIn(h, u) \in BidsIn(h, u)
      /\ \A j \in BidsIn(h, u) : FirstIn(h, u) <= j
  BY <1>2, Zenon DEF FirstIn
<1> QED
  BY <1>1, <1>3

(* The lookups depend on the bidders of the bids alone. *)
LEMMA SameBidders ==
    ASSUME NEW h \in Seq(BidRecords), NEW g \in Seq(BidRecords), Len(g) = Len(h),
           \A k \in 1..Len(h) : g[k].bidder = h[k].bidder,
           NEW u
    PROVE  BidsIn(g, u) = BidsIn(h, u) /\ FirstIn(g, u) = FirstIn(h, u)
<1>1. BidsIn(g, u) = BidsIn(h, u)
  BY DEF BidsIn
<1> QED
  BY <1>1, Zenon DEF FirstIn

(* Marking a bidder's bid refunded pays back that bidder, and leaves what  *)
(* is due to the others as it was.                                         *)
LEMMA MarkRefunded ==
    ASSUME NEW h \in Seq(BidRecords), NEW u, BidsIn(h, u) # {}
    PROVE  /\ Marked(h, u) \in Seq(BidRecords) /\ Len(Marked(h, u)) = Len(h)
           /\ \A k \in 1..Len(h) : /\ Marked(h, u)[k].bidder = h[k].bidder
                                   /\ Marked(h, u)[k].at = h[k].at
           /\ PaidBack(Marked(h, u), u)
           /\ \A v : PaidBack(h, v) => PaidBack(Marked(h, u), v)
<1> DEFINE f == FirstIn(h, u)
           g == Marked(h, u)
<1>1. f \in 1..Len(h)
  BY FirstIsFirst
<1> HIDE DEF f
<1> DEFINE r == [h[f] EXCEPT !.refunded = TRUE]
<1>2. g = [h EXCEPT ![f] = r]
  BY Zenon DEF f, Marked
<1> HIDE DEF g
<1>3. h[f] \in BidRecords
  BY <1>1
<1>4. /\ r \in BidRecords /\ r.refunded
      /\ r.bidder = h[f].bidder /\ r.at = h[f].at
  BY <1>3 DEF BidRecords
<1> HIDE DEF r
<1>5. /\ g \in Seq(BidRecords) /\ Len(g) = Len(h)
  <2>1. [h EXCEPT ![f] = r] \in Seq(BidRecords) /\ Len([h EXCEPT ![f] = r]) = Len(h)
    BY <1>1, <1>4, ExceptSeq
  <2> QED
    BY <1>2, <2>1, Zenon
<1>6. \A k \in 1..Len(h) : /\ g[k].bidder = h[k].bidder /\ g[k].at = h[k].at
                           /\ h[k].refunded => g[k].refunded
  BY <1>1, <1>2, <1>4
<1>7. g[f].refunded
  BY <1>1, <1>2, <1>4
<1>8. \A v : BidsIn(g, v) = BidsIn(h, v) /\ FirstIn(g, v) = FirstIn(h, v)
  BY <1>5, <1>6, SameBidders
<1>9. ASSUME NEW v, PaidBack(h, v) PROVE PaidBack(g, v)
  <2> SUFFICES ASSUME BidsIn(h, v) # {} PROVE g[FirstIn(h, v)].refunded
    BY <1>8 DEF PaidBack
  <2>1. FirstIn(h, v) \in 1..Len(h)
    BY FirstIsFirst
  <2> QED
    BY <1>6, <1>9, <2>1 DEF PaidBack
<1>10. PaidBack(g, u)
  BY <1>7, <1>8 DEF PaidBack, f
<1> QED
  BY <1>5, <1>6, <1>9, <1>10 DEF g

(* A bid appended by u leaves the others' histories as they were. *)
LEMMA AppendBid ==
    ASSUME NEW h \in Seq(BidRecords), NEW b \in BidRecords,
           NEW v, v # b.bidder, PaidBack(h, v)
    PROVE  PaidBack(Append(h, b), v)
<1> DEFINE g == Append(h, b)
<1>1. /\ g \in Seq(BidRecords) /\ Len(g) = Len(h) + 1
      /\ \A k \in 1..Len(h) : g[k] = h[k]
      /\ g[Len(g)] = b
  OBVIOUS
<1> HIDE DEF g
<1>2. BidsIn(g, v) = BidsIn(h, v)
  BY <1>1 DEF BidsIn
<1>3. FirstIn(g, v) = FirstIn(h, v)
  BY <1>2, Zenon DEF FirstIn
<1>4. BidsIn(h, v) # {} => FirstIn(h, v) \in 1..Len(h)
  BY FirstIsFirst
<1> QED
  BY <1>1, <1>2, <1>3, <1>4 DEF PaidBack, g

(* The lookups of AuctionHouse in these terms. *)
LEMMA Lookups ==
    ASSUME NEW i, NEW u
    PROVE  /\ BidsBy(i, u) = BidsIn(bids[i], u)
           /\ FirstBy(i, u) = FirstIn(bids[i], u)
           /\ Refunded(i, u) = Marked(bids[i], u)
           /\ Refundable(i, u) <=> ~PaidBack(bids[i], u)
<1>1. BidsBy(i, u) = BidsIn(bids[i], u) /\ FirstBy(i, u) = FirstIn(bids[i], u)
  BY Zenon DEF BidsBy, FirstBy, BidsIn, FirstIn
<1> QED
  BY <1>1, Zenon DEF Refunded, Refundable, PaidBack, Marked

-----------------------------------------------------------------------------
(* Sums over auctions. *)

(* The auctions are finitely many. *)
LEMMA AuctionsFinite ==
    ASSUME AuctionTypeOK
    PROVE  /\ IsFiniteSet(AuctionIds)
           /\ nextAuction \in Nat /\ nextAuction > 0
           /\ AuctionIds \subseteq Nat
<1>1. nextAuction \in Nat /\ nextAuction > 0
  BY AuctionAssumption DEF AuctionTypeOK
<1> QED
  BY <1>1, FS_Interval DEF AuctionIds

(* The standing bids of the open auctions are the auctions' stakes. *)
LEMMA StakesStand ==
    ASSUME AuctionTypeOK, GoodAuctions
    PROVE  StandingBids(OpenAuctions) = Stakes
<1> DEFINE f == [i \in AuctionIds |-> auction[i].highest]
           g == [i \in AuctionIds |-> Stake(i)]
           S == {i \in OpenAuctions : HasBidder(i)}
<1>1. \A i \in AuctionIds : f[i] \in Int
  BY DEF AuctionTypeOK, Auctions
<1>2. \A i \in AuctionIds : g[i] = IF i \in S THEN f[i] ELSE 0
  BY DEF OpenAuctions, GoodAuctions, GoodAuction, Stake
<1>3. S \in SUBSET AuctionIds
  BY DEF OpenAuctions
<1> HIDE DEF f, g, S
<1>4. SumFunctionOnSet(f, S) = SumFunctionOnSet(g, AuctionIds)
  BY <1>1, <1>2, <1>3, AuctionsFinite, SumOfPart
<1> QED
  BY <1>4 DEF StandingBids, Stakes, f, g, S

(* A change of one auction changes the stakes by as much. *)
LEMMA StakeChange ==
    ASSUME AuctionTypeOK, AuctionTypeOK', UNCHANGED nextAuction, NEW i \in AuctionIds,
           \A j \in AuctionIds : j # i => auction'[j] = auction[j]
    PROVE  Stakes' = Stakes + Stake(i)' - Stake(i)
<1> DEFINE f == [j \in AuctionIds |-> Stake(j)]
           g == [j \in AuctionIds |-> Stake(j)']
<1>1. AuctionIds' = AuctionIds
  BY DEF AuctionIds
<1>2. \A j \in AuctionIds : Stake(j) \in Int /\ Stake(j)' \in Int
  <2>1. \A j \in AuctionIds : auction[j].highest \in Int /\ auction'[j].highest \in Int
    <3>1. auction \in [AuctionIds -> Auctions] /\ auction' \in [AuctionIds -> Auctions]
      BY <1>1 DEF AuctionTypeOK
    <3> QED
      BY <3>1 DEF Auctions
  <2> QED
    BY <2>1 DEF Stake, Pending
<1>3. \A j \in AuctionIds : j # i => Stake(j)' = Stake(j)
  BY DEF Stake, Pending
<1>4. \A j \in AuctionIds : f[j] \in Int /\ g[j] \in Int
  BY <1>2
<1>5. \A j \in AuctionIds \ {i} : f[j] = g[j]
  BY <1>3
<1>6. f[i] = Stake(i) /\ g[i] = Stake(i)'
  OBVIOUS
<1>7. Stakes = SumFunctionOnSet(f, AuctionIds) /\ Stakes' = SumFunctionOnSet(g, AuctionIds)
  BY <1>1 DEF Stakes
<1> HIDE DEF f, g
<1>8. SumFunctionOnSet(g, AuctionIds) = SumFunctionOnSet(f, AuctionIds) + g[i] - f[i]
  BY <1>4, <1>5, AuctionsFinite, SumChange
<1> QED
  BY <1>6, <1>7, <1>8

(* The stakes are an amount of money. *)
LEMMA StakesNat ==
    ASSUME AuctionTypeOK
    PROVE  Stakes \in Nat
<1> DEFINE f == [j \in AuctionIds |-> Stake(j)]
<1>1. \A j \in AuctionIds : f[j] \in Nat
  BY DEF AuctionTypeOK, Auctions, Stake, Pending
<1> HIDE DEF f
<1>2. SumFunctionOnSet(f, AuctionIds) \in Nat
  BY <1>1, AuctionsFinite, SumNat
<1> QED
  BY <1>2 DEF Stakes, f

(* A new auction, without a bid, has no stake. *)
LEMMA StakeAdded ==
    ASSUME AuctionTypeOK, AuctionTypeOK', nextAuction' = nextAuction + 1,
           \A j \in AuctionIds : auction'[j] = auction[j],
           auction'[nextAuction].highest = 0
    PROVE  Stakes' = Stakes
<1> DEFINE n == nextAuction
           f == [j \in AuctionIds |-> Stake(j)]
           g == [j \in AuctionIds \union {n} |-> Stake(j)']
<1>1. AuctionIds' = AuctionIds \union {n} /\ n \notin AuctionIds
  BY AuctionsFinite DEF AuctionIds
<1>2. /\ \A j \in AuctionIds : g[j] = f[j] /\ f[j] \in Int
      /\ g[n] = 0
  BY DEF Stake, Pending, AuctionTypeOK, Auctions
<1>3. Stakes = SumFunctionOnSet(f, AuctionIds)
      /\ Stakes' = SumFunctionOnSet(g, AuctionIds \union {n})
  BY <1>1 DEF Stakes
<1> HIDE DEF f, g
<1>4. SumFunctionOnSet(g, AuctionIds \union {n}) = g[n] + SumFunctionOnSet(g, AuctionIds)
  <2>1. \A x \in AuctionIds \union {n} : g[x] \in Int
    BY <1>2
  <2> HIDE DEF n
  <2> QED
    BY <1>1, <2>1, AuctionsFinite, SumAdd
<1>5. SumFunctionOnSet(g, AuctionIds) = SumFunctionOnSet(f, AuctionIds)
  BY <1>2, AuctionsFinite, SumSame
<1>6. SumFunctionOnSet(f, AuctionIds) \in Int
  BY <1>2, AuctionsFinite, SumInt
<1> QED
  BY <1>2, <1>3, <1>4, <1>5, <1>6

-----------------------------------------------------------------------------
(* What the entrypoints do, one by one. *)

(* An auction's record has the fields it is declared with. *)
LEMMA AuctionFields ==
    ASSUME AuctionTypeOK, NEW i \in AuctionIds
    PROVE  /\ auction[i] \in Auctions
           /\ auction[i].seller \in Users /\ auction[i].token \in Tokens
           /\ auction[i].starting \in Nat /\ auction[i].reserve \in Nat
           /\ auction[i].highest \in Nat /\ auction[i].endTime \in Nat
           /\ auction[i].bidder \in Users \union {NoUser}
           /\ HasBidder(i) => auction[i].bidder \in Users
           /\ bids[i] \in Seq(BidRecords)
           /\ auction[i].state \in AuctionStates
BY DEF AuctionTypeOK, Auctions, HasBidder

(* The end after a bid is no earlier than before, and a full window away. *)
LEMMA ExtendedEndLater ==
    ASSUME HouseTypes, NEW i \in AuctionIds
    PROVE  /\ ExtendedEnd(i) \in Nat
           /\ ExtendedEnd(i) >= auction[i].endTime
           /\ ExtendedEnd(i) >= now + ExtensionWindow
<1>1. auction[i].endTime \in Nat /\ now \in Nat
  BY AuctionFields DEF HouseTypes, LedgerTypeOK
<1> QED
  BY <1>1, AuctionAssumption DEF ExtendedEnd, AtLeast

(* An accepted amount beats the standing bid by the configured percentage, *)
(* and the starting price.                                                 *)
LEMMA AcceptedAmount ==
    ASSUME HouseTypes, GoodAuctions, NEW i \in AuctionIds, NEW x \in Int,
           AmountAccepted(i, x)
    PROVE  /\ x \in Nat /\ x > 0
           /\ x > auction[i].highest /\ x >= auction[i].starting
           /\ (x - auction[i].highest) * 10000
                 > auction[i].highest * MinIncrementBps - 10000
<1> DEFINE s == auction[i].highest
<1>1. s \in Nat /\ auction[i].starting \in Nat
  BY AuctionFields DEF HouseTypes
<1>2. s > 0 => s >= auction[i].starting
  BY <1>1 DEF GoodAuctions, GoodAuction
<1>3. /\ x >= MinimumBidAmount /\ x > s
      /\ s > 0 => x >= s + (s * MinIncrementBps) \div 10000
      /\ ~(s > 0) => x >= auction[i].starting
  BY DEF AmountAccepted
<1> HIDE DEF s
<1>4. x \in Nat /\ x > 0
  BY <1>1, <1>3, AuctionAssumption
<1>5. x >= auction[i].starting
  BY <1>1, <1>2, <1>3
<1>6. (x - s) * 10000 > s * MinIncrementBps - 10000
  <2>1. PICK p \in Nat : p = s * MinIncrementBps
    BY <1>1, AuctionAssumption
  <2>2. CASE s > 0
    <3>1. x - s >= p \div 10000
      BY <1>1, <1>3, <2>1, <2>2
    <3> QED
      BY <1>1, <2>1, <3>1
  <2>3. CASE ~(s > 0)
    BY <1>1, <1>4, <2>3, AuctionAssumption
  <2> QED
    BY <2>2, <2>3
<1> QED
  BY <1>3, <1>4, <1>5, <1>6 DEF s

(* What a bid does to the history of the auction: nobody but the bidder    *)
(* has anything coming from it.                                            *)
LEMMA BidHistory ==
    ASSUME HouseTypes, GoodAuctions, NEW i \in AuctionIds, NEW u \in Users,
           NEW x \in Nat, PlaceBid(i, u, x)
    PROVE  /\ bids' \in [AuctionIds -> Seq(BidRecords)]
           /\ \A j \in AuctionIds : j # i => bids'[j] = bids[j]
           /\ bids'[i] # <<>> /\ bids'[i][Len(bids'[i])].at = now
           /\ \A v \in Users : v # u => PaidBack(bids'[i], v)
<1> DEFINE bid == [bidder |-> u, amount |-> x, at |-> now, refunded |-> FALSE]
           h == bids[i]
           w == auction[i].bidder
<1>1. bid \in BidRecords /\ bid.bidder = u /\ bid.at = now
  BY DEF HouseTypes, LedgerTypeOK, BidRecords
<1>2. /\ bids \in [AuctionIds -> Seq(BidRecords)] /\ h \in Seq(BidRecords)
      /\ HasBidder(i) => w \in Users
  BY AuctionFields DEF HouseTypes, AuctionTypeOK
<1>3. \A v \in Users : v # w => PaidBack(h, v)
  BY DEF GoodAuctions, GoodAuction
<1>4. \E g \in Seq(BidRecords) :
         /\ bids' = [bids EXCEPT ![i] = Append(g, bid)]
         /\ \A v \in Users : v # u => PaidBack(g, v)
  <2>1. CASE HasBidder(i)
    <3> DEFINE g == Refunded(i, w)
    <3>1. Refundable(i, w) /\ bids' = [bids EXCEPT ![i] = Append(g, bid)]
      BY <2>1 DEF PlaceBid
    <3>2. BidsIn(h, w) # {}
      BY <3>1, Lookups, Zenon DEF PaidBack
    <3>3. g = Marked(h, w)
      BY Lookups, Zenon
    <3> HIDE DEF g, h, w
    <3>4. /\ g \in Seq(BidRecords)
          /\ PaidBack(g, w)
          /\ \A v : PaidBack(h, v) => PaidBack(g, v)
      BY <1>2, <3>2, <3>3, MarkRefunded
    <3> QED
      BY <1>3, <3>1, <3>4
  <2>2. CASE ~HasBidder(i)
    <3>1. bids' = [bids EXCEPT ![i] = Append(h, bid)]
      BY <2>2, Zenon DEF PlaceBid
    <3>2. \A v \in Users : v # w
      BY <2>2, FeeAssumption DEF HasBidder
    <3> QED
      BY <1>2, <1>3, <3>1, <3>2
  <2> QED
    BY <2>1, <2>2
<1> HIDE DEF bid, h, w
<1>5. PICK g \in Seq(BidRecords) :
         /\ bids' = [bids EXCEPT ![i] = Append(g, bid)]
         /\ \A v \in Users : v # u => PaidBack(g, v)
  BY <1>4
<1>6. /\ Append(g, bid) \in Seq(BidRecords)
      /\ Append(g, bid) # <<>>
      /\ Append(g, bid)[Len(Append(g, bid))] = bid
  BY <1>1
<1>7. bids'[i] = Append(g, bid)
  BY <1>2, <1>5
<1>8. /\ bids' \in [AuctionIds -> Seq(BidRecords)]
      /\ \A j \in AuctionIds : j # i => bids'[j] = bids[j]
  BY <1>2, <1>5, <1>6
<1>9. \A v \in Users : v # u => PaidBack(Append(g, bid), v)
  BY <1>1, <1>5, AppendBid
<1> QED
  BY <1>1, <1>6, <1>7, <1>8, <1>9

(* What a bid does to the auction's record. *)
LEMMA BidRecord ==
    ASSUME HouseTypes, GoodAuctions, NEW i, NEW u \in Users, NEW x \in BidAmounts,
           PlaceBid(i, u, x)
    PROVE  /\ i \in AuctionIds /\ x \in Nat /\ x > 0
           /\ Pending(i) /\ now <= auction[i].endTime
           /\ x > auction[i].highest /\ x >= auction[i].starting
           /\ auction' \in [AuctionIds -> Auctions]
           /\ \A j \in AuctionIds : j # i => auction'[j] = auction[j]
           /\ auction'[i].highest = x /\ auction'[i].bidder = u
           /\ auction'[i].endTime = ExtendedEnd(i)
           /\ Untouched(i) /\ auction'[i].state = auction[i].state
<1>1. i \in AuctionIds /\ Pending(i) /\ now <= auction[i].endTime /\ AmountAccepted(i, x)
  BY DEF PlaceBid
<1>2. x \in Int
  BY AuctionAssumption
<1>3. auction' = [auction EXCEPT ![i].highest = x, ![i].bidder = u,
                                 ![i].endTime = ExtendedEnd(i)]
  BY Zenon DEF PlaceBid
<1>4. /\ x \in Nat /\ x > 0
      /\ x > auction[i].highest /\ x >= auction[i].starting
  BY <1>1, <1>2, AcceptedAmount
<1>5. ExtendedEnd(i) \in Nat
  BY <1>1, ExtendedEndLater
<1>6. auction \in [AuctionIds -> Auctions] /\ auction[i] \in Auctions
  BY <1>1, AuctionFields DEF HouseTypes, AuctionTypeOK
<1> DEFINE r == [auction[i] EXCEPT !.highest = x, !.bidder = u, !.endTime = ExtendedEnd(i)]
<1>7. r \in Auctions
  <2>1. x \in Nat
    BY <1>4
  <2> QED
    BY <1>5, <1>6, <2>1 DEF Auctions
<1>8. auction' = [auction EXCEPT ![i] = r]
  BY <1>1, <1>3, <1>6 DEF Auctions
<1> HIDE DEF r
<1>9. /\ auction' \in [AuctionIds -> Auctions]
      /\ \A j \in AuctionIds : j # i => auction'[j] = auction[j]
      /\ auction'[i] = r
  BY <1>1, <1>6, <1>7, <1>8
<1>10. /\ r.highest = x /\ r.bidder = u /\ r.endTime = ExtendedEnd(i)
       /\ r.seller = auction[i].seller /\ r.token = auction[i].token
       /\ r.starting = auction[i].starting /\ r.reserve = auction[i].reserve
       /\ r.increment = auction[i].increment /\ r.state = auction[i].state
  BY <1>6 DEF r, Auctions
<1>11. /\ auction'[i].highest = x /\ auction'[i].bidder = u
       /\ auction'[i].endTime = ExtendedEnd(i)
       /\ Untouched(i) /\ auction'[i].state = auction[i].state
  BY <1>9, <1>10, Zenon DEF Untouched
<1> QED
  BY <1>1, <1>4, <1>9, <1>11

(* The bid is paid in, the standing bid is paid back, nobody else is paid. *)
LEMMA BidMoney ==
    ASSUME HouseTypes, GoodAuctions, NEW i, NEW u \in Users, NEW x \in Nat,
           PlaceBid(i, u, x)
    PROVE  /\ balance' \in [Accounts -> Nat]
           /\ balance'[Contract] = balance[Contract] + x - auction[i].highest
           /\ \A v \in Users :
                 balance'[v] = balance[v] - (IF v = u THEN x ELSE 0)
                                 + (IF v = auction[i].bidder THEN auction[i].highest ELSE 0)
<1> DEFINE w == auction[i].bidder
           s == auction[i].highest
<1>1. /\ i \in AuctionIds /\ s \in Nat
      /\ HasBidder(i) => w \in Users
  <2>1. i \in AuctionIds
    BY DEF PlaceBid
  <2> QED
    BY <2>1, AuctionFields DEF HouseTypes
<1>2. /\ balance \in [Accounts -> Nat] /\ LedgerTypeOK
      /\ Contract \notin Users /\ Contract \in Accounts /\ Users \subseteq Accounts
  BY LedgerAssumption DEF HouseTypes, LedgerTypeOK, Accounts
<1>3. CASE HasBidder(i)
  <2>1. PayInThenOut(u, x, w, s, w, 0)
    BY <1>3 DEF PlaceBid
  <2>2. /\ balance' \in [Accounts -> Nat]
        /\ balance'[Contract] = balance[Contract] + x - (s + 0)
    BY <1>1, <1>2, <1>3, <2>1, PayInThenOutType
  <2>3. \A v \in Users : balance'[v] = balance[v] - (IF v = u THEN x ELSE 0)
                                         + (IF v = w THEN s ELSE 0)
    <3>1. ASSUME NEW v \in Users
          PROVE  balance'[v] = balance[v] - (IF v = u THEN x ELSE 0) + Received(v, w, s, w, 0)
      BY <1>2, <2>1 DEF PayInThenOut
    <3> HIDE DEF w, s
    <3>2. \A v \in Users : Received(v, w, s, w, 0) = IF v = w THEN s ELSE 0
      BY <1>1 DEF Received
    <3> QED
      BY <3>1, <3>2
  <2> HIDE DEF s
  <2> QED
    BY <1>1, <1>2, <2>2, <2>3 DEF s
<1>4. CASE ~HasBidder(i)
  <2>1. PayInThenOut(u, x, u, 0, u, 0)
    BY <1>4 DEF PlaceBid
  <2>2. /\ balance' \in [Accounts -> Nat]
        /\ balance'[Contract] = balance[Contract] + x - (0 + 0)
    BY <1>2, <2>1, PayInThenOutType
  <2>3. s = 0
    BY <1>1, <1>4 DEF GoodAuctions, GoodAuction
  <2>4. \A v \in Users : balance'[v] = balance[v] - (IF v = u THEN x ELSE 0)
    BY <1>2, <2>1 DEF PayInThenOut, Received
  <2> QED
    BY <1>2, <2>2, <2>3, <2>4
<1> QED
  BY <1>3, <1>4

(* The checks every rate limited entrypoint begins with. *)
LEMMA CheckedTypes ==
    ASSUME HouseTypes, NEW u \in Users, NEW f, BlockChecked(u), RateCounted(u, f),
           UNCHANGED adminVars
    PROVE  AccessTypeOK'
<1>1. AccessTypeOK /\ now \in Nat
  BY DEF HouseTypes, LedgerTypeOK
<1>2. /\ blocked' \in [Users -> [on : BOOLEAN, until : Nat]]
      /\ rate' \in [Users -> [RatedCalls -> [start : Nat, count : Nat]]]
  BY <1>1, BlockCheckedType, RateCountedType
<1> QED
  BY <1>1, <1>2 DEF AccessTypeOK, adminVars

(* A step that changes auction i and no other keeps the rest of the        *)
(* invariant, if the auction stays open and offers the same token.         *)
LEMMA OpenAuctionKeeps ==
    ASSUME NEW held, HouseInv(held), NEW i \in AuctionIds, Pending(i), Pending(i)',
           UNCHANGED <<now, owner, nextAuction, dutch>>,
           auction'[i].token = auction[i].token, auction'[i].reserve = auction[i].reserve,
           \A j \in AuctionIds : j # i => auction'[j] = auction[j] /\ bids'[j] = bids[j],
           GoodAuction(i)'
    PROVE  /\ GoodAuctions' /\ GoodPrices' /\ HoldsOffers(held)'
<1>1. AuctionIds' = AuctionIds
  BY DEF AuctionIds
<1>2. \A j \in AuctionIds : Pending(j)' = Pending(j) /\ auction'[j].token = auction[j].token
                              /\ auction'[j].reserve = auction[j].reserve
  BY Zenon DEF Pending
<1>3. \A j \in AuctionIds : j # i => GoodAuction(j)'
  BY DEF HouseInv, GoodAuctions, GoodAuction, HasBidder
<1>4. GoodAuctions'
  BY <1>1, <1>3 DEF GoodAuctions
<1>5. GoodPrices'
  BY <1>1, <1>2 DEF HouseInv, GoodPrices, HouseTypes, AuctionTypeOK
<1>6. OpenAuctions' = OpenAuctions /\ OpenAuctions \subseteq AuctionIds
  BY <1>1, <1>2 DEF OpenAuctions
<1>7. HoldsOffers(held)'
  BY <1>2, <1>6 DEF HouseInv, HoldsOffers
<1> QED
  BY <1>4, <1>5, <1>7

(* A bid keeps the invariant. *)
LEMMA BidKeeps ==
    ASSUME NEW held, HouseInv(held),
           NEW i, NEW u \in Users, NEW x \in BidAmounts, PlaceBid(i, u, x)
    PROVE  HouseInv(held)'
<1>0. HouseTypes /\ GoodAuctions
  BY DEF HouseInv
<1>1. /\ i \in AuctionIds /\ x \in Nat /\ x > 0 /\ Pending(i)
      /\ x > auction[i].highest /\ x >= auction[i].starting
      /\ auction' \in [AuctionIds -> Auctions]
      /\ \A j \in AuctionIds : j # i => auction'[j] = auction[j]
      /\ auction'[i].highest = x /\ auction'[i].bidder = u
      /\ auction'[i].endTime = ExtendedEnd(i)
      /\ Untouched(i) /\ auction'[i].state = auction[i].state
  BY <1>0, BidRecord
<1>2. /\ bids' \in [AuctionIds -> Seq(BidRecords)]
      /\ \A j \in AuctionIds : j # i => bids'[j] = bids[j]
      /\ bids'[i] # <<>> /\ bids'[i][Len(bids'[i])].at = now
      /\ \A v \in Users : v # u => PaidBack(bids'[i], v)
  BY <1>0, <1>1, BidHistory
<1>3. /\ balance' \in [Accounts -> Nat]
      /\ balance'[Contract] = balance[Contract] + x - auction[i].highest
  BY <1>0, <1>1, BidMoney
<1>4. /\ UNCHANGED <<now, ledger, owner, nextAuction, dutch, feeConfig, accumulated, volume>>
      /\ UNCHANGED adminVars
      /\ BlockChecked(u) /\ RateCounted(u, "place_bid")
  BY DEF PlaceBid, clockVars, feeVars
<1>6. /\ auction'[i].token = auction[i].token
      /\ auction'[i].starting = auction[i].starting
      /\ auction'[i].reserve = auction[i].reserve
  BY <1>1 DEF Untouched
<1>7. HouseTypes'
  <2>1. AccessTypeOK'
    BY <1>0, <1>4, CheckedTypes
  <2>2. LedgerTypeOK' /\ FeeTypeOK'
    BY <1>0, <1>3, <1>4 DEF HouseTypes, LedgerTypeOK, FeeTypeOK
  <2>3. AuctionTypeOK'
    BY <1>0, <1>1, <1>2, <1>4 DEF HouseTypes, AuctionTypeOK, AuctionIds
  <2> QED
    BY <2>1, <2>2, <2>3 DEF HouseTypes
<1>8. Pending(i)'
  BY <1>1, <1>6 DEF Pending
<1>9. GoodAuction(i)'
  <2>1. auction'[i].endTime >= bids'[i][Len(bids'[i])].at + ExtensionWindow
    BY <1>0, <1>1, <1>2, <1>6, ExtendedEndLater
  <2>2. auction[i].reserve <= auction[i].starting
    BY <1>0, <1>1 DEF GoodAuctions, GoodAuction
  <2>3. u # NoUser
    BY FeeAssumption
  <2>4. auction'[i].state = "Pending"
    BY <1>8 DEF Pending
  <2> QED
    BY <1>1, <1>2, <1>6, <2>1, <2>2, <2>3, <2>4 DEF GoodAuction, HasBidder
<1>10. GoodAuctions' /\ GoodPrices' /\ HoldsOffers(held)'
  BY <1>1, <1>2, <1>4, <1>6, <1>8, <1>9, OpenAuctionKeeps
<1>11. StakesBooked'
  <2>1. Stakes' = Stakes + Stake(i)' - Stake(i)
    BY <1>0, <1>1, <1>4, <1>7, StakeChange DEF HouseTypes
  <2>2. Stake(i)' = x /\ Stake(i) = auction[i].highest
    BY <1>1, <1>6, <1>8 DEF Stake
  <2>3. Stakes \in Nat /\ auction[i].highest \in Nat /\ balance[Contract] \in Nat
        /\ accumulated \in Nat
    BY <1>0, <1>1, StakesNat, AuctionFields DEF HouseTypes, LedgerTypeOK, Accounts, FeeTypeOK
  <2> QED
    BY <1>1, <1>3, <1>4, <2>1, <2>2, <2>3 DEF HouseInv, StakesBooked
<1> QED
  BY <1>7, <1>10, <1>11 DEF HouseInv

-----------------------------------------------------------------------------
(* Closing an auction. *)

(* The auction's record once its state is written. *)
LEMMA StateWritten ==
    ASSUME AuctionTypeOK, NEW i \in AuctionIds, NEW s \in AuctionStates,
           auction' = [auction EXCEPT ![i].state = s]
    PROVE  /\ auction' \in [AuctionIds -> Auctions]
           /\ \A j \in AuctionIds : j # i => auction'[j] = auction[j]
           /\ auction'[i].state = s
           /\ auction'[i].highest = auction[i].highest
           /\ auction'[i].bidder = auction[i].bidder
           /\ auction'[i].endTime = auction[i].endTime
           /\ Untouched(i)
<1> DEFINE r == [auction[i] EXCEPT !.state = s]
<1>1. auction \in [AuctionIds -> Auctions] /\ auction[i] \in Auctions
  BY DEF AuctionTypeOK
<1>2. /\ r \in Auctions /\ r.state = s
      /\ r.highest = auction[i].highest /\ r.bidder = auction[i].bidder
      /\ r.endTime = auction[i].endTime /\ r.seller = auction[i].seller
      /\ r.token = auction[i].token /\ r.starting = auction[i].starting
      /\ r.reserve = auction[i].reserve /\ r.increment = auction[i].increment
  BY <1>1 DEF Auctions
<1>3. auction' = [auction EXCEPT ![i] = r]
  BY Zenon
<1> HIDE DEF r
<1>4. /\ auction' \in [AuctionIds -> Auctions]
      /\ \A j \in AuctionIds : j # i => auction'[j] = auction[j]
      /\ auction'[i] = r
  BY <1>1, <1>2, <1>3
<1> QED
  BY <1>2, <1>4 DEF Untouched

(* A step that closes auction i and hands its token on keeps the rest of   *)
(* the invariant.                                                          *)
LEMMA ClosedAuctionKeeps ==
    ASSUME NEW held, HouseInv(held), NEW i \in AuctionIds, Pending(i), ~Pending(i)',
           NEW to \in Users, MoveNft(auction[i].token, Contract, to),
           UNCHANGED <<now, nextAuction, dutch>>,
           auction'[i].token = auction[i].token, auction'[i].reserve = auction[i].reserve,
           \A j \in AuctionIds : j # i => auction'[j] = auction[j] /\ bids'[j] = bids[j],
           GoodAuction(i)'
    PROVE  /\ GoodAuctions' /\ GoodPrices' /\ HoldsOffers(held)'
<1>1. AuctionIds' = AuctionIds
  BY DEF AuctionIds
<1>2. \A j \in AuctionIds : /\ j # i => Pending(j)' = Pending(j)
                            /\ auction'[j].token = auction[j].token
                            /\ auction'[j].reserve = auction[j].reserve
  BY Zenon DEF Pending
<1>3. \A j \in AuctionIds : j # i => GoodAuction(j)'
  BY DEF HouseInv, GoodAuctions, GoodAuction, HasBidder
<1>4. GoodAuctions'
  BY <1>1, <1>3 DEF GoodAuctions
<1>5. GoodPrices'
  BY <1>1, <1>2 DEF HouseInv, GoodPrices, HouseTypes, AuctionTypeOK
<1>6. OpenAuctions' = OpenAuctions \ {i} /\ OpenAuctions \subseteq AuctionIds /\ i \in OpenAuctions
  BY <1>1, <1>2 DEF OpenAuctions
<1>7. /\ to # Contract /\ auction[i].token \in Tokens
      /\ \A t \in Tokens : owner'[t] = IF t = auction[i].token THEN to ELSE owner[t]
  BY LedgerAssumption, AuctionFields DEF MoveNft, HouseInv, HouseTypes, LedgerTypeOK
<1>8. HoldsOffers(held)'
  BY <1>2, <1>6, <1>7 DEF HouseInv, HoldsOffers
<1> QED
  BY <1>4, <1>5, <1>8

(* end_auction with a winner: who is paid what. *)
LEMMA SettleFacts ==
    ASSUME HouseTypes, GoodAuctions, NEW i, SettleAuction(i)
    PROVE  /\ i \in AuctionIds /\ Ended(i) /\ Sold(i)
           /\ auction' = [auction EXCEPT ![i].state = "Executed"]
           /\ MoveNft(auction[i].token, Contract, auction[i].bidder)
           /\ UNCHANGED <<clockVars, accessVars, feeConfig, nextAuction, bids, dutch>>
           /\ balance' \in [Accounts -> Nat]
           /\ accumulated' \in Nat /\ volume' \in [Users -> Nat]
           /\ balance'[Contract] - accumulated'
                 = balance[Contract] - accumulated - auction[i].highest
           /\ \A v \in Users :
                 /\ balance'[v] >= balance[v]
                 /\ v # Royalty.creator /\ v # auction[i].seller => balance'[v] = balance[v]
<1> DEFINE a == auction[i]
           royalty == Percentage(a.highest, Royalty.bps)
           fee == FeeFor(a.highest, a.seller)
           share == a.highest - royalty - fee
<1>1. /\ i \in AuctionIds /\ Ended(i) /\ Sold(i)
      /\ auction' = [auction EXCEPT ![i].state = "Executed"]
      /\ MoveNft(a.token, Contract, a.bidder)
      /\ UNCHANGED <<clockVars, accessVars, feeConfig, nextAuction, bids, dutch>>
  BY DEF SettleAuction
<1>2. /\ fee >= 0
      /\ PayOut(Royalty.creator, royalty, a.seller, share)
      /\ CollectFee(fee, a.bidder)
  BY DEF SettleAuction
<1>3. /\ a.highest \in Nat /\ a.seller \in Users /\ a.bidder \in Users
      /\ Royalty.creator \in Users
  BY <1>1, AuctionFields, FeeAssumption DEF HouseTypes, Sold
<1>4. royalty \in Nat /\ fee \in Int
  BY <1>3, RoyaltyNat, FeeForInt DEF HouseTypes
<1> HIDE DEF a, royalty, fee
<1>5. royalty \in Nat /\ fee \in Nat /\ share \in Int /\ royalty + share = a.highest - fee
  BY <1>2, <1>3, <1>4
<1> HIDE DEF share
<1>6. /\ balance' \in [Accounts -> Nat]
      /\ balance'[Contract] = balance[Contract] - (royalty + share)
  BY <1>2, <1>3, <1>5, PayOutType DEF HouseTypes
<1>7. accumulated' \in Nat /\ volume' \in [Users -> Nat] /\ accumulated' = accumulated + fee
  BY <1>2, <1>3, <1>5, CollectFeeType DEF HouseTypes, CollectFee
<1>8. balance[Contract] \in Nat /\ accumulated \in Nat
  BY DEF HouseTypes, LedgerTypeOK, FeeTypeOK, Accounts
<1>9. balance'[Contract] - accumulated' = balance[Contract] - accumulated - a.highest
  BY <1>3, <1>5, <1>6, <1>7, <1>8
<1>10. ASSUME NEW v \in Users
       PROVE  /\ balance'[v] >= balance[v]
              /\ v # Royalty.creator /\ v # a.seller => balance'[v] = balance[v]
  <2>1. v \in Accounts /\ v # Contract /\ balance[v] \in Nat
    BY LedgerAssumption DEF HouseTypes, LedgerTypeOK, Accounts
  <2>2. balance'[v] = balance[v] + Received(v, Royalty.creator, royalty, a.seller, share)
    BY <1>2, <2>1 DEF PayOut
  <2>3. Payable(Royalty.creator, royalty, a.seller, share)
    BY <1>2 DEF PayOut
  <2> QED
    BY <1>5, <2>1, <2>2, <2>3 DEF Received, Payable
<1> QED
  BY <1>1, <1>6, <1>7, <1>9, <1>10, Zenon DEF a

(* What goes back when an auction ends without a buyer. *)
LEMMA ReturnFacts ==
    ASSUME HouseTypes, GoodAuctions, NEW i \in AuctionIds, ReturnAll(i)
    PROVE  /\ MoveNft(auction[i].token, Contract, auction[i].seller)
           /\ UNCHANGED <<clockVars, accessVars, feeVars, nextAuction, dutch>>
           /\ bids' \in [AuctionIds -> Seq(BidRecords)]
           /\ \A j \in AuctionIds : j # i => bids'[j] = bids[j]
           /\ Len(bids'[i]) = Len(bids[i])
           /\ \A k \in 1..Len(bids[i]) : bids'[i][k].at = bids[i][k].at
           /\ \A v \in Users \union {auction[i].bidder} : PaidBack(bids'[i], v)
           /\ balance' \in [Accounts -> Nat]
           /\ balance'[Contract] = balance[Contract] - auction[i].highest
           /\ \A v \in Users :
                 balance'[v] = balance[v]
                                 + (IF v = auction[i].bidder THEN auction[i].highest ELSE 0)
<1> DEFINE w == auction[i].bidder
           s == auction[i].highest
           h == bids[i]
<1>1. /\ MoveNft(auction[i].token, Contract, auction[i].seller)
      /\ UNCHANGED <<clockVars, accessVars, feeVars, nextAuction, dutch>>
  BY Zenon DEF ReturnAll
<1>2. /\ s \in Nat /\ h \in Seq(BidRecords)
      /\ HasBidder(i) => w \in Users
      /\ bids \in [AuctionIds -> Seq(BidRecords)]
  BY AuctionFields DEF HouseTypes, AuctionTypeOK
<1>3. /\ balance \in [Accounts -> Nat] /\ LedgerTypeOK
      /\ Contract \notin Users /\ Contract \in Accounts /\ Users \subseteq Accounts
  BY LedgerAssumption DEF HouseTypes, LedgerTypeOK, Accounts
<1>4. \A v \in Users : v # w => PaidBack(h, v)
  BY DEF GoodAuctions, GoodAuction
<1>5. CASE HasBidder(i)
  <2>1. /\ Refundable(i, w) /\ PayOut(w, s, w, 0)
        /\ bids' = [bids EXCEPT ![i] = Refunded(i, w)]
    BY <1>5 DEF ReturnAll
  <2>2. BidsIn(h, w) # {} /\ Refunded(i, w) = Marked(h, w)
    BY <2>1, Lookups, Zenon DEF PaidBack
  <2>3. /\ balance' \in [Accounts -> Nat]
        /\ balance'[Contract] = balance[Contract] - (s + 0)
    BY <1>2, <1>3, <1>5, <2>1, PayOutType
  <2>4. \A v \in Users : balance'[v] = balance[v] + (IF v = w THEN s ELSE 0)
    <3>1. \A v \in Users : balance'[v] = balance[v] + Received(v, w, s, w, 0)
      BY <1>3, <2>1 DEF PayOut
    <3> HIDE DEF w, s
    <3>2. \A v \in Users : Received(v, w, s, w, 0) = IF v = w THEN s ELSE 0
      BY <1>2 DEF Received
    <3> QED
      BY <3>1, <3>2
  <2> HIDE DEF w, h, s
  <2>5. /\ Marked(h, w) \in Seq(BidRecords) /\ Len(Marked(h, w)) = Len(h)
        /\ \A k \in 1..Len(h) : /\ Marked(h, w)[k].bidder = h[k].bidder
                                /\ Marked(h, w)[k].at = h[k].at
        /\ PaidBack(Marked(h, w), w)
        /\ \A v : PaidBack(h, v) => PaidBack(Marked(h, w), v)
    BY <1>2, <2>2, MarkRefunded
  <2>6. /\ bids' \in [AuctionIds -> Seq(BidRecords)]
        /\ \A j \in AuctionIds : j # i => bids'[j] = bids[j]
        /\ bids'[i] = Marked(h, w)
    BY <1>2, <2>1, <2>2, <2>5
  <2>7. \A v \in Users \union {w} : PaidBack(bids'[i], v)
    BY <1>4, <2>5, <2>6
  <2>8. balance'[Contract] = balance[Contract] - s
    BY <1>2, <1>3, <2>3
  <2>9. Len(bids'[i]) = Len(h) /\ \A k \in 1..Len(h) : bids'[i][k].at = h[k].at
    BY <2>5, <2>6
  <2> QED
    BY <1>1, <2>3, <2>4, <2>6, <2>7, <2>8, <2>9, Zenon DEF w, h, s
<1>6. CASE ~HasBidder(i)
  <2>1. UNCHANGED <<balance, bids>>
    BY <1>6, Zenon DEF ReturnAll
  <2>2. s = 0 /\ h = <<>>
    BY <1>6 DEF GoodAuctions, GoodAuction
  <2>3. \A v : PaidBack(h, v)
    BY <2>2 DEF PaidBack, BidsIn
  <2> HIDE DEF w, h, s
  <2>4. /\ balance'[Contract] = balance[Contract] - s
        /\ \A v \in Users : balance'[v] = balance[v] + (IF v = w THEN s ELSE 0)
        /\ balance' \in [Accounts -> Nat]
    BY <1>3, <2>1, <2>2
  <2>5. /\ bids' \in [AuctionIds -> Seq(BidRecords)]
        /\ \A j \in AuctionIds : j # i => bids'[j] = bids[j]
        /\ bids'[i] = bids[i]
    BY <1>2, <2>1
  <2>6. \A v \in Users \union {w} : PaidBack(bids'[i], v)
    BY <2>3, <2>5 DEF h
  <2> QED
    BY <1>1, <2>4, <2>5, <2>6, Zenon DEF w, h, s
<1> QED
  BY <1>5, <1>6

(* Closing an auction moves its stake out of the books. *)
LEMMA ClosingBooks ==
    ASSUME HouseTypes, HouseTypes', StakesBooked, UNCHANGED nextAuction,
           NEW i \in AuctionIds, Pending(i), ~Pending(i)',
           \A j \in AuctionIds : j # i => auction'[j] = auction[j],
           balance'[Contract] - accumulated'
              = balance[Contract] - accumulated - auction[i].highest
    PROVE  StakesBooked'
<1>1. Stakes' = Stakes + Stake(i)' - Stake(i)
  BY StakeChange DEF HouseTypes
<1>2. Stake(i)' = 0 /\ Stake(i) = auction[i].highest
  BY DEF Stake
<1>3. /\ Stakes \in Nat /\ auction[i].highest \in Nat /\ balance[Contract] \in Nat
      /\ accumulated \in Nat /\ balance'[Contract] \in Nat /\ accumulated' \in Nat
  BY StakesNat, AuctionFields DEF HouseTypes, LedgerTypeOK, Accounts, FeeTypeOK
<1> QED
  BY <1>1, <1>2, <1>3 DEF StakesBooked

(* end_auction keeps the invariant when there is a winner. *)
LEMMA SettleKeeps ==
    ASSUME NEW held, HouseInv(held), NEW i, SettleAuction(i)
    PROVE  HouseInv(held)'
<1>0. HouseTypes /\ GoodAuctions
  BY DEF HouseInv
<1>1. /\ i \in AuctionIds /\ Pending(i) /\ HasBidder(i)
      /\ auction' = [auction EXCEPT ![i].state = "Executed"]
      /\ MoveNft(auction[i].token, Contract, auction[i].bidder)
      /\ UNCHANGED <<clockVars, accessVars, feeConfig, nextAuction, bids, dutch>>
  BY <1>0, SettleFacts DEF Ended, Sold
<1>2. /\ balance' \in [Accounts -> Nat]
      /\ accumulated' \in Nat /\ volume' \in [Users -> Nat]
      /\ balance'[Contract] - accumulated'
            = balance[Contract] - accumulated - auction[i].highest
  BY <1>0, SettleFacts
<1>3. /\ auction' \in [AuctionIds -> Auctions]
      /\ \A j \in AuctionIds : j # i => auction'[j] = auction[j]
      /\ auction'[i].state = "Executed"
      /\ auction'[i].highest = auction[i].highest
      /\ auction'[i].bidder = auction[i].bidder
      /\ auction'[i].endTime = auction[i].endTime
      /\ Untouched(i)
  BY <1>0, <1>1, StateWritten DEF HouseTypes, AuctionStates
<1>4. auction[i].bidder \in Users /\ auction[i].token \in Tokens
  BY <1>0, <1>1, AuctionFields DEF HouseTypes
<1>5. HouseTypes'
  <2>1. owner' \in [Tokens -> Accounts]
    BY <1>0, <1>1, <1>4, MoveNftType DEF HouseTypes, Accounts
  <2>2. LedgerTypeOK' /\ FeeTypeOK'
    BY <1>0, <1>1, <1>2, <2>1 DEF HouseTypes, LedgerTypeOK, FeeTypeOK, clockVars
  <2>3. AccessTypeOK'
    BY <1>0, <1>1 DEF HouseTypes, AccessTypeOK, accessVars
  <2>4. AuctionTypeOK'
    BY <1>0, <1>1, <1>3 DEF HouseTypes, AuctionTypeOK, AuctionIds
  <2> QED
    BY <2>2, <2>3, <2>4 DEF HouseTypes
<1>6. ~Pending(i)'
  BY <1>3 DEF Pending
<1>7. GoodAuction(i)'
  BY <1>0, <1>1, <1>3 DEF GoodAuctions, GoodAuction, HasBidder, Untouched
<1>8. GoodAuctions' /\ GoodPrices' /\ HoldsOffers(held)'
  BY <1>1, <1>3, <1>4, <1>6, <1>7, ClosedAuctionKeeps DEF clockVars, Untouched
<1>9. StakesBooked'
  BY <1>0, <1>1, <1>2, <1>3, <1>5, <1>6, ClosingBooks DEF HouseInv
<1> QED
  BY <1>5, <1>8, <1>9 DEF HouseInv

(* So does an auction's end without a buyer, by end_auction or by the      *)
(* seller.                                                                 *)
LEMMA ReturnKeeps ==
    ASSUME NEW held, HouseInv(held), NEW i \in AuctionIds, Pending(i), ReturnAll(i),
           NEW s \in {"Executed", "Cancelled"},
           auction' = [auction EXCEPT ![i].state = s]
    PROVE  HouseInv(held)'
<1>0. HouseTypes /\ GoodAuctions
  BY DEF HouseInv
<1>1. /\ MoveNft(auction[i].token, Contract, auction[i].seller)
      /\ UNCHANGED <<clockVars, accessVars, feeVars, nextAuction, dutch>>
      /\ bids' \in [AuctionIds -> Seq(BidRecords)]
      /\ \A j \in AuctionIds : j # i => bids'[j] = bids[j]
      /\ Len(bids'[i]) = Len(bids[i])
      /\ \A k \in 1..Len(bids[i]) : bids'[i][k].at = bids[i][k].at
      /\ \A v \in Users \union {auction[i].bidder} : PaidBack(bids'[i], v)
      /\ balance' \in [Accounts -> Nat]
      /\ balance'[Contract] = balance[Contract] - auction[i].highest
  BY <1>0, ReturnFacts
<1>3. /\ auction' \in [AuctionIds -> Auctions]
      /\ \A j \in AuctionIds : j # i => auction'[j] = auction[j]
      /\ auction'[i].state = s
      /\ auction'[i].highest = auction[i].highest
      /\ auction'[i].bidder = auction[i].bidder
      /\ auction'[i].endTime = auction[i].endTime
      /\ Untouched(i)
  BY <1>0, StateWritten DEF HouseTypes, AuctionStates
<1>4. /\ auction[i].seller \in Users /\ auction[i].token \in Tokens
      /\ auction[i].highest \in Nat /\ bids[i] \in Seq(BidRecords)
  BY <1>0, AuctionFields DEF HouseTypes
<1>5. HouseTypes'
  <2>1. owner' \in [Tokens -> Accounts]
    BY <1>0, <1>1, <1>4, MoveNftType DEF HouseTypes, Accounts
  <2>2. LedgerTypeOK' /\ FeeTypeOK'
    BY <1>0, <1>1, <2>1 DEF HouseTypes, LedgerTypeOK, FeeTypeOK, clockVars, feeVars
  <2>3. AccessTypeOK'
    BY <1>0, <1>1 DEF HouseTypes, AccessTypeOK, accessVars
  <2>4. AuctionTypeOK'
    BY <1>0, <1>1, <1>3 DEF HouseTypes, AuctionTypeOK, AuctionIds
  <2> QED
    BY <2>2, <2>3, <2>4 DEF HouseTypes
<1>6. ~Pending(i)'
  BY <1>3 DEF Pending
<1>7. GoodAuction(i)'
  <2>1. bids'[i] \in Seq(BidRecords)
    BY <1>1
  <2>2. CASE HasBidder(i)
    <3>1. /\ auction[i].highest >= auction[i].starting /\ auction[i].highest > 0
          /\ bids[i] # <<>> /\ auction[i].reserve <= auction[i].starting
          /\ auction[i].endTime >= bids[i][Len(bids[i])].at + ExtensionWindow
      BY <1>0, <2>2 DEF GoodAuctions, GoodAuction
    <3>2. Len(bids[i]) \in 1..Len(bids[i])
      BY <1>4, <3>1
    <3>3. bids'[i] # <<>> /\ bids'[i][Len(bids'[i])].at = bids[i][Len(bids[i])].at
      <4>1. bids'[i][Len(bids'[i])].at = bids[i][Len(bids[i])].at
        BY <1>1, <3>2, Zenon
      <4>2. Len(bids'[i]) # 0
        BY <1>1, <3>2
      <4> QED
        BY <4>1, <4>2
    <3> QED
      BY <1>1, <1>3, <2>2, <3>1, <3>3 DEF GoodAuction, HasBidder, Untouched
  <2>3. CASE ~HasBidder(i)
    <3>1. auction[i].highest = 0 /\ bids[i] = <<>> /\ auction[i].reserve <= auction[i].starting
      BY <1>0, <2>3 DEF GoodAuctions, GoodAuction
    <3>2. bids'[i] = <<>>
      BY <1>1, <2>1, <3>1
    <3> QED
      BY <1>1, <1>3, <2>3, <3>1, <3>2 DEF GoodAuction, HasBidder, Untouched
  <2> QED
    BY <2>2, <2>3
<1>8. GoodAuctions' /\ GoodPrices' /\ HoldsOffers(held)'
  BY <1>1, <1>3, <1>4, <1>6, <1>7, ClosedAuctionKeeps DEF clockVars, Untouched
<1>9. StakesBooked'
  <2>1. balance'[Contract] - accumulated'
            = balance[Contract] - accumulated - auction[i].highest
    <3>1. balance[Contract] \in Nat /\ accumulated \in Nat /\ accumulated' = accumulated
      BY <1>0, <1>1 DEF HouseTypes, LedgerTypeOK, FeeTypeOK, Accounts, feeVars
    <3> QED
      BY <1>1, <1>4, <3>1
  <2> QED
    BY <1>0, <1>1, <1>3, <1>5, <1>6, <2>1, ClosingBooks DEF HouseInv
<1> QED
  BY <1>5, <1>8, <1>9 DEF HouseInv

(* end_auction closes unsold only what nobody bid for: a standing bid has  *)
(* reached the reserve.                                                    *)
LEMMA UnsoldHasNoBidder ==
    ASSUME HouseTypes, GoodAuctions, NEW i, CloseUnsold(i)
    PROVE  /\ i \in AuctionIds /\ ~HasBidder(i) /\ auction[i].highest = 0
           /\ Ended(i) /\ ReturnAll(i)
           /\ auction' = [auction EXCEPT ![i].state = "Executed"]
<1>1. /\ i \in AuctionIds /\ Ended(i) /\ ~Sold(i) /\ ReturnAll(i)
      /\ auction' = [auction EXCEPT ![i].state = "Executed"]
  BY Zenon DEF CloseUnsold
<1>2. /\ auction[i].highest \in Nat /\ auction[i].starting \in Nat /\ auction[i].reserve \in Nat
  BY <1>1, AuctionFields DEF HouseTypes
<1>3. ~HasBidder(i)
  BY <1>1, <1>2 DEF Sold, GoodAuctions, GoodAuction
<1>4. auction[i].highest = 0
  BY <1>1, <1>3 DEF GoodAuctions, GoodAuction
<1> QED
  BY <1>1, <1>3, <1>4

LEMMA CancelFacts ==
    ASSUME NEW i, CancelAuctionWithRefund(i)
    PROVE  /\ i \in AuctionIds /\ Pending(i) /\ ReturnAll(i)
           /\ auction' = [auction EXCEPT ![i].state = "Cancelled"]
BY Zenon DEF CancelAuctionWithRefund

-----------------------------------------------------------------------------
(* Opening an auction. *)

(* create_auction adds a record without a bid and takes the token. *)
LEMMA CreateFacts ==
    ASSUME HouseTypes, NEW s \in Users, NEW t \in Tokens, NEW k \in Kinds,
           NEW p \in StartPrices, NEW r \in Reserves, NEW d \in AuctionDurations,
           NEW c \in Increments, CreateAuction(s, t, k, p, r, d, c)
    PROVE  /\ nextAuction' = nextAuction + 1
           /\ AuctionIds' = AuctionIds \union {nextAuction} /\ nextAuction \notin AuctionIds
           /\ nextAuction' \in 1..(MaxAuctions + 1)
           /\ auction' \in [AuctionIds' -> Auctions]
           /\ bids' \in [AuctionIds' -> Seq(BidRecords)]
           /\ \A j \in AuctionIds : auction'[j] = auction[j] /\ bids'[j] = bids[j]
           /\ LET a == auction'[nextAuction]
              IN  /\ a.seller = s /\ a.token = t /\ a.starting = p /\ a.reserve <= p
                  /\ a.highest = 0 /\ a.bidder = NoUser /\ a.state = "Pending"
           /\ bids'[nextAuction] = <<>>
           /\ MoveNft(t, s, Contract)
           /\ UNCHANGED <<clockVars, balance, adminVars, feeVars>>
           /\ BlockChecked(s) /\ RateCounted(s, "create_auction") /\ p > 0
<1> DEFINE n == nextAuction
           a == [seller |-> s, token |-> t, starting |-> p, reserve |-> r,
                 highest |-> 0, bidder |-> NoUser, increment |-> c,
                 endTime |-> now + d, state |-> "Pending"]
<1>1. /\ n \in Nat /\ n > 0 /\ n <= MaxAuctions /\ MaxAuctions \in Nat
      /\ now \in Nat /\ d \in Nat /\ p \in Int /\ r \in Int /\ c \in Int
  BY AuctionsFinite, AuctionAssumption DEF HouseTypes, LedgerTypeOK, CreateAuction
<1>2. /\ n' = n + 1
      /\ p > 0 /\ r \in 0..p /\ c > 0
      /\ MoveNft(t, s, Contract)
      /\ UNCHANGED <<clockVars, balance, adminVars, feeVars>>
      /\ BlockChecked(s) /\ RateCounted(s, "create_auction")
  BY DEF CreateAuction
<1>3. /\ auction' = [i \in 1..n |-> IF i < n THEN auction[i] ELSE a]
      /\ bids' = [i \in 1..n |-> IF i < n THEN bids[i] ELSE <<>>]
  BY DEF CreateAuction
<1>4. a \in Auctions
  BY <1>1, <1>2 DEF Auctions, AuctionStates
<1>5. /\ a.seller = s /\ a.token = t /\ a.starting = p /\ a.reserve <= p /\ p > 0
      /\ a.highest = 0 /\ a.bidder = NoUser /\ a.state = "Pending"
  BY <1>1, <1>2
<1> HIDE DEF a
<1>6. AuctionIds = 1..(n - 1) /\ AuctionIds' = 1..n
  BY <1>1, <1>2 DEF AuctionIds
<1>7. auction \in [AuctionIds -> Auctions] /\ bids \in [AuctionIds -> Seq(BidRecords)]
  BY DEF HouseTypes, AuctionTypeOK
<1> HIDE DEF n
<1>8. AuctionIds' = AuctionIds \union {n} /\ n \notin AuctionIds /\ n' \in 1..(MaxAuctions + 1)
  BY <1>1, <1>2, <1>6
<1>9. /\ auction' \in [AuctionIds' -> Auctions]
      /\ bids' \in [AuctionIds' -> Seq(BidRecords)]
      /\ \A j \in AuctionIds : auction'[j] = auction[j] /\ bids'[j] = bids[j]
      /\ auction'[n] = a /\ bids'[n] = <<>>
  BY <1>1, <1>3, <1>4, <1>6, <1>7
<1> QED
  BY <1>2, <1>5, <1>8, <1>9, Zenon DEF n

(* The prices create_auction starts with and those it leaves alone. *)
LEMMA CreatePrices ==
    ASSUME HouseTypes, NEW s \in Users, NEW t \in Tokens, NEW k \in Kinds,
           NEW p \in StartPrices, NEW r \in Reserves, NEW d \in AuctionDurations,
           NEW c \in Increments, CreateAuction(s, t, k, p, r, d, c)
    PROVE  /\ dutch' \in [DOMAIN dutch' -> [price : Int, updated : Nat]]
           /\ DOMAIN dutch' \subseteq DOMAIN dutch \union {nextAuction}
           /\ \A i \in DOMAIN dutch : i \in DOMAIN dutch' /\ dutch'[i] = dutch[i]
           /\ \A i \in DOMAIN dutch' \ DOMAIN dutch :
                 dutch'[i].price >= r /\ dutch'[i].updated = now
<1> DEFINE D == DOMAIN dutch \union (IF k = "Dutch" THEN {nextAuction} ELSE {})
           q == [price |-> p, updated |-> now]
<1>1. dutch' = [i \in D |-> IF i \in DOMAIN dutch THEN dutch[i] ELSE q]
  BY DEF CreateAuction
<1>2. r \in 0..p /\ p \in Int /\ r \in Int /\ now \in Nat
  BY AuctionAssumption DEF CreateAuction, HouseTypes, LedgerTypeOK
<1>3. q \in [price : Int, updated : Nat] /\ q.price >= r /\ q.updated = now
  BY <1>2
<1>4. dutch \in [DOMAIN dutch -> [price : Int, updated : Nat]]
  BY DEF HouseTypes, AuctionTypeOK
<1>5. D \subseteq DOMAIN dutch \union {nextAuction} /\ DOMAIN dutch \subseteq D
  OBVIOUS
<1> HIDE DEF D, q
<1>6. DOMAIN dutch' = D
  BY <1>1
<1> QED
  BY <1>1, <1>3, <1>4, <1>5, <1>6

(* create_auction keeps the invariant: a seller owns what it offers, so no *)
(* other auction and nothing held has the token.                           *)
LEMMA CreateKeeps ==
    ASSUME NEW held, HouseInv(held), NEW s \in Users, NEW t \in Tokens, NEW k \in Kinds,
           NEW p \in StartPrices, NEW r \in Reserves, NEW d \in AuctionDurations,
           NEW c \in Increments, CreateAuction(s, t, k, p, r, d, c)
    PROVE  HouseInv(held)'
<1> PICK n : n = nextAuction
  OBVIOUS
<1>0. HouseTypes /\ GoodAuctions /\ GoodPrices /\ HoldsOffers(held) /\ StakesBooked
  BY DEF HouseInv
<1>1. /\ nextAuction' = n + 1
      /\ AuctionIds' = AuctionIds \union {n} /\ n \notin AuctionIds
      /\ nextAuction' \in 1..(MaxAuctions + 1)
      /\ auction' \in [AuctionIds' -> Auctions]
      /\ bids' \in [AuctionIds' -> Seq(BidRecords)]
      /\ \A j \in AuctionIds : auction'[j] = auction[j] /\ bids'[j] = bids[j]
  BY <1>0, CreateFacts
<1>2. /\ auction'[n].seller = s /\ auction'[n].token = t
      /\ auction'[n].reserve <= auction'[n].starting
      /\ auction'[n].highest = 0 /\ auction'[n].bidder = NoUser
      /\ auction'[n].state = "Pending" /\ bids'[n] = <<>>
  BY <1>0, CreateFacts
<1>3. /\ MoveNft(t, s, Contract)
      /\ UNCHANGED <<clockVars, balance, adminVars, feeVars>>
      /\ BlockChecked(s) /\ RateCounted(s, "create_auction")
  BY <1>0, CreateFacts
<1>4. /\ dutch' \in [DOMAIN dutch' -> [price : Int, updated : Nat]]
      /\ DOMAIN dutch' \subseteq DOMAIN dutch \union {n}
      /\ \A i \in DOMAIN dutch : i \in DOMAIN dutch' /\ dutch'[i] = dutch[i]
      /\ \A i \in DOMAIN dutch' \ DOMAIN dutch : dutch'[i].price >= r /\ dutch'[i].updated = now
  BY <1>0, CreatePrices
<1>5. DOMAIN dutch \subseteq AuctionIds
  BY <1>0 DEF HouseTypes, AuctionTypeOK
<1>6. HouseTypes'
  <2>1. AccessTypeOK'
    BY <1>0, <1>3, CheckedTypes
  <2>2. owner' \in [Tokens -> Accounts]
    BY <1>0, <1>3, MoveNftType DEF HouseTypes, Accounts
  <2>3. LedgerTypeOK' /\ FeeTypeOK'
    BY <1>0, <1>3, <2>2 DEF HouseTypes, LedgerTypeOK, FeeTypeOK, clockVars, feeVars
  <2>4. AuctionTypeOK'
    BY <1>1, <1>4, <1>5 DEF AuctionTypeOK
  <2> QED
    BY <2>1, <2>3, <2>4 DEF HouseTypes
<1>7. GoodAuctions'
  <2>1. \A j \in AuctionIds : GoodAuction(j)'
    BY <1>0, <1>1 DEF GoodAuctions, GoodAuction, HasBidder
  <2>2. \A v : PaidBack(bids'[n], v)
    BY <1>2 DEF PaidBack, BidsIn
  <2>3. GoodAuction(n)'
    BY <1>2, <2>2 DEF GoodAuction, HasBidder
  <2>4. \A j \in AuctionIds' : GoodAuction(j)'
    BY <1>1, <2>1, <2>3
  <2> QED
    BY <2>4 DEF GoodAuctions
<1>8. GoodPrices'
  <2>1. auction'[n].reserve = r
    <3>1. n \in Nat
      BY <1>0, AuctionsFinite DEF HouseTypes
    <3> QED
      BY <1>1, <3>1 DEF CreateAuction
  <2>2. now' = now /\ now \in Nat
    BY <1>0, <1>3 DEF clockVars, HouseTypes, LedgerTypeOK
  <2>3. ASSUME NEW i \in DOMAIN dutch'
        PROVE  dutch'[i].price >= auction'[i].reserve /\ dutch'[i].updated <= now'
    <3>1. CASE i \in DOMAIN dutch
      BY <1>0, <1>1, <1>4, <1>5, <2>2, <3>1 DEF GoodPrices
    <3>2. CASE i \notin DOMAIN dutch
      BY <1>4, <2>1, <2>2, <3>2
    <3> QED
      BY <3>1, <3>2
  <2> QED
    BY <2>3 DEF GoodPrices
<1>9. HoldsOffers(held)'
  <2>1. OpenAuctions' = OpenAuctions \union {n} /\ n \notin OpenAuctions
        /\ OpenAuctions \subseteq AuctionIds
    BY <1>1, <1>2 DEF OpenAuctions, Pending
  <2>2. owner[t] # Contract /\ \A x \in Tokens : owner'[x] = IF x = t THEN Contract ELSE owner[x]
    BY <1>0, <1>3, LedgerAssumption DEF MoveNft, HouseTypes, LedgerTypeOK
  <2>3. t \notin held /\ \A i \in OpenAuctions : auction[i].token # t
    BY <1>0, <2>2 DEF HoldsOffers
  <2>4. \A i \in OpenAuctions : auction'[i].token = auction[i].token
    BY <1>1, <2>1
  <2>5. auction'[n].token = t
    BY <1>2
  <2> QED
    BY <1>0, <2>1, <2>2, <2>3, <2>4, <2>5 DEF HoldsOffers
<1>10. StakesBooked'
  <2>1. Stakes' = Stakes
    BY <1>0, <1>1, <1>2, <1>6, StakeAdded DEF HouseTypes
  <2> QED
    BY <1>0, <1>3, <2>1 DEF StakesBooked, feeVars
<1> QED
  BY <1>6, <1>7, <1>8, <1>9, <1>10 DEF HouseInv

-----------------------------------------------------------------------------
(* Dutch prices. *)

(* Part of an amount, rounded down, is no more than the amount. *)
LEMMA PartOfAmount ==
    ASSUME NEW x \in Nat, NEW m \in Nat, NEW d \in Nat, m <= d, d > 0
    PROVE  (x * m) \div d \in 0..x
<1>1. x * m \in Nat /\ x * d \in Nat /\ x * m <= x * d
  <2>1. PICK e \in Nat : d = m + e
    <3>1. d - m \in Nat /\ d = m + (d - m)
      OBVIOUS
    <3> QED
      BY <3>1
  <2>2. x * m \in Nat /\ x * e \in Nat /\ x * d = x * m + x * e
    BY <2>1
  <2> QED
    BY <2>2
<1>2. PICK q \in Int : q = (x * m) \div d
  BY <1>1
<1>3. PICK y \in Nat : y = x * m
  BY <1>1
<1>4. d * q <= y /\ y < d * q + d
  BY <1>2, <1>3
<1>5. q >= 0
  <2> SUFFICES ASSUME q <= -1 PROVE FALSE
    OBVIOUS
  <2>1. d * q <= -d
    OBVIOUS
  <2> QED
    BY <1>4, <2>1
<1>6. q <= x
  <2> SUFFICES ASSUME q >= x + 1 PROVE FALSE
    OBVIOUS
  <2>1. d * q >= d * x + d
    OBVIOUS
  <2>2. d * x = x * d
    OBVIOUS
  <2> QED
    BY <1>1, <1>3, <1>4, <2>1, <2>2
<1> QED
  BY <1>2, <1>5, <1>6

(* The price asked for now has not risen, is not below the reserve, and is *)
(* the reserve from the auction's end on.                                  *)
LEMMA DutchPrice ==
    ASSUME HouseTypes, GoodPrices, NEW i \in DOMAIN dutch
    PROVE  /\ DutchPriceAt(i) \in Int
           /\ DutchPriceAt(i) <= dutch[i].price
           /\ DutchPriceAt(i) >= auction[i].reserve
           /\ dutch[i].updated # now /\ now >= auction[i].endTime =>
                 DutchPriceAt(i) = auction[i].reserve
           /\ dutch[i].updated = now => DutchPriceAt(i) = dutch[i].price
<1> DEFINE p == dutch[i].price
           u == dutch[i].updated
           f == auction[i].reserve
           e == auction[i].endTime
<1>1. i \in AuctionIds /\ dutch[i] \in [price : Int, updated : Nat]
  BY DEF HouseTypes, AuctionTypeOK
<1>2. /\ p \in Int /\ u \in Nat /\ f \in Nat /\ e \in Nat /\ now \in Nat
      /\ p >= f /\ u <= now
  BY <1>1, AuctionFields DEF HouseTypes, LedgerTypeOK, GoodPrices
<1>3. DutchPriceAt(i) = IF now <= u THEN p ELSE IF now >= e THEN f
                        ELSE p - ((p - f) * (now - u)) \div (e - u)
  BY DEF DutchPriceAt
<1> HIDE DEF p, u, f, e
<1>4. CASE now <= u \/ now >= e
  BY <1>2, <1>3, <1>4 DEF p, u, f, e
<1>5. CASE ~(now <= u) /\ ~(now >= e)
  <2>1. p - f \in Nat /\ now - u \in Nat /\ e - u \in Nat /\ now - u <= e - u /\ e - u > 0
    BY <1>2, <1>5
  <2>2. PICK z \in 0..(p - f) : z = ((p - f) * (now - u)) \div (e - u)
    BY <2>1, PartOfAmount
  <2>3. DutchPriceAt(i) = p - z
    BY <1>3, <1>5, <2>2
  <2> QED
    BY <1>2, <1>5, <2>1, <2>3 DEF p, u, f, e
<1> QED
  BY <1>4, <1>5

(* Asking for a price moves that price and nothing else. *)
LEMMA AskFacts ==
    ASSUME HouseTypes, GoodPrices, NEW i, GetDutchAuctionPrice(i)
    PROVE  /\ i \in DOMAIN dutch
           /\ dutch' \in [DOMAIN dutch -> [price : Int, updated : Nat]]
           /\ \A j \in DOMAIN dutch : j # i => dutch'[j] = dutch[j]
           /\ dutch'[i].price = DutchPriceAt(i) /\ dutch'[i].updated = now
           /\ UNCHANGED <<ledgerVars, accessVars, feeVars, nextAuction, auction, bids>>
<1> DEFINE q == [price |-> DutchPriceAt(i), updated |-> now]
<1>1. /\ i \in DOMAIN dutch
      /\ dutch' = [dutch EXCEPT ![i] = q]
      /\ UNCHANGED <<ledgerVars, accessVars, feeVars, nextAuction, auction, bids>>
  BY Zenon DEF GetDutchAuctionPrice
<1>2. q \in [price : Int, updated : Nat] /\ q.price = DutchPriceAt(i) /\ q.updated = now
  BY <1>1, DutchPrice DEF HouseTypes, LedgerTypeOK
<1> HIDE DEF q
<1>3. dutch \in [DOMAIN dutch -> [price : Int, updated : Nat]]
  BY DEF HouseTypes, AuctionTypeOK
<1>4. /\ dutch' \in [DOMAIN dutch -> [price : Int, updated : Nat]]
      /\ \A j \in DOMAIN dutch : j # i => dutch'[j] = dutch[j]
      /\ dutch'[i] = q
  BY <1>1, <1>2, <1>3
<1> QED
  BY <1>1, <1>2, <1>4

(* Steps that leave the auctions, the tokens' owners and the contract's    *)
(* net balance alone keep the invariant, if they keep the types.           *)
LEMMA HouseUntouched ==
    ASSUME NEW held, HouseInv(held), HouseTypes',
           UNCHANGED <<nextAuction, auction, bids>>,
           \A t \in Tokens : owner'[t] = Contract <=> owner[t] = Contract,
           balance'[Contract] - accumulated' = balance[Contract] - accumulated,
           GoodPrices'
    PROVE  HouseInv(held)'
<1>1. AuctionIds' = AuctionIds /\ OpenAuctions' = OpenAuctions
  BY DEF AuctionIds, OpenAuctions, Pending
<1>2. GoodAuctions'
  BY <1>1 DEF HouseInv, GoodAuctions, GoodAuction, HasBidder
<1>3. HoldsOffers(held)'
  BY <1>1 DEF HouseInv, HoldsOffers
<1>4. Stakes' = Stakes
  <2>1. [i \in AuctionIds |-> Stake(i)]' = [i \in AuctionIds |-> Stake(i)]
    BY <1>1 DEF Stake, Pending
  <2> QED
    BY <1>1, <2>1, Zenon DEF Stakes
<1>5. StakesBooked'
  <2>1. /\ Stakes \in Nat /\ balance[Contract] \in Nat /\ accumulated \in Nat
        /\ balance'[Contract] \in Nat /\ accumulated' \in Nat
    BY StakesNat DEF HouseInv, HouseTypes, LedgerTypeOK, Accounts, FeeTypeOK
  <2> QED
    BY <1>4, <2>1 DEF HouseInv, StakesBooked
<1> QED
  BY <1>2, <1>3, <1>5 DEF HouseInv

LEMMA AskKeeps ==
    ASSUME NEW held, HouseInv(held), NEW i, GetDutchAuctionPrice(i)
    PROVE  HouseInv(held)'
<1>0. HouseTypes /\ GoodPrices
  BY DEF HouseInv
<1>1. /\ i \in DOMAIN dutch
      /\ dutch' \in [DOMAIN dutch -> [price : Int, updated : Nat]]
      /\ \A j \in DOMAIN dutch : j # i => dutch'[j] = dutch[j]
      /\ dutch'[i].price = DutchPriceAt(i) /\ dutch'[i].updated = now
      /\ UNCHANGED <<ledgerVars, accessVars, feeVars, nextAuction, auction, bids>>
  BY <1>0, AskFacts
<1>2. DutchPriceAt(i) >= auction[i].reserve /\ now \in Nat
  BY <1>0, <1>1, DutchPrice DEF HouseTypes, LedgerTypeOK
<1>3. HouseTypes'
  <2>1. LedgerTypeOK' /\ AccessTypeOK' /\ FeeTypeOK'
    BY <1>0, <1>1 DEF HouseTypes, LedgerTypeOK, AccessTypeOK, FeeTypeOK, ledgerVars,
       accessVars, feeVars
  <2>2. AuctionTypeOK'
    BY <1>0, <1>1 DEF HouseTypes, AuctionTypeOK, AuctionIds
  <2> QED
    BY <2>1, <2>2 DEF HouseTypes
<1>4. GoodPrices'
  BY <1>0, <1>1, <1>2 DEF GoodPrices, ledgerVars
<1> QED
  BY <1>1, <1>3, <1>4, HouseUntouched DEF ledgerVars, feeVars

-----------------------------------------------------------------------------
(* Every step of the auction house keeps the invariant. *)
LEMMA AuctionKeeps ==
    ASSUME NEW held, HouseInv(held), AuctionNext
    PROVE  HouseInv(held)'
<1>1. CASE \E s \in Users, t \in Tokens, k \in Kinds, p \in StartPrices,
              r \in Reserves, d \in AuctionDurations, c \in Increments :
              CreateAuction(s, t, k, p, r, d, c)
  BY <1>1, CreateKeeps
<1>2. CASE \E i \in 1..MaxAuctions, u \in Users, x \in BidAmounts : PlaceBid(i, u, x)
  BY <1>2, BidKeeps
<1>3. CASE \E i \in 1..MaxAuctions : SettleAuction(i)
  BY <1>3, SettleKeeps
<1>4. CASE \E i \in 1..MaxAuctions : CloseUnsold(i)
  <2>1. PICK i : CloseUnsold(i)
    BY <1>4
  <2>2. /\ i \in AuctionIds /\ Pending(i) /\ ReturnAll(i)
        /\ auction' = [auction EXCEPT ![i].state = "Executed"]
    BY <2>1, UnsoldHasNoBidder DEF HouseInv, Ended
  <2> QED
    BY <2>2, ReturnKeeps
<1>5. CASE \E i \in 1..MaxAuctions : CancelAuctionWithRefund(i)
  <2>1. PICK i : CancelAuctionWithRefund(i)
    BY <1>5
  <2>2. /\ i \in AuctionIds /\ Pending(i) /\ ReturnAll(i)
        /\ auction' = [auction EXCEPT ![i].state = "Cancelled"]
    BY <2>1, CancelFacts
  <2> QED
    BY <2>2, ReturnKeeps
<1>6. CASE \E i \in 1..MaxAuctions : GetDutchAuctionPrice(i)
  BY <1>6, AskKeeps
<1> QED
  BY <1>1, <1>2, <1>3, <1>4, <1>5, <1>6 DEF AuctionNext

(* Ledgers that close, and trades outside the marketplace, do. *)
LEMMA LedgerKeepsHouse ==
    ASSUME NEW held, HouseInv(held), LedgerNext, UNCHANGED <<accessVars, feeVars, auctionVars>>
    PROVE  HouseInv(held)'
<1>0. HouseTypes /\ GoodPrices
  BY DEF HouseInv
<1>1. LedgerTypeOK'
  BY <1>0, LedgerNextType DEF HouseTypes
<1>2. HouseTypes'
  BY <1>0, <1>1 DEF HouseTypes, AccessTypeOK, FeeTypeOK, AuctionTypeOK, AuctionIds,
     accessVars, feeVars, auctionVars
<1>3. /\ now' >= now /\ now' \in Nat
      /\ balance' = balance
      /\ \A t \in Tokens : owner'[t] = Contract <=> owner[t] = Contract
  <2>1. CASE CloseLedger
    BY <1>0, <2>1, LedgerAssumption DEF CloseLedger, assetVars, HouseTypes, LedgerTypeOK
  <2>2. CASE \E t \in TradedOutside, u, v \in Users : TransferOutside(t, u, v)
    <3>1. PICK t \in TradedOutside, u \in Users, v \in Users : TransferOutside(t, u, v)
      BY <2>2
    <3>2. owner \in [Tokens -> Accounts] /\ now \in Nat /\ t \in Tokens
      BY <1>0, LedgerAssumption DEF HouseTypes, LedgerTypeOK
    <3> QED
      BY <3>1, <3>2, LedgerAssumption DEF TransferOutside, MoveNft
  <2> QED
    BY <2>1, <2>2 DEF LedgerNext
<1>4. GoodPrices'
  <2>1. dutch' = dutch /\ auction' = auction
    BY DEF auctionVars
  <2>2. now \in Nat /\ \A i \in DOMAIN dutch : dutch[i].updated \in Nat
    BY <1>0 DEF HouseTypes, LedgerTypeOK, AuctionTypeOK
  <2> QED
    BY <1>0, <1>3, <2>1, <2>2 DEF GoodPrices
<1> QED
  BY <1>2, <1>3, <1>4, HouseUntouched DEF feeVars, auctionVars

(* So do the administration of access, *)
LEMMA AccessKeepsHouse ==
    ASSUME NEW held, HouseInv(held), AccessNext, UNCHANGED <<ledgerVars, feeVars, auctionVars>>
    PROVE  HouseInv(held)'
<1>0. HouseTypes /\ GoodPrices
  BY DEF HouseInv
<1>1. AccessTypeOK'
  BY <1>0, AccessNextType DEF HouseTypes, LedgerTypeOK
<1>2. HouseTypes'
  BY <1>0, <1>1 DEF HouseTypes, LedgerTypeOK, FeeTypeOK, AuctionTypeOK, AuctionIds,
     ledgerVars, feeVars, auctionVars
<1>3. GoodPrices'
  BY <1>0 DEF GoodPrices, auctionVars, ledgerVars
<1> QED
  BY <1>2, <1>3, HouseUntouched DEF ledgerVars, feeVars, auctionVars

(* and that of fees: a withdrawal takes the booked fees and no more. *)
LEMMA FeeKeepsHouse ==
    ASSUME NEW held, HouseInv(held), FeeNext, UNCHANGED <<clockVars, accessVars, auctionVars>>
    PROVE  HouseInv(held)'
<1>0. HouseTypes /\ GoodPrices
  BY DEF HouseInv
<1>1. FeeTypeOK' /\ owner' \in [Tokens -> Accounts] /\ balance' \in [Accounts -> Nat]
  BY <1>0, FeeNextType DEF HouseTypes
<1>2. HouseTypes'
  BY <1>0, <1>1 DEF HouseTypes, LedgerTypeOK, AccessTypeOK, AuctionTypeOK, AuctionIds,
     clockVars, accessVars, auctionVars
<1>3. GoodPrices'
  BY <1>0 DEF GoodPrices, auctionVars, clockVars
<1>4. owner' = owner /\ balance'[Contract] - accumulated' = balance[Contract] - accumulated
  <2>1. CASE \E c \in FeeConfigs : UpdateFeeConfig(c)
    BY <2>1 DEF UpdateFeeConfig, assetVars
  <2>2. CASE \E to \in Users : WithdrawPlatformFees(to)
    <3>1. PICK to \in Users : WithdrawPlatformFees(to)
      BY <2>2
    <3>2. balance[Contract] \in Nat /\ accumulated \in Nat
      BY <1>0 DEF HouseTypes, LedgerTypeOK, Accounts, FeeTypeOK
    <3>3. balance'[Contract] = balance[Contract] - (accumulated + 0)
      BY <1>0, <3>1, <3>2, PayOutType DEF WithdrawPlatformFees, HouseTypes
    <3> QED
      BY <3>1, <3>2, <3>3 DEF WithdrawPlatformFees
  <2> QED
    BY <2>1, <2>2 DEF FeeNext
<1> QED
  BY <1>2, <1>3, <1>4, HouseUntouched DEF auctionVars

(* The invariant holds of a contract that has just been initialized. *)
LEMMA HouseInit ==
    ASSUME LedgerInit, AccessInit, FeeInit, AuctionInit
    PROVE  HouseInv({})
<1>1. AuctionIds = {} /\ DOMAIN dutch = {} /\ OpenAuctions = {}
  BY DEF AuctionInit, AuctionIds, OpenAuctions
<1>2. HouseTypes
  <2>1. LedgerTypeOK
    BY LedgerAssumption DEF LedgerInit, LedgerTypeOK, Accounts
  <2>2. AccessTypeOK
    BY AccessAssumption DEF AccessInit, AccessTypeOK, NotPaused, NotScheduled, NotBlocked,
       NoCalls, Modules
  <2>3. FeeTypeOK
    BY FeeAssumption DEF FeeInit, FeeTypeOK
  <2>4. AuctionTypeOK
    BY <1>1, AuctionAssumption DEF AuctionInit, AuctionTypeOK
  <2> QED
    BY <2>1, <2>2, <2>3, <2>4 DEF HouseTypes
<1>3. GoodAuctions /\ GoodPrices
  BY <1>1 DEF GoodAuctions, GoodPrices
<1>4. HoldsOffers({})
  BY <1>1, LedgerAssumption DEF HoldsOffers, LedgerInit
<1>5. StakesBooked
  <2>1. Stakes = 0
    BY <1>1, SumEmpty DEF Stakes
  <2> QED
    BY <2>1 DEF StakesBooked, LedgerInit, FeeInit, Accounts
<1> QED
  BY <1>2, <1>3, <1>4, <1>5 DEF HouseInv
=============================================================================
