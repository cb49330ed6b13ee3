-------------------------- MODULE Settlement_proofs --------------------------
(***************************************************************************)
(* Theorems about the settlement contract as a whole, for any number of    *)
(* users, tokens, sales, auctions and disputes and any configuration.  The *)
(* auction house's invariant HouseInv is taken over as it is, with the     *)
(* tokens that sales hold in escrow as its parameter; EscrowInv says what  *)
(* sales and disputes keep true of swaps, DisputeInv what is true of the   *)
(* disputes themselves, whatever happens to the rest.                      *)
(***************************************************************************)
EXTENDS Settlement, AuctionHouse_proofs, FiniteSetTheorems

(* A swap holds the NFT of its own sale for its own seller, its payment    *)
(* holding is never marked deposited, and the frozen split adds up to the  *)
(* price.  It is open as long as it holds the NFT, and so is its sale.     *)
GoodSwap(i) ==
    /\ swap[i].nft.token = sale[i].token
    /\ swap[i].nft.holder = sale[i].seller
    /\ swap[i].nft.deposited
    /\ ~swap[i].pay.deposited
    /\ swap[i].pay.amount = sale[i].price
    /\ sale[i].royalty + sale[i].share + sale[i].fee = sale[i].price
    /\ swap[i].state = "SellerFunded" <=> Live(swap[i].nft)
    /\ Live(swap[i].nft) => sale[i].state = "Pending"

GoodSwaps == \A i \in SaleIds : GoodSwap(i)

SeparateTokens ==
    \A i, j \in SaleIds :
        /\ Live(swap[i].nft) /\ Live(swap[j].nft)
        /\ swap[i].nft.token = swap[j].nft.token
        => i = j

EscrowInv == SaleTypeOK /\ GoodSwaps /\ SeparateTokens

(* The tokens in the escrow of sales. *)
Escrowed == {swap[i].nft.token : i \in {j \in SaleIds : Live(swap[j].nft)}}

(* A dispute asks for at least one vote; it has fewer votes than it asks   *)
(* for until it is resolved, by the vote that completes the quorum or by a *)
(* call that settles it at once.                                           *)
VoteMaps == UNION {[A -> {0, 1}] : A \in SUBSET Users}

DisputeRecords ==
    [transaction : Nat, onAuction : BOOLEAN, initiator : Users,
     arbitrators : SUBSET Users, votes : VoteMaps, required : Nat \ {0},
     createdAt : Nat, resolution : Resolutions \union {None}, settled : BOOLEAN]

Favourable(votes) == {a \in DOMAIN votes : votes[a] = 1}

GoodDispute(d) ==
    LET votes == dispute[d].votes
    IN  /\ IsFiniteSet(DOMAIN votes)
        /\ DOMAIN votes \subseteq dispute[d].arbitrators
        /\ dispute[d].resolution = None =>
              ~dispute[d].settled /\ Cardinality(DOMAIN votes) < dispute[d].required
        /\ dispute[d].resolution # None /\ ~dispute[d].settled =>
              /\ Cardinality(DOMAIN votes) = dispute[d].required
              /\ dispute[d].resolution =
                    IF Cardinality(Favourable(votes))
                         > Cardinality(DOMAIN votes \ Favourable(votes))
                    THEN "RefundBuyer" ELSE "ReleaseToSeller"

Courts ==
    /\ arbitrator \in [DOMAIN arbitrator -> [score : Nat, handled : Nat, successes : Nat]]
    /\ DOMAIN arbitrator \subseteq Users
    /\ disputeConfig \in DisputeConfigType
    /\ ValidDisputeConfig(disputeConfig)

DisputeInv ==
    /\ nextDispute \in 1..(MaxDisputes + 1)
    /\ dispute \in [DisputeIds -> DisputeRecords]
    /\ \A d \in DisputeIds : GoodDispute(d)
    /\ Courts

MoneyInv == EscrowInv /\ HouseInv(Escrowed)
IndInv == MoneyInv /\ DisputeInv
-----------------------------------------------------------------------------
(* Disputes.  What a step may do to one of them. *)
DecisionAt(d) ==
    /\ dispute[d].resolution # None =>
                         /\ dispute'[d].resolution = dispute[d].resolution
                         /\ dispute'[d].votes = dispute[d].votes
    /\ dispute[d].settled => dispute'[d] = dispute[d]
    /\ \A a \in DOMAIN dispute[d].votes : dispute'[d].votes[a] = dispute[d].votes[a]

Decisions == \A d \in DisputeIds : DecisionAt(d)

(* None is not a resolution. *)
LEMMA NoneIsNone == None \notin Resolutions
BY DEF None, Resolutions

(* The fields of a dispute. *)
LEMMA DisputeFields ==
    ASSUME DisputeInv, NEW d \in DisputeIds
    PROVE  /\ dispute[d] \in DisputeRecords
           /\ dispute[d].arbitrators \in SUBSET Users
           /\ dispute[d].votes \in [DOMAIN dispute[d].votes -> {0, 1}]
           /\ DOMAIN dispute[d].votes \in SUBSET Users
           /\ dispute[d].votes \in VoteMaps
           /\ dispute[d].required \in Nat \ {0}
           /\ dispute[d].resolution \in Resolutions \union {None}
           /\ dispute[d].settled \in BOOLEAN
           /\ GoodDispute(d)
<1>1. dispute[d] \in DisputeRecords /\ GoodDispute(d)
  BY DEF DisputeInv
<1>2. /\ dispute[d].arbitrators \in SUBSET Users
      /\ dispute[d].votes \in VoteMaps
      /\ dispute[d].required \in Nat \ {0}
      /\ dispute[d].resolution \in Resolutions \union {None}
      /\ dispute[d].settled \in BOOLEAN
  BY <1>1 DEF DisputeRecords
<1>3. PICK A \in SUBSET Users : dispute[d].votes \in [A -> {0, 1}]
  BY <1>2, Zenon DEF VoteMaps
<1>4. DOMAIN dispute[d].votes = A
  BY <1>3
<1> QED
  BY <1>1, <1>2, <1>3, <1>4

(* A step that leaves the disputes alone decides nothing. *)
LEMMA DisputesStand ==
    ASSUME DisputeInv, UNCHANGED <<nextDispute, dispute>>, Courts'
    PROVE  DisputeInv' /\ Decisions
<1>1. DisputeIds' = DisputeIds
  BY DEF DisputeIds
<1>2. DisputeInv'
  BY <1>1 DEF DisputeInv, GoodDispute
<1> QED
  BY <1>2 DEF Decisions, DecisionAt

LEMMA DisputesUntouched ==
    ASSUME DisputeInv, UNCHANGED disputeVars
    PROVE  DisputeInv' /\ Decisions
<1>1. Courts'
  BY DEF DisputeInv, Courts, disputeVars
<1> QED
  BY <1>1, DisputesStand DEF disputeVars

(* One dispute gets a new record. *)
LEMMA DisputeChanged ==
    ASSUME DisputeInv, NEW d \in DisputeIds, NEW r \in DisputeRecords,
           dispute' = [dispute EXCEPT ![d] = r], UNCHANGED nextDispute, Courts',
           GoodDispute(d)', DecisionAt(d)
    PROVE  DisputeInv' /\ Decisions
<1>1. DisputeIds' = DisputeIds
  BY DEF DisputeIds
<1>2. /\ dispute \in [DisputeIds -> DisputeRecords]
      /\ \A e \in DisputeIds : GoodDispute(e)
      /\ nextDispute \in 1..(MaxDisputes + 1)
  BY DEF DisputeInv
<1>3. /\ dispute' \in [DisputeIds -> DisputeRecords]
      /\ \A e \in DisputeIds : e # d => dispute'[e] = dispute[e]
  BY <1>2
<1>4. \A e \in DisputeIds : GoodDispute(e)'
  BY <1>2, <1>3 DEF GoodDispute
<1>5. \A e \in DisputeIds : DecisionAt(e)
  BY <1>2, <1>3 DEF DecisionAt
<1> QED
  BY <1>1, <1>2, <1>3, <1>4, <1>5 DEF DisputeInv, Decisions

(* The registries keep their types: a score never becomes negative, and a  *)
(* rating counts one more dispute handled.                                 *)
LEMMA QuotientNat ==
    ASSUME NEW m \in Nat, NEW n \in Nat \ {0}
    PROVE  m \div n \in Nat
OBVIOUS

LEMMA RatedType ==
    ASSUME Courts, NEW a \in DOMAIN arbitrator, NEW success \in BOOLEAN
    PROVE  Rated(a, success) \in [score : Nat, handled : Nat, successes : Nat]
<1> DEFINE handled == arbitrator[a].handled + 1
           successes == arbitrator[a].successes + (IF success THEN 1 ELSE 0)
<1>1. handled \in Nat \ {0} /\ successes \in Nat /\ successes * 100 \in Nat
  BY DEF Courts
<1> HIDE DEF handled, successes
<1>2. (successes * 100) \div handled \in Nat
  BY <1>1, QuotientNat, Zenon
<1> QED
  BY <1>1, <1>2 DEF Rated, handled, successes

LEMMA AllRatedType ==
    ASSUME Courts, NEW d, NEW success \in BOOLEAN
    PROVE  /\ AllRated(d, success) \in
                 [DOMAIN arbitrator -> [score : Nat, handled : Nat, successes : Nat]]
           /\ DOMAIN AllRated(d, success) = DOMAIN arbitrator
<1>1. \A a \in DOMAIN arbitrator :
        /\ Rated(a, success) \in [score : Nat, handled : Nat, successes : Nat]
        /\ arbitrator[a] \in [score : Nat, handled : Nat, successes : Nat]
  BY RatedType DEF Courts
<1> QED
  BY <1>1 DEF AllRated

LEMMA CourtsRated ==
    ASSUME Courts, NEW d, NEW success \in BOOLEAN,
           arbitrator' = AllRated(d, success) \/ UNCHANGED arbitrator,
           UNCHANGED disputeConfig
    PROVE  Courts'
<1>1. /\ arbitrator' \in [DOMAIN arbitrator -> [score : Nat, handled : Nat, successes : Nat]]
      /\ DOMAIN arbitrator' = DOMAIN arbitrator
  BY AllRatedType DEF Courts
<1> QED
  BY <1>1 DEF Courts

LEMMA CourtsJoined ==
    ASSUME Courts, NEW a \in Users, NEW r \in [score : Nat, handled : Nat, successes : Nat],
           arbitrator' = WithArbitrator(a, r), UNCHANGED disputeConfig
    PROVE  Courts'
<1>1. /\ arbitrator' \in [DOMAIN arbitrator \union {a} ->
                            [score : Nat, handled : Nat, successes : Nat]]
      /\ DOMAIN arbitrator' = DOMAIN arbitrator \union {a}
  BY DEF Courts, WithArbitrator
<1> QED
  BY <1>1 DEF Courts

-----------------------------------------------------------------------------
(* A majority of the votes cast, as try_resolve_dispute computes it, is    *)
(* more votes in favour than against.                                      *)
LEMMA MajorityOfVotes ==
    ASSUME NEW votes, IsFiniteSet(DOMAIN votes)
    PROVE  Outcome(votes) = IF Cardinality(Favourable(votes))
                                 > Cardinality(DOMAIN votes \ Favourable(votes))
                            THEN "RefundBuyer" ELSE "ReleaseToSeller"
<1> DEFINE D == DOMAIN votes
           F == Favourable(votes)
<1>1. F \in SUBSET D
  BY DEF Favourable
<1>2. Outcome(votes) = IF Cardinality(F) > Cardinality(D) \div 2
                       THEN "RefundBuyer" ELSE "ReleaseToSeller"
  BY Zenon DEF Outcome, Favourable
<1> HIDE DEF D, F
<1>3. IsFiniteSet(D)
  BY DEF D
<1>4. /\ Cardinality(D \ F) = Cardinality(D) - Cardinality(F)
  <2>1. D \cap F = F
    BY <1>1
  <2> QED
    BY <1>3, <2>1, FS_Difference
<1>5. Cardinality(D) \in Nat /\ Cardinality(F) \in Nat
  BY <1>1, <1>3, FS_Subset, FS_CardinalityType
<1>6. Cardinality(F) > Cardinality(D) \div 2 <=> Cardinality(F) > Cardinality(D \ F)
  BY <1>4, <1>5
<1> QED
  BY <1>2, <1>6 DEF D, F

(* vote_on_dispute: votes cast stay, and the one that completes the quorum *)
(* decides by majority.                                                    *)
LEMMA VoteDecides ==
    ASSUME DisputeInv, NEW d, NEW a \in Arbitrators, NEW vote \in {0, 1},
           VoteOnDispute(d, a, vote)
    PROVE  DisputeInv' /\ Decisions
<1> DEFINE x == dispute[d]
           old == x.votes
           votes == [y \in DOMAIN old \union {a} |-> IF y = a THEN vote ELSE old[y]]
           decided == Cardinality(DOMAIN votes) >= x.required
           resolution == IF decided THEN Outcome(votes) ELSE None
           r == [x EXCEPT !.votes = votes, !.resolution = resolution]
<1>1. /\ d \in DisputeIds /\ x.resolution = None
      /\ a \in x.arbitrators /\ a \notin DOMAIN old
      /\ dispute' = [dispute EXCEPT ![d].votes = votes, ![d].resolution = resolution]
      /\ arbitrator' = AllRated(d, TRUE) \/ UNCHANGED arbitrator
      /\ UNCHANGED <<nextDispute, disputeConfig>>
  BY Zenon DEF VoteOnDispute, Unresolved
<1>2. /\ x \in DisputeRecords /\ x.arbitrators \in SUBSET Users
      /\ old \in [DOMAIN old -> {0, 1}] /\ DOMAIN old \in SUBSET Users
      /\ x.required \in Nat \ {0}
      /\ GoodDispute(d)
  BY <1>1, DisputeFields
<1>3. /\ IsFiniteSet(DOMAIN old) /\ DOMAIN old \subseteq x.arbitrators
      /\ x.settled = FALSE /\ Cardinality(DOMAIN old) < x.required
  BY <1>1, <1>2 DEF GoodDispute, DisputeRecords
<1>4. /\ DOMAIN votes = DOMAIN old \union {a}
      /\ votes \in [DOMAIN old \union {a} -> {0, 1}]
      /\ \A y \in DOMAIN old : votes[y] = old[y]
  BY <1>1, <1>2
<1> HIDE DEF votes
<1>5. /\ IsFiniteSet(DOMAIN votes)
      /\ Cardinality(DOMAIN votes) = Cardinality(DOMAIN old) + 1
      /\ Cardinality(DOMAIN old) \in Nat
  BY <1>1, <1>3, <1>4, FS_AddElement, FS_CardinalityType
<1>6. /\ decided => Cardinality(DOMAIN votes) = x.required
      /\ ~decided => Cardinality(DOMAIN votes) < x.required
  BY <1>2, <1>3, <1>5
<1> HIDE DEF decided
<1>7. votes \in VoteMaps /\ DOMAIN votes \subseteq x.arbitrators
  BY <1>1, <1>2, <1>3, <1>4 DEF VoteMaps
<1>8. /\ resolution \in Resolutions \union {None}
      /\ decided => resolution # None
      /\ decided => resolution = IF Cardinality(Favourable(votes))
                                      > Cardinality(DOMAIN votes \ Favourable(votes))
                                 THEN "RefundBuyer" ELSE "ReleaseToSeller"
      /\ ~decided => resolution = None
  BY <1>5, MajorityOfVotes DEF Outcome, Resolutions, None
<1> HIDE DEF resolution
<1>9. dispute' = [dispute EXCEPT ![d] = r]
  BY <1>1, Zenon
<1>10. /\ r \in DisputeRecords
       /\ r.votes = votes /\ r.resolution = resolution /\ r.settled = FALSE
       /\ r.arbitrators = x.arbitrators /\ r.required = x.required
  BY <1>2, <1>3, <1>7, <1>8 DEF DisputeRecords
<1> HIDE DEF r
<1>11. dispute'[d] = r
  BY <1>1, <1>9 DEF DisputeInv
<1>12. GoodDispute(d)'
  BY <1>5, <1>6, <1>7, <1>8, <1>10, <1>11 DEF GoodDispute
<1>13. DecisionAt(d)
  BY <1>1, <1>3, <1>4, <1>10, <1>11 DEF DecisionAt
<1>14. Courts'
  BY <1>1, CourtsRated DEF DisputeInv
<1> QED
  BY <1>1, <1>9, <1>10, <1>12, <1>13, <1>14, DisputeChanged

(* A dispute is settled once: by a resolution that is its own, or by one   *)
(* that it gets and is paid by in the same call.                           *)
LEMMA SettlingDecides ==
    ASSUME DisputeInv, NEW d \in DisputeIds, ~dispute[d].settled,
           NEW resolution \in Resolutions,
           dispute[d].resolution \in {None, resolution},
           dispute' = [dispute EXCEPT ![d].resolution = resolution, ![d].settled = TRUE],
           UNCHANGED nextDispute, Courts'
    PROVE  DisputeInv' /\ Decisions
<1> DEFINE x == dispute[d]
           r == [x EXCEPT !.resolution = resolution, !.settled = TRUE]
<1>1. dispute' = [dispute EXCEPT ![d] = r]
  BY Zenon
<1>2. x \in DisputeRecords /\ GoodDispute(d)
  BY DisputeFields
<1>3. /\ r \in DisputeRecords
      /\ r.votes = x.votes /\ r.resolution = resolution /\ r.settled = TRUE
      /\ r.arbitrators = x.arbitrators /\ r.required = x.required
  BY <1>2 DEF DisputeRecords
<1> HIDE DEF r
<1>4. dispute'[d] = r
  BY <1>1 DEF DisputeInv
<1>5. GoodDispute(d)'
  BY <1>2, <1>3, <1>4, NoneIsNone DEF GoodDispute
<1>6. DecisionAt(d)
  BY <1>3, <1>4 DEF DecisionAt
<1> QED
  BY <1>1, <1>3, <1>5, <1>6, DisputeChanged

(* initiate_dispute: a new dispute, with nobody's vote. *)
LEMMA InitiateKeeps ==
    ASSUME DisputeInv, now \in Nat, NEW u \in Users, NEW i \in Nat, InitiateDispute(u, i)
    PROVE  DisputeInv' /\ Decisions
<1>1. PICK chosen \in SUBSET Eligible :
        dispute' = [d \in 1..nextDispute |-> IF d < nextDispute THEN dispute[d] ELSE
            [transaction |-> i, onAuction |-> i \in AuctionIds, initiator |-> u,
             arbitrators |-> chosen, votes |-> [a \in {} |-> 0],
             required |-> disputeConfig.quorum, createdAt |-> now,
             resolution |-> None, settled |-> FALSE]]
  BY Zenon DEF InitiateDispute
<1> DEFINE r == [transaction |-> i, onAuction |-> i \in AuctionIds, initiator |-> u,
             arbitrators |-> chosen, votes |-> [a \in {} |-> 0],
             required |-> disputeConfig.quorum, createdAt |-> now,
             resolution |-> None, settled |-> FALSE]
<1>2. /\ nextDispute <= MaxDisputes /\ nextDispute' = nextDispute + 1
      /\ UNCHANGED <<arbitrator, disputeConfig>>
  BY DEF InitiateDispute
<1>3. /\ nextDispute \in 1..(MaxDisputes + 1) /\ MaxDisputes \in Nat
      /\ dispute \in [DisputeIds -> DisputeRecords]
      /\ \A d \in DisputeIds : GoodDispute(d)
  BY DisputeAssumption DEF DisputeInv
<1>4. /\ nextDispute' \in 1..(MaxDisputes + 1)
      /\ DisputeIds' = 1..nextDispute
      /\ \A d \in 1..nextDispute : d < nextDispute => d \in DisputeIds
      /\ \A d \in DisputeIds : d \in 1..nextDispute /\ d < nextDispute
  BY <1>2, <1>3 DEF DisputeIds
<1>5. disputeConfig.quorum \in Nat \ {0}
  BY DEF DisputeInv, Courts, ValidDisputeConfig, DisputeConfigType
<1>6. chosen \in SUBSET Users
  BY DEF Eligible, DisputeInv, Courts
<1> DEFINE nobody == [a \in {} |-> 0]
<1>7. nobody \in VoteMaps /\ DOMAIN nobody = {}
  <2>1. nobody \in [{} -> {0, 1}]
    OBVIOUS
  <2> QED
    BY <2>1 DEF VoteMaps
<1> HIDE DEF nobody
<1>8. /\ r \in DisputeRecords /\ r.votes = nobody /\ r.resolution = None
      /\ r.settled = FALSE /\ r.required = disputeConfig.quorum /\ r.arbitrators = chosen
  <2>1. r.votes = nobody
    BY DEF nobody
  <2>2. (i \in AuctionIds) \in BOOLEAN
    OBVIOUS
  <2> QED
    BY <1>5, <1>6, <1>7, <2>1, <2>2 DEF DisputeRecords, nobody
<1> HIDE DEF r
<1>9. /\ \A d \in DisputeIds : dispute'[d] = dispute[d]
      /\ dispute' \in [1..nextDispute -> DisputeRecords]
      /\ \A d \in 1..nextDispute : d \notin DisputeIds => dispute'[d] = r
  <2>1. dispute' = [d \in 1..nextDispute |-> IF d < nextDispute THEN dispute[d] ELSE r]
    BY <1>1, Zenon DEF r
  <2> QED
    BY <1>3, <1>4, <1>8, <2>1
<1>10. \A d \in 1..nextDispute : GoodDispute(d)'
  <2> SUFFICES ASSUME NEW d \in 1..nextDispute PROVE GoodDispute(d)'
    OBVIOUS
  <2>1. CASE d \in DisputeIds
    BY <1>3, <1>9, <2>1 DEF GoodDispute
  <2>2. CASE d \notin DisputeIds
    <3>1. IsFiniteSet({}) /\ Cardinality({}) = 0
      BY FS_EmptySet
    <3> QED
      BY <1>5, <1>7, <1>8, <1>9, <2>2, <3>1 DEF GoodDispute
  <2> QED
    BY <2>1, <2>2
<1>11. Courts'
  BY <1>2 DEF DisputeInv, Courts
<1>12. Decisions
  BY <1>9 DEF Decisions, DecisionAt
<1> QED
  BY <1>4, <1>9, <1>10, <1>11, <1>12 DEF DisputeInv

(* The four calls that settle: what each reads, checks and writes. *)
Settles(d, resolution) ==
    /\ d \in DisputeIds
    /\ ~dispute[d].settled
    /\ resolution \in Resolutions
    /\ dispute[d].resolution \in {None, resolution}
    /\ SettleEscrow(d, resolution)
    /\ dispute' = [dispute EXCEPT ![d].resolution = resolution, ![d].settled = TRUE]
    /\ arbitrator' \in {arbitrator, AllRated(d, TRUE), AllRated(d, FALSE)}
    /\ UNCHANGED <<nextDispute, oracle, disputeAdmin, disputeConfig>>

LEMMA SettlingCalls ==
    ASSUME DisputeInv, NEW d,
           \/ \E u \in Users, r \in ForcedResolutions : ForceResolveDispute(d, u, r)
           \/ \E o \in Oracles, r \in ForcedResolutions : SubmitOracleResolution(d, o, r)
           \/ ExecuteDisputeResolution(d)
           \/ ResolveDisputeTimeout(d)
    PROVE  \E resolution : Settles(d, resolution)
<1>1. CASE \E u \in Users, r \in ForcedResolutions : ForceResolveDispute(d, u, r)
  <2>1. PICK u \in Users, r \in ForcedResolutions : ForceResolveDispute(d, u, r)
    BY <1>1
  <2>2. r \in Resolutions
    BY DisputeAssumption
  <2>3. Settles(d, r)
    BY <2>1, <2>2, Zenon DEF ForceResolveDispute, Settles, Unresolved, Unsettled
  <2> QED
    BY <2>3
<1>2. CASE \E o \in Oracles, r \in ForcedResolutions : SubmitOracleResolution(d, o, r)
  <2>1. PICK o \in Oracles, r \in ForcedResolutions : SubmitOracleResolution(d, o, r)
    BY <1>2
  <2>2. r \in Resolutions
    BY DisputeAssumption
  <2>3. Settles(d, r)
    BY <2>1, <2>2, Zenon DEF SubmitOracleResolution, Settles, Unresolved, Unsettled
  <2> QED
    BY <2>3
<1>3. CASE ExecuteDisputeResolution(d)
  <2> DEFINE r == dispute[d].resolution
  <2>1. /\ d \in DisputeIds /\ ~dispute[d].settled /\ r # None /\ SettleEscrow(d, r)
        /\ dispute' = [dispute EXCEPT ![d].settled = TRUE]
        /\ UNCHANGED <<nextDispute, arbitrator, oracle, disputeAdmin, disputeConfig>>
    BY <1>3, Zenon DEF ExecuteDisputeResolution, Unresolved, Unsettled
  <2>2. dispute[d] \in DisputeRecords /\ r \in Resolutions
    BY <2>1, DisputeFields
  <2>3. dispute' = [dispute EXCEPT ![d].resolution = r, ![d].settled = TRUE]
    <3>1. [dispute[d] EXCEPT !.resolution = r, !.settled = TRUE]
            = [dispute[d] EXCEPT !.settled = TRUE]
      BY <2>2 DEF DisputeRecords
    <3>2. dispute' = [dispute EXCEPT ![d] = [dispute[d] EXCEPT !.settled = TRUE]]
      BY <2>1, Zenon
    <3>3. dispute' = [dispute EXCEPT ![d] = [dispute[d] EXCEPT !.resolution = r, !.settled = TRUE]]
      BY <3>1, <3>2, Zenon
    <3> QED
      BY <3>3, Zenon
  <2>4. Settles(d, r)
    BY <2>1, <2>2, <2>3, Zenon DEF Settles
  <2> QED
    BY <2>4
<1>4. CASE ResolveDisputeTimeout(d)
  <2> DEFINE r == IF Unresolved(d) THEN disputeConfig.default ELSE dispute[d].resolution
  <2>1. /\ d \in DisputeIds /\ ~dispute[d].settled /\ SettleEscrow(d, r)
        /\ dispute' = [dispute EXCEPT ![d].resolution = r, ![d].settled = TRUE]
        /\ arbitrator' = IF Unresolved(d) THEN AllRated(d, FALSE) ELSE arbitrator
        /\ UNCHANGED <<nextDispute, oracle, disputeAdmin, disputeConfig>>
    BY <1>4, Zenon DEF ResolveDisputeTimeout, Unsettled
  <2>2. r \in Resolutions /\ dispute[d].resolution \in {None, r}
    BY <2>1, DisputeFields DEF Unresolved, DisputeInv, Courts, DisputeConfigType
  <2>3. Settles(d, r)
    BY <2>1, <2>2, Zenon DEF Settles
  <2> QED
    BY <2>3
<1> QED
  BY <1>1, <1>2, <1>3, <1>4, Zenon

(* Steps of the registries keep the types of the registries. *)
LEMMA RegistriesKeep ==
    ASSUME DisputeInv,
           \/ \E a \in Arbitrators, r \in Reputations : RegisterArbitrator(a, r)
           \/ \E a \in Arbitrators, c \in ReputationChanges : UpdateArbitratorReputation(a, c)
           \/ \E o \in Oracles, active \in BOOLEAN : RegisterOracle(o, active)
           \/ \E u \in AdminCandidates : AddDisputeAdmin(u) \/ RemoveDisputeAdmin(u)
           \/ \E c \in DisputeConfigs : UpdateDisputeConfig(c)
    PROVE  DisputeInv' /\ Decisions /\ NothingMoves
<1>1. CASE \E a \in Arbitrators, r \in Reputations : RegisterArbitrator(a, r)
  <2>1. PICK a \in Arbitrators, r \in Reputations : RegisterArbitrator(a, r)
    BY <1>1
  <2>2. Newcomer(r) \in [score : Nat, handled : Nat, successes : Nat] /\ a \in Users
    BY DisputeAssumption DEF Newcomer
  <2>3. Courts'
    BY <2>1, <2>2, CourtsJoined DEF RegisterArbitrator, DisputeInv
  <2> QED
    BY <2>1, <2>3, DisputesStand DEF RegisterArbitrator
<1>2. CASE \E a \in Arbitrators, c \in ReputationChanges : UpdateArbitratorReputation(a, c)
  <2>1. PICK a \in Arbitrators, c \in ReputationChanges : UpdateArbitratorReputation(a, c)
    BY <1>2
  <2> DEFINE old == ArbitratorOf(a)
             r == [old EXCEPT !.score = AtLeast(@ + c, 0)]
  <2>2. a \in Users /\ c \in Int
    BY DisputeAssumption
  <2>3. old \in [score : Nat, handled : Nat, successes : Nat]
    BY DEF ArbitratorOf, Newcomer, DisputeInv, Courts
  <2> HIDE DEF old
  <2>4. r \in [score : Nat, handled : Nat, successes : Nat]
    BY <2>2, <2>3 DEF AtLeast
  <2>5. arbitrator' = WithArbitrator(a, r)
    BY <2>1, Zenon DEF UpdateArbitratorReputation, old
  <2> HIDE DEF r
  <2>6. Courts'
    BY <2>1, <2>2, <2>4, <2>5, CourtsJoined DEF UpdateArbitratorReputation, DisputeInv
  <2> QED
    BY <2>1, <2>6, DisputesStand DEF UpdateArbitratorReputation
<1>3. CASE \E o \in Oracles, active \in BOOLEAN : RegisterOracle(o, active)
  <2>1. Courts'
    BY <1>3 DEF RegisterOracle, DisputeInv, Courts
  <2> QED
    BY <1>3, <2>1, DisputesStand DEF RegisterOracle
<1>4. CASE \E u \in AdminCandidates : AddDisputeAdmin(u) \/ RemoveDisputeAdmin(u)
  <2>1. Courts'
    BY <1>4 DEF AddDisputeAdmin, RemoveDisputeAdmin, DisputeInv, Courts
  <2> QED
    BY <1>4, <2>1, DisputesStand DEF AddDisputeAdmin, RemoveDisputeAdmin
<1>5. CASE \E c \in DisputeConfigs : UpdateDisputeConfig(c)
  <2>1. Courts'
    BY <1>5, DisputeAssumption DEF UpdateDisputeConfig, DisputeInv, Courts
  <2> QED
    BY <1>5, <2>1, DisputesStand DEF UpdateDisputeConfig
<1> QED
  BY <1>1, <1>2, <1>3, <1>4, <1>5

(* A step of the disputes settles one, or moves nothing; either way it     *)
(* decides by the rules.                                                   *)
LEMMA DisputeStep ==
    ASSUME DisputeInv, now \in Nat, DisputeNext
    PROVE  /\ DisputeInv' /\ Decisions
           /\ \/ NothingMoves /\ \A d \in DisputeIds : dispute'[d].settled = dispute[d].settled
              \/ \E d, resolution : Settles(d, resolution)
<1>1. CASE \E u \in Users, i \in 1..MaxSales : InitiateDispute(u, i)
  <2>1. PICK u \in Users, i \in 1..MaxSales : InitiateDispute(u, i)
    BY <1>1
  <2>2. i \in Nat
    BY SaleAssumption
  <2>3. DisputeInv' /\ Decisions
    BY <2>1, <2>2, InitiateKeeps
  <2>4. \A d \in DisputeIds : dispute'[d] = dispute[d]
    <3>1. \A d \in DisputeIds : d \in 1..nextDispute /\ d < nextDispute
      BY DEF DisputeIds, DisputeInv
    <3> QED
      BY <2>1, <3>1 DEF InitiateDispute
  <2> QED
    BY <2>1, <2>3, <2>4 DEF InitiateDispute
<1>2. CASE \E d \in 1..MaxDisputes, a \in Arbitrators, v \in {0, 1} : VoteOnDispute(d, a, v)
  <2>1. PICK d \in 1..MaxDisputes, a \in Arbitrators, v \in {0, 1} : VoteOnDispute(d, a, v)
    BY <1>2
  <2>2. DisputeInv' /\ Decisions /\ NothingMoves
    BY <2>1, VoteDecides DEF VoteOnDispute
  <2>3. \A e \in DisputeIds : dispute'[e].settled = dispute[e].settled
    BY <2>1 DEF VoteOnDispute, DisputeInv, DisputeRecords
  <2> QED
    BY <2>2, <2>3
<1>3. ASSUME NEW d,
             \/ \E u \in Users, r \in ForcedResolutions : ForceResolveDispute(d, u, r)
             \/ \E o \in Oracles, r \in ForcedResolutions : SubmitOracleResolution(d, o, r)
             \/ ExecuteDisputeResolution(d)
             \/ ResolveDisputeTimeout(d)
      PROVE  DisputeInv' /\ Decisions /\ \E resolution : Settles(d, resolution)
  <2>1. PICK resolution : Settles(d, resolution)
    BY <1>3, SettlingCalls
  <2>2. Courts'
    BY <2>1, CourtsRated DEF Settles, DisputeInv
  <2> QED
    BY <2>1, <2>2, SettlingDecides DEF Settles
<1>4. CASE \/ \E a \in Arbitrators, r \in Reputations : RegisterArbitrator(a, r)
           \/ \E a \in Arbitrators, c \in ReputationChanges : UpdateArbitratorReputation(a, c)
           \/ \E o \in Oracles, active \in BOOLEAN : RegisterOracle(o, active)
           \/ \E u \in AdminCandidates : AddDisputeAdmin(u) \/ RemoveDisputeAdmin(u)
           \/ \E c \in DisputeConfigs : UpdateDisputeConfig(c)
  <2>1. DisputeInv' /\ Decisions /\ NothingMoves
    BY <1>4, RegistriesKeep
  <2>2. UNCHANGED dispute
    BY <1>4 DEF RegisterArbitrator, UpdateArbitratorReputation, RegisterOracle,
       AddDisputeAdmin, RemoveDisputeAdmin, UpdateDisputeConfig
  <2> QED
    BY <2>1, <2>2
<1> QED
  BY <1>1, <1>2, <1>3, <1>4, Zenon DEF DisputeNext

-----------------------------------------------------------------------------
(* Sales, their escrow, and the auction house beside them. *)

(* Steps that leave the auctions and the contract's net balance alone keep *)
(* the auction house's invariant, if what changes hands is in escrow.      *)
LEMMA HouseBesides ==
    ASSUME HouseInv(Escrowed), HouseTypes', HoldsOffers(Escrowed)',
           UNCHANGED <<now, auctionVars>>,
           balance'[Contract] - accumulated' = balance[Contract] - accumulated
    PROVE  HouseInv(Escrowed)'
<1>0. UNCHANGED <<now, nextAuction, auction, bids, dutch>>
  BY DEF auctionVars
<1>1. AuctionIds' = AuctionIds
  BY <1>0 DEF AuctionIds
<1>2. GoodAuctions' /\ GoodPrices'
  BY <1>0, <1>1 DEF HouseInv, GoodAuctions, GoodAuction, HasBidder, GoodPrices
<1>3. Stakes' = Stakes
  <2>1. [i \in AuctionIds |-> Stake(i)]' = [i \in AuctionIds |-> Stake(i)]
    BY <1>0, <1>1 DEF Stake, Pending
  <2> QED
    BY <1>1, <2>1, Zenon DEF Stakes
<1>4. StakesBooked'
  <2>1. /\ Stakes \in Nat /\ balance[Contract] \in Nat /\ accumulated \in Nat
        /\ balance'[Contract] \in Nat /\ accumulated' \in Nat
    BY StakesNat DEF HouseInv, HouseTypes, LedgerTypeOK, Accounts, FeeTypeOK
  <2> QED
    BY <1>3, <2>1 DEF HouseInv, StakesBooked
<1> QED
  BY <1>2, <1>4 DEF HouseInv

(* Steps of the auction house leave the escrow of sales alone, and the     *)
(* escrow is what its invariant is told is held besides.                   *)
LEMMA EscrowStands ==
    ASSUME EscrowInv, UNCHANGED saleVars
    PROVE  EscrowInv' /\ Escrowed' = Escrowed
<1>1. UNCHANGED <<nextSale, sale, swap, swapConfig>> /\ SaleIds' = SaleIds
  BY DEF saleVars, SaleIds
<1>2. EscrowInv'
  BY <1>1 DEF EscrowInv, SaleTypeOK, GoodSwaps, GoodSwap, SeparateTokens
<1> QED
  BY <1>1, <1>2, Zenon DEF Escrowed

LEMMA EscrowStandsBeside ==
    ASSUME MoneyInv, UNCHANGED saleVars,
           \A held : HouseInv(held) => HouseInv(held)'
    PROVE  MoneyInv'
<1>1. EscrowInv' /\ Escrowed' = Escrowed
  BY EscrowStands DEF MoneyInv
<1>2. PICK held : held = Escrowed
  OBVIOUS
<1>3. HouseInv(held)
  BY <1>2, Zenon DEF MoneyInv
<1>4. HouseInv(held)'
  BY <1>3
<1>5. HouseInv(Escrowed)'
  BY <1>1, <1>2, <1>4 DEF HouseInv, HoldsOffers
<1> QED
  BY <1>1, <1>5 DEF MoneyInv

(* The parts of a sale and its swap. *)
LEMMA SwapFields ==
    ASSUME EscrowInv, NEW i \in SaleIds
    PROVE  /\ sale[i] \in Sales /\ swap[i] \in Swaps /\ GoodSwap(i)
           /\ swap[i].nft \in NftHoldings /\ swap[i].pay \in PayHoldings
           /\ swap[i].nft.token \in Tokens /\ swap[i].nft.holder \in Users
           /\ ~Live(swap[i].pay)
<1>1. sale[i] \in Sales /\ swap[i] \in Swaps /\ GoodSwap(i)
  BY DEF EscrowInv, SaleTypeOK, GoodSwaps
<1>2. swap[i].nft \in NftHoldings /\ swap[i].pay \in PayHoldings
  BY <1>1 DEF Swaps
<1>3. swap[i].nft.token \in Tokens /\ swap[i].nft.holder \in Users
  BY <1>2 DEF NftHoldings
<1>4. ~Live(swap[i].pay)
  BY <1>1 DEF GoodSwap, Live
<1> QED
  BY <1>1, <1>2, <1>3, <1>4

LEMMA EscrowedTokens ==
    ASSUME NEW t
    PROVE  t \in Escrowed <=> \E i \in SaleIds : Live(swap[i].nft) /\ swap[i].nft.token = t
BY DEF Escrowed

(* A released NFT holding keeps depositor and token and is live no longer; *)
(* a payment holding that was never deposited is not touched.              *)
LEMMA ReleaseNft ==
    ASSUME NEW h \in NftHoldings, h.deposited
    PROVE  /\ Release(h) \in NftHoldings
           /\ Release(h).holder = h.holder
           /\ Release(h).token = h.token
           /\ Release(h).deposited
           /\ ~Live(Release(h))
<1>1. Release(h) = [h EXCEPT !.released = TRUE]
  BY Zenon DEF Release
<1> QED
  BY <1>1 DEF Live, NftHoldings

LEMMA ReleasePay ==
    ASSUME NEW h \in PayHoldings, ~h.deposited
    PROVE  Release(h) = h
<1>1. (h.released \/ h.deposited) = h.released
  BY Zenon DEF PayHoldings
<1>2. Release(h) = [h EXCEPT !.released = h.released]
  BY <1>1, Zenon DEF Release
<1> QED
  BY <1>2 DEF PayHoldings

(* The swap i after a refund of it. *)
AfterRefund(i) ==
    [Released(swap[i]) EXCEPT !.state = IF @ = "Executed" THEN @ ELSE "Failed"]

LEMMA RefundedSwap ==
    ASSUME EscrowInv, NEW i \in SaleIds
    PROVE  /\ AfterRefund(i) \in Swaps
           /\ AfterRefund(i).nft.token = swap[i].nft.token
           /\ AfterRefund(i).nft.holder = swap[i].nft.holder
           /\ AfterRefund(i).nft.deposited
           /\ ~Live(AfterRefund(i).nft)
           /\ AfterRefund(i).pay = swap[i].pay
           /\ AfterRefund(i).state = IF swap[i].state = "Executed" THEN "Executed" ELSE "Failed"
<1> DEFINE w == swap[i]
<1>1. /\ w \in Swaps /\ w.nft \in NftHoldings /\ w.pay \in PayHoldings
      /\ w.nft.deposited /\ ~w.pay.deposited
  BY SwapFields DEF GoodSwap
<1>2. Release(w.pay) = w.pay /\ Release(w.nft) \in NftHoldings
  BY <1>1, ReleasePay, ReleaseNft
<1>3. AfterRefund(i) = [w EXCEPT !.nft = Release(w.nft), !.pay = w.pay,
                              !.state = IF w.state = "Executed" THEN "Executed" ELSE "Failed"]
  BY <1>1, <1>2 DEF AfterRefund, Released, Swaps
<1> HIDE DEF w
<1>4. AfterRefund(i) \in Swaps
  BY <1>1, <1>2, <1>3 DEF Swaps, SwapStates
<1>5. /\ AfterRefund(i).nft = Release(w.nft) /\ AfterRefund(i).pay = w.pay
      /\ AfterRefund(i).state = IF w.state = "Executed" THEN "Executed" ELSE "Failed"
  BY <1>1, <1>3 DEF Swaps
<1> QED
  BY <1>1, <1>4, <1>5, ReleaseNft DEF w

(* No payment holding is ever live, so a refund moves no money. *)
LEMMA RefundMovesNoMoney ==
    ASSUME EscrowInv, LedgerTypeOK, NEW S \in SUBSET SaleIds
    PROVE  /\ Owed(S, Users) = 0
           /\ RefundHoldings(S) => balance' = balance
<1>1. Owed(S, Users) = 0 /\ \A a \in Accounts : Owed(S, {a}) = 0
  <2>1. \A who : {i \in S : Live(swap[i].pay) /\ swap[i].pay.holder \in who} = {}
    BY SwapFields
  <2> QED
    BY <2>1, Zenon DEF Owed
<1>2. ASSUME RefundHoldings(S) PROVE balance' = balance
  <2>1. balance \in [Accounts -> Nat]
    BY DEF LedgerTypeOK
  <2>2. balance' = [a \in Accounts |-> IF a = Contract THEN balance[a] - Owed(S, Users)
                                       ELSE balance[a] + Owed(S, {a})]
    BY <1>2, Zenon DEF RefundHoldings
  <2>3. \A a \in Accounts : balance'[a] = balance[a]
    BY <1>1, <2>1, <2>2
  <2> QED
    BY <2>1, <2>2, <2>3
<1> QED
  BY <1>1, <1>2

(* Where the tokens are after a refund of the swaps S. *)
LEMMA RefundedTokens ==
    ASSUME EscrowInv, LedgerTypeOK, NEW S \in SUBSET SaleIds, RefundHoldings(S)
    PROVE  /\ owner' \in [Tokens -> Accounts]
           /\ \A i \in S : Live(swap[i].nft) =>
                 owner'[swap[i].nft.token] = swap[i].nft.holder
           /\ \A t \in Tokens :
                 (\A i \in S : ~(Live(swap[i].nft) /\ swap[i].nft.token = t))
                   => owner'[t] = owner[t]
<1> DEFINE due(t) == {i \in S : Live(swap[i].nft) /\ swap[i].nft.token = t}
           back(t) == IF due(t) = {} THEN owner[t]
                      ELSE swap[CHOOSE i \in due(t) : TRUE].nft.holder
<1>1. owner' = [t \in Tokens |-> back(t)]
  BY Zenon DEF RefundHoldings
<1>2. \A t \in Tokens : due(t) # {} => (CHOOSE i \in due(t) : TRUE) \in due(t)
  BY Zenon
<1>3. \A t : due(t) \subseteq SaleIds
  OBVIOUS
<1>4. \A t \in Tokens, i \in S : i \in due(t) => due(t) = {i}
  BY DEF EscrowInv, SeparateTokens
<1>5. \A t \in Tokens : back(t) \in Accounts
  <2> SUFFICES ASSUME NEW t \in Tokens PROVE back(t) \in Accounts
    OBVIOUS
  <2>1. CASE due(t) = {}
    BY <2>1 DEF LedgerTypeOK
  <2>2. CASE due(t) # {}
    <3>1. PICK j \in SaleIds : j = CHOOSE i \in due(t) : TRUE
      BY <1>2, <1>3, <2>2
    <3>2. swap[j].nft.holder \in Users
      BY SwapFields
    <3> QED
      BY <2>2, <3>1, <3>2, Zenon DEF Accounts
  <2> QED
    BY <2>1, <2>2
<1>6. \A i \in S : Live(swap[i].nft) => back(swap[i].nft.token) = swap[i].nft.holder
  <2> SUFFICES ASSUME NEW i \in S, Live(swap[i].nft)
               PROVE  back(swap[i].nft.token) = swap[i].nft.holder
    OBVIOUS
  <2> DEFINE t == swap[i].nft.token
  <2>1. t \in Tokens /\ i \in due(t)
    BY SwapFields
  <2>2. due(t) = {i}
    BY <1>4, <2>1
  <2>3. (CHOOSE j \in due(t) : TRUE) = i
    BY <1>2, <2>1, <2>2
  <2> QED
    BY <2>2, <2>3, Zenon
<1>7. \A t \in Tokens :
        (\A i \in S : ~(Live(swap[i].nft) /\ swap[i].nft.token = t)) => back(t) = owner[t]
  BY Zenon
<1> HIDE DEF back
<1>8. \A i \in S : swap[i].nft.token \in Tokens
  BY SwapFields
<1> QED
  BY <1>1, <1>5, <1>6, <1>7, <1>8

-----------------------------------------------------------------------------
(* The six ways out without a sale - cancel, expire, cleanup, reclaim,     *)
(* emergency withdrawal and a dispute that settles - are a refund of some  *)
(* swaps and perhaps a new state of their sales.                           *)
TermsKept(i) ==
    /\ sale'[i].seller = sale[i].seller
    /\ sale'[i].token = sale[i].token
    /\ sale'[i].price = sale[i].price
    /\ sale'[i].royalty = sale[i].royalty
    /\ sale'[i].share = sale[i].share
    /\ sale'[i].fee = sale[i].fee

SalesRefunded(S) ==
    /\ sale' \in [SaleIds -> Sales]
    /\ \A i \in SaleIds : TermsKept(i)
    /\ \A i \in SaleIds : i \notin S => sale'[i] = sale[i]

LEMMA SaleStateWritten ==
    ASSUME EscrowInv, NEW i \in SaleIds, NEW s \in SaleStates,
           sale' = [sale EXCEPT ![i].state = s]
    PROVE  SalesRefunded({i}) /\ sale'[i].state = s
<1> DEFINE r == [sale[i] EXCEPT !.state = s]
<1>1. sale' = [sale EXCEPT ![i] = r]
  BY Zenon
<1>2. sale \in [SaleIds -> Sales]
  BY DEF EscrowInv, SaleTypeOK
<1>3. /\ r \in Sales /\ r.state = s
      /\ r.seller = sale[i].seller /\ r.token = sale[i].token /\ r.price = sale[i].price
      /\ r.royalty = sale[i].royalty /\ r.share = sale[i].share /\ r.fee = sale[i].fee
  BY <1>2 DEF Sales
<1> HIDE DEF r
<1>4. /\ sale' \in [SaleIds -> Sales] /\ sale'[i] = r
      /\ \A j \in SaleIds : j # i => sale'[j] = sale[j]
  BY <1>1, <1>2, <1>3
<1> QED
  BY <1>3, <1>4 DEF SalesRefunded, TermsKept

LEMMA RefundKeeps ==
    ASSUME MoneyInv, NEW S \in SUBSET SaleIds,
           RefundHoldings(S), FailSwaps(S), MarketFrame, SalesRefunded(S)
    PROVE  MoneyInv'
<1>0. EscrowInv /\ HouseInv(Escrowed) /\ HouseTypes /\ LedgerTypeOK /\ HoldsOffers(Escrowed)
  BY DEF MoneyInv, HouseInv, HouseTypes
<1>1. UNCHANGED <<now, ledger, accessVars, feeVars, nextSale, swapConfig, auctionVars>>
      /\ SaleIds' = SaleIds
  BY DEF MarketFrame, clockVars, SaleIds
<1>2. /\ DOMAIN swap' = SaleIds
      /\ \A i \in S : swap'[i] = AfterRefund(i)
      /\ \A i \in SaleIds : i \notin S => swap'[i] = swap[i]
      /\ swap' = [i \in SaleIds |-> swap'[i]]
  BY Zenon DEF FailSwaps, AfterRefund
<1>3. \A i \in S : /\ swap'[i] \in Swaps
                   /\ swap'[i].nft.token = swap[i].nft.token
                   /\ swap'[i].nft.holder = swap[i].nft.holder
                   /\ swap'[i].nft.deposited
                   /\ ~Live(swap'[i].nft)
                   /\ swap'[i].pay = swap[i].pay
                   /\ swap'[i].state = IF swap[i].state = "Executed" THEN "Executed" ELSE "Failed"
  BY <1>0, <1>2, RefundedSwap
<1>4. /\ owner' \in [Tokens -> Accounts]
      /\ \A i \in S : Live(swap[i].nft) => owner'[swap[i].nft.token] = swap[i].nft.holder
      /\ \A t \in Tokens : (\A i \in S : ~(Live(swap[i].nft) /\ swap[i].nft.token = t))
                              => owner'[t] = owner[t]
      /\ balance' = balance
  BY <1>0, RefundedTokens, RefundMovesNoMoney
<1>5. SaleTypeOK'
  <2>1. \A i \in SaleIds : swap'[i] \in Swaps
    BY <1>0, <1>2, <1>3, SwapFields
  <2> QED
    BY <1>0, <1>1, <1>2, <2>1 DEF EscrowInv, SaleTypeOK, SalesRefunded
<1>6. GoodSwaps'
  <2> SUFFICES ASSUME NEW i \in SaleIds PROVE GoodSwap(i)'
    BY <1>1 DEF GoodSwaps
  <2>1. GoodSwap(i) /\ TermsKept(i) /\ (i \notin S => sale'[i] = sale[i])
    BY <1>0, SwapFields DEF SalesRefunded
  <2>2. CASE i \in S
    BY <1>3, <2>1, <2>2 DEF GoodSwap, TermsKept
  <2>3. CASE i \notin S
    BY <1>2, <2>1, <2>3 DEF GoodSwap
  <2> QED
    BY <2>2, <2>3
<1>7. \A i \in SaleIds : Live(swap'[i].nft) => i \notin S /\ swap'[i] = swap[i]
  BY <1>2, <1>3
<1>8. SeparateTokens'
  BY <1>0, <1>1, <1>7 DEF EscrowInv, SeparateTokens
<1>9. HouseTypes'
  BY <1>0, <1>1, <1>4 DEF HouseTypes, LedgerTypeOK, AccessTypeOK, FeeTypeOK, AuctionTypeOK,
     AuctionIds, accessVars, feeVars, auctionVars
<1>10. HoldsOffers(Escrowed)'
  <2>1. auction' = auction /\ OpenAuctions' = OpenAuctions
    BY <1>1 DEF OpenAuctions, AuctionIds, Pending, auctionVars
  <2>2. \A t : t \in Escrowed' <=>
          /\ t \in Escrowed
          /\ \A i \in S : ~(Live(swap[i].nft) /\ swap[i].nft.token = t)
    <3>1. \A t : t \in Escrowed' <=>
                   \E i \in SaleIds : Live(swap'[i].nft) /\ swap'[i].nft.token = t
      BY <1>1 DEF Escrowed
    <3>2. \A t : t \in Escrowed <=>
                   \E i \in SaleIds : Live(swap[i].nft) /\ swap[i].nft.token = t
      BY EscrowedTokens
    <3>3. ASSUME NEW t, NEW i \in SaleIds, Live(swap'[i].nft), swap'[i].nft.token = t
          PROVE  /\ Live(swap[i].nft) /\ swap[i].nft.token = t
                 /\ \A j \in S : ~(Live(swap[j].nft) /\ swap[j].nft.token = t)
      BY <1>0, <1>7, <3>3 DEF EscrowInv, SeparateTokens
    <3>4. ASSUME NEW t, NEW i \in SaleIds, Live(swap[i].nft), swap[i].nft.token = t,
                 \A j \in S : ~(Live(swap[j].nft) /\ swap[j].nft.token = t)
          PROVE  Live(swap'[i].nft) /\ swap'[i].nft.token = t
      BY <1>2, <3>4
    <3> QED
      BY <3>1, <3>2, <3>3, <3>4, Zenon
  <2>3. ASSUME NEW t \in Tokens, NEW i \in S, Live(swap[i].nft), swap[i].nft.token = t
        PROVE  /\ owner'[t] # Contract
               /\ \A j \in OpenAuctions : auction[j].token # t
    <3>1. t \in Escrowed /\ swap[i].nft.holder \in Users
      BY <1>0, <2>3, EscrowedTokens, SwapFields
    <3> QED
      BY <1>0, <1>4, <2>3, <3>1, LedgerAssumption DEF HoldsOffers
  <2>4. ASSUME NEW t \in Tokens
        PROVE  owner'[t] = Contract <=>
                 t \in Escrowed' \/ \E i \in OpenAuctions : auction[i].token = t
    <3>1. owner[t] = Contract <=>
            t \in Escrowed \/ \E i \in OpenAuctions : auction[i].token = t
      BY <1>0 DEF HoldsOffers
    <3>2. CASE \A i \in S : ~(Live(swap[i].nft) /\ swap[i].nft.token = t)
      BY <1>4, <2>2, <3>1, <3>2
    <3>3. CASE \E i \in S : Live(swap[i].nft) /\ swap[i].nft.token = t
      BY <2>2, <2>3, <3>3
    <3> QED
      BY <3>2, <3>3
  <2>5. /\ \A i, j \in OpenAuctions : auction[i].token = auction[j].token => i = j
        /\ \A i \in OpenAuctions : auction[i].token \notin Escrowed'
    BY <1>0, <2>2 DEF HoldsOffers
  <2> QED
    BY <2>1, <2>4, <2>5 DEF HoldsOffers
<1>11. HouseInv(Escrowed)'
  BY <1>0, <1>1, <1>4, <1>9, <1>10, HouseBesides DEF feeVars
<1> QED
  BY <1>5, <1>6, <1>8, <1>11 DEF MoneyInv, EscrowInv

-----------------------------------------------------------------------------
(* create_sale: the new swap claims a token its seller held until now,     *)
(* which is therefore in no other escrow and on no auction.                *)
LEMMA CreateSaleKeeps ==
    ASSUME MoneyInv, UNCHANGED auctionVars,
           NEW s \in Users, NEW t \in Tokens, NEW price \in Prices,
           NEW duration \in Durations, CreateSale(s, t, price, duration)
    PROVE  MoneyInv'
<1> DEFINE royalty == Percentage(price, Royalty.bps)
           fee == FeeFor(price, s)
           expiresAt == now + duration
           escrowUntil == expiresAt + swapConfig.grace + swapConfig.buffer
           newSale == [seller |-> s, buyer |-> NoUser, token |-> t, price |-> price,
               state |-> "Pending", createdAt |-> now, expiresAt |-> expiresAt,
               creator |-> Royalty.creator, royalty |-> royalty,
               share |-> price - royalty - fee, fee |-> fee]
           newSwap == [nft |-> [holder |-> s, token |-> t,
                        deposited |-> TRUE, released |-> FALSE],
               pay |-> [holder |-> s, amount |-> price,
                        deposited |-> FALSE, released |-> FALSE],
               state |-> "SellerFunded", expiresAt |-> expiresAt,
               expiresAtLedger |-> ledger + duration \div LedgerCloseSeconds,
               escrowUntil |-> escrowUntil]
<1>0. /\ EscrowInv /\ HouseInv(Escrowed) /\ HoldsOffers(Escrowed)
      /\ LedgerTypeOK /\ AccessTypeOK /\ FeeTypeOK /\ AuctionTypeOK /\ SaleTypeOK
  BY DEF MoneyInv, EscrowInv, HouseInv, HouseTypes
<1>1. /\ nextSale \in 1..(MaxSales + 1) /\ nextSale <= MaxSales
      /\ nextSale' = nextSale + 1 /\ nextSale' \in 1..(MaxSales + 1)
      /\ SaleIds' = 1..nextSale
      /\ \A i \in 1..nextSale : i # nextSale => i \in SaleIds
      /\ \A i \in SaleIds : i \in 1..nextSale /\ i < nextSale /\ i # nextSale
      /\ nextSale \in 1..nextSale
  BY <1>0, SaleAssumption DEF CreateSale, SaleTypeOK, SaleIds
<1>2. /\ \A i \in SaleIds : sale'[i] = sale[i] /\ swap'[i] = swap[i]
      /\ sale'[nextSale] = newSale /\ swap'[nextSale] = newSwap
      /\ sale' = [i \in 1..nextSale |-> IF i < nextSale THEN sale[i] ELSE newSale]
      /\ swap' = [i \in 1..nextSale |-> IF i < nextSale THEN swap[i] ELSE newSwap]
  <2>1. sale' = [i \in 1..nextSale |-> IF i < nextSale THEN sale[i] ELSE newSale]
    BY Zenon DEF CreateSale
  <2>2. swap' = [i \in 1..nextSale |-> IF i < nextSale THEN swap[i] ELSE newSwap]
    BY Zenon DEF CreateSale
  <2> HIDE DEF newSale, newSwap
  <2> QED
    BY <1>1, <2>1, <2>2
<1>3. /\ price \in Nat /\ royalty \in Nat /\ fee \in Nat
      /\ expiresAt \in Nat /\ escrowUntil \in Nat
      /\ duration \div LedgerCloseSeconds \in Nat
  <2>1. price \in Nat /\ duration \in Nat /\ LedgerCloseSeconds \in Nat \ {0}
    BY SaleAssumption
  <2>2. royalty \in Nat
    BY <2>1, RoyaltyNat, Zenon
  <2>3. fee \in Int
    BY <1>0, <2>1, FeeForInt, Zenon
  <2>4. fee >= 0
    BY Zenon DEF CreateSale
  <2>5. expiresAt \in Nat /\ escrowUntil \in Nat
    BY <1>0, <2>1 DEF LedgerTypeOK, SaleTypeOK, SwapConfigType
  <2>6. duration \div LedgerCloseSeconds \in Nat
    BY <2>1
  <2> HIDE DEF fee
  <2> QED
    BY <2>1, <2>2, <2>3, <2>4, <2>5, <2>6
<1>4. newSale \in Sales
  <2> HIDE DEF royalty, fee, expiresAt
  <2> QED
    BY <1>0, <1>3, FeeAssumption DEF Sales, SaleStates, LedgerTypeOK
<1>5. newSwap \in Swaps
  <2> HIDE DEF expiresAt, escrowUntil
  <2> QED
    BY <1>0, <1>3 DEF Swaps, SwapStates, NftHoldings, PayHoldings, LedgerTypeOK
<1>6. /\ newSale.seller = s /\ newSale.token = t /\ newSale.price = price
      /\ newSale.state = "Pending"
      /\ newSale.royalty + newSale.share + newSale.fee = price
      /\ newSwap.nft.holder = s /\ newSwap.nft.token = t
      /\ newSwap.nft.deposited = TRUE /\ newSwap.nft.released = FALSE
      /\ newSwap.pay.amount = price /\ newSwap.pay.deposited = FALSE
      /\ newSwap.state = "SellerFunded"
  <2> HIDE DEF royalty, fee, expiresAt, escrowUntil
  <2> QED
    BY <1>3
<1> HIDE DEF royalty, fee, expiresAt, escrowUntil, newSale, newSwap
<1>7. /\ UNCHANGED <<swapConfig, balance, feeConfig, accumulated, volume>>
      /\ UNCHANGED <<now, ledger, pause, scheduled, allowed, rateConfig>>
  BY Zenon DEF CreateSale, feeVars, adminVars
<1>8. /\ owner[t] = s /\ s # Contract /\ owner \in [Tokens -> Accounts]
      /\ owner' = [owner EXCEPT ![t] = Contract]
      /\ owner' \in [Tokens -> Accounts]
  <2>1. MoveNft(t, s, Contract)
    BY Zenon DEF CreateSale
  <2> QED
    BY <1>0, <2>1, MoveNftType, LedgerAssumption DEF MoveNft, Accounts, LedgerTypeOK
<1>9. HouseTypes'
  <2>1. LedgerTypeOK'
    BY <1>0, <1>7, <1>8 DEF LedgerTypeOK
  <2>2. AccessTypeOK'
    <3>1. BlockChecked(s) /\ RateCounted(s, "create_sale")
      BY Zenon DEF CreateSale
    <3>2. now \in Nat
      BY <1>0 DEF LedgerTypeOK
    <3> QED
      BY <1>0, <1>7, <3>1, <3>2, BlockCheckedType, RateCountedType DEF AccessTypeOK
  <2>3. FeeTypeOK'
    BY <1>0, <1>7 DEF FeeTypeOK
  <2>4. AuctionTypeOK'
    BY <1>0 DEF AuctionTypeOK, AuctionIds, auctionVars
  <2> QED
    BY <2>1, <2>2, <2>3, <2>4 DEF HouseTypes
<1>10. SaleTypeOK'
  <2>1. sale' \in [1..nextSale -> Sales] /\ swap' \in [1..nextSale -> Swaps]
    BY <1>0, <1>1, <1>2, <1>4, <1>5 DEF SaleTypeOK
  <2> QED
    BY <1>0, <1>1, <1>7, <2>1 DEF SaleTypeOK
<1>11. Live(swap'[nextSale].nft) /\ swap'[nextSale].nft.token = t
  BY <1>2, <1>6 DEF Live
<1>12. GoodSwaps'
  <2> SUFFICES ASSUME NEW i \in 1..nextSale PROVE GoodSwap(i)'
    BY <1>1 DEF GoodSwaps
  <2>1. CASE i = nextSale
    BY <1>2, <1>6, <1>11, <2>1 DEF GoodSwap
  <2>2. CASE i # nextSale
    BY <1>0, <1>1, <1>2, <2>2 DEF EscrowInv, GoodSwaps, GoodSwap
  <2> QED
    BY <2>1, <2>2
<1>13. t \notin Escrowed /\ \A i \in OpenAuctions : auction[i].token # t
  BY <1>0, <1>8 DEF HoldsOffers
<1>14. \A i \in SaleIds : ~(Live(swap[i].nft) /\ swap[i].nft.token = t)
  BY <1>13, EscrowedTokens
<1>15. SeparateTokens'
  <2> SUFFICES ASSUME NEW i \in 1..nextSale, NEW j \in 1..nextSale,
                      Live(swap'[i].nft), Live(swap'[j].nft),
                      swap'[i].nft.token = swap'[j].nft.token
               PROVE  i = j
    BY <1>1 DEF SeparateTokens
  <2>1. CASE i # nextSale /\ j # nextSale
    BY <1>0, <1>1, <1>2, <2>1 DEF EscrowInv, SeparateTokens
  <2>2. CASE i = nextSale \/ j = nextSale
    BY <1>1, <1>2, <1>11, <1>14, <2>2
  <2> QED
    BY <2>1, <2>2
<1>16. Escrowed' = Escrowed \union {t}
  <2>1. \A u : u \in Escrowed' <=>
                 \E i \in 1..nextSale : Live(swap'[i].nft) /\ swap'[i].nft.token = u
    BY <1>1 DEF Escrowed
  <2>2. \A u : u \in Escrowed' <=> u \in Escrowed \/ u = t
    BY <1>1, <1>2, <1>11, <2>1, EscrowedTokens
  <2> QED
    BY <2>2
<1>17. HoldsOffers(Escrowed)'
  <2>1. auction' = auction /\ OpenAuctions' = OpenAuctions
    BY DEF OpenAuctions, AuctionIds, Pending, auctionVars
  <2>2. \A u \in Tokens : owner'[u] = IF u = t THEN Contract ELSE owner[u]
    BY <1>8
  <2> QED
    BY <1>0, <1>13, <1>16, <2>1, <2>2 DEF HoldsOffers
<1>18. HouseInv(Escrowed)'
  BY <1>0, <1>7, <1>9, <1>17, HouseBesides
<1> QED
  BY <1>10, <1>12, <1>15, <1>18 DEF MoneyInv, EscrowInv

(* execute_sale: what the buyer pays in is what creator and seller are     *)
(* paid plus the fee that is booked; the NFT leaves with the one claim on  *)
(* it.                                                                     *)
LEMMA ExecuteSaleKeeps ==
    ASSUME MoneyInv, UNCHANGED auctionVars,
           NEW i \in 1..MaxSales, NEW b \in Users, ExecuteSale(i, b)
    PROVE  MoneyInv'
<1> DEFINE x == sale[i]
           w == swap[i]
           t == swap[i].nft.token
           x2 == [x EXCEPT !.buyer = b, !.state = "Executed"]
           w2 == [w EXCEPT !.nft = [w.nft EXCEPT !.released = TRUE],
                           !.pay = [w.pay EXCEPT !.holder = b, !.released = TRUE],
                           !.state = "Executed"]
<1>0. /\ EscrowInv /\ HouseInv(Escrowed) /\ HoldsOffers(Escrowed)
      /\ LedgerTypeOK /\ AccessTypeOK /\ FeeTypeOK /\ AuctionTypeOK
      /\ sale \in [SaleIds -> Sales] /\ swap \in [SaleIds -> Swaps]
  BY DEF MoneyInv, EscrowInv, HouseInv, HouseTypes, SaleTypeOK
<1>1. /\ i \in SaleIds /\ x.state = "Pending" /\ w.state = "SellerFunded"
      /\ SaleIds' = SaleIds
      /\ UNCHANGED <<now, ledger, pause, scheduled, allowed, rateConfig, rate>>
      /\ UNCHANGED <<feeConfig, nextSale, swapConfig>>
  BY DEF ExecuteSale, Executable, SaleIds, adminVars
<1>2. /\ x \in Sales /\ w \in Swaps /\ w.nft \in NftHoldings /\ w.pay \in PayHoldings
      /\ t \in Tokens /\ GoodSwap(i) /\ Live(w.nft)
  BY <1>0, <1>1, SwapFields DEF GoodSwap
<1>3. /\ x2 \in Sales /\ w2 \in Swaps
      /\ x2.seller = x.seller /\ x2.token = x.token /\ x2.price = x.price
      /\ x2.royalty = x.royalty /\ x2.share = x.share /\ x2.fee = x.fee
      /\ w2.nft.token = w.nft.token /\ w2.nft.holder = w.nft.holder
      /\ w2.nft.deposited = w.nft.deposited /\ w2.nft.released = TRUE
      /\ w2.pay.deposited = w.pay.deposited /\ w2.pay.amount = w.pay.amount
      /\ w2.state = "Executed"
  BY <1>2 DEF Sales, SaleStates, Swaps, SwapStates, NftHoldings, PayHoldings
<1>4. /\ \A j \in SaleIds : j # i => sale'[j] = sale[j] /\ swap'[j] = swap[j]
      /\ sale'[i] = x2 /\ swap'[i] = w2
      /\ sale' \in [SaleIds -> Sales] /\ swap' \in [SaleIds -> Swaps]
  <2>1. sale' = [sale EXCEPT ![i].buyer = b, ![i].state = "Executed"]
    BY Zenon DEF ExecuteSale
  <2>2. swap' = [swap EXCEPT ![i].nft.released = TRUE,
                            ![i].pay.holder = b, ![i].pay.released = TRUE,
                            ![i].state = "Executed"]
    BY Zenon DEF ExecuteSale
  <2>3. sale' = [sale EXCEPT ![i] = x2]
    BY <1>0, <1>1, <2>1
  <2>4. swap' = [swap EXCEPT ![i] = w2]
    BY <1>0, <1>1, <2>2
  <2> HIDE DEF x2, w2
  <2> QED
    BY <1>0, <1>1, <1>3, <2>3, <2>4
<1> HIDE DEF x2, w2
<1>5. /\ x.fee \in Nat /\ x.royalty \in Nat /\ x.share \in Int /\ x.price \in Nat
      /\ x.creator \in Users /\ x.seller \in Users
      /\ w.pay.amount = x.price /\ x.royalty + x.share + x.fee = x.price
  BY <1>2 DEF Sales, GoodSwap
<1>6. /\ owner' = [owner EXCEPT ![t] = b]
      /\ owner' \in [Tokens -> Accounts] /\ owner \in [Tokens -> Accounts]
      /\ b # Contract
  <2>1. MoveNft(t, Contract, b)
    BY Zenon DEF ExecuteSale
  <2> QED
    BY <1>0, <1>2, <2>1, MoveNftType, LedgerAssumption DEF MoveNft, Accounts, LedgerTypeOK
<1>7. /\ balance' \in [Accounts -> Nat]
      /\ balance'[Contract] = balance[Contract] + x.fee
      /\ balance[Contract] \in Nat
  <2>1. PayInThenOut(b, w.pay.amount, x.creator, x.royalty, x.seller, x.share)
    BY Zenon DEF ExecuteSale
  <2>2. balance[Contract] \in Nat
    BY <1>0 DEF LedgerTypeOK, Accounts
  <2>3. /\ balance' \in [Accounts -> Nat]
        /\ balance'[Contract] = balance[Contract] + w.pay.amount - (x.royalty + x.share)
    BY <1>0, <1>5, <2>1, PayInThenOutType
  <2> QED
    BY <1>5, <2>2, <2>3
<1>8. /\ accumulated' = accumulated + x.fee /\ accumulated \in Nat
      /\ accumulated' \in Nat /\ volume' \in [Users -> Nat]
  <2>1. CollectFee(x.fee, b)
    BY Zenon DEF ExecuteSale
  <2> QED
    BY <1>0, <1>5, <2>1, CollectFeeType DEF CollectFee, FeeTypeOK
<1>9. HouseTypes'
  <2>1. LedgerTypeOK'
    BY <1>0, <1>1, <1>6, <1>7 DEF LedgerTypeOK
  <2>2. AccessTypeOK'
    <3>1. BlockChecked(b)
      BY Zenon DEF ExecuteSale
    <3> QED
      BY <1>0, <1>1, <3>1, BlockCheckedType DEF AccessTypeOK
  <2>3. FeeTypeOK'
    BY <1>0, <1>1, <1>8 DEF FeeTypeOK
  <2>4. AuctionTypeOK'
    BY <1>0 DEF AuctionTypeOK, AuctionIds, auctionVars
  <2> QED
    BY <2>1, <2>2, <2>3, <2>4 DEF HouseTypes
<1>10. SaleTypeOK'
  BY <1>0, <1>1, <1>4 DEF EscrowInv, SaleTypeOK
<1>11. ~Live(swap'[i].nft)
  BY <1>3, <1>4 DEF Live
<1>12. GoodSwaps'
  <2> SUFFICES ASSUME NEW j \in SaleIds PROVE GoodSwap(j)'
    BY <1>1 DEF GoodSwaps
  <2>1. CASE j = i
    BY <1>2, <1>3, <1>4, <1>11, <2>1 DEF GoodSwap
  <2>2. CASE j # i
    BY <1>0, <1>4, <2>2 DEF EscrowInv, GoodSwaps, GoodSwap
  <2> QED
    BY <2>1, <2>2
<1>13. SeparateTokens'
  BY <1>0, <1>1, <1>4, <1>11 DEF EscrowInv, SeparateTokens
<1>14. t \in Escrowed /\ \A j \in OpenAuctions : auction[j].token # t
  <2>1. t \in Escrowed
    BY <1>1, <1>2, EscrowedTokens
  <2> QED
    BY <1>0, <2>1 DEF HoldsOffers
<1>15. Escrowed' = Escrowed \ {t}
  <2>1. \A u : u \in Escrowed' <=>
                 \E j \in SaleIds : Live(swap'[j].nft) /\ swap'[j].nft.token = u
    BY <1>1 DEF Escrowed
  <2>2. \A j \in SaleIds : Live(swap[j].nft) /\ swap[j].nft.token = t => j = i
    BY <1>0, <1>1, <1>2 DEF EscrowInv, SeparateTokens
  <2>3. \A u : u \in Escrowed' <=> u \in Escrowed /\ u # t
    BY <1>1, <1>4, <1>11, <2>1, <2>2, EscrowedTokens
  <2> QED
    BY <2>3
<1>16. HoldsOffers(Escrowed)'
  <2>1. auction' = auction /\ OpenAuctions' = OpenAuctions
    BY DEF OpenAuctions, AuctionIds, Pending, auctionVars
  <2>2. \A u \in Tokens : owner'[u] = IF u = t THEN b ELSE owner[u]
    BY <1>6
  <2> QED
    BY <1>0, <1>6, <1>14, <1>15, <2>1, <2>2 DEF HoldsOffers
<1>17. balance'[Contract] - accumulated' = balance[Contract] - accumulated
  BY <1>5, <1>7, <1>8
<1>18. HouseInv(Escrowed)'
  BY <1>0, <1>1, <1>9, <1>16, <1>17, HouseBesides
<1> QED
  BY <1>10, <1>12, <1>13, <1>18 DEF MoneyInv, EscrowInv

-----------------------------------------------------------------------------
(* A dispute that settles is a refund of the sale of its id: since no      *)
(* payment is in escrow, the recipient of the NFT is its depositor under   *)
(* every resolution.                                                       *)
LEMMA SettlingRefunds ==
    ASSUME MoneyInv, NEW d, NEW resolution, SettleEscrow(d, resolution)
    PROVE  LET i == dispute[d].transaction
           IN  /\ i \in SaleIds /\ Live(swap[i].nft) /\ sale[i].state = "Pending"
               /\ RefundHoldings({i}) /\ FailSwaps({i}) /\ MarketFrame
               /\ SalesRefunded({i}) /\ sale'[i].state \in {"Resolved", "Cancelled"}
<1> DEFINE i == dispute[d].transaction
           w == swap[i]
<1>0. EscrowInv /\ LedgerTypeOK
  BY DEF MoneyInv, HouseInv, HouseTypes
<1>1. i \in SaleIds /\ FailSwaps({i}) /\ MarketFrame
  BY Zenon DEF SettleEscrow
<1>2. ~Live(w.pay) /\ w.nft.token \in Tokens /\ w.nft.holder \in Users /\ GoodSwap(i)
  BY <1>0, <1>1, SwapFields
<1>3. Live(w.nft)
  BY <1>2, Zenon DEF SettleEscrow
<1>4. sale[i].state = "Pending"
  BY <1>2, <1>3 DEF GoodSwap
<1>5. /\ MoveNft(w.nft.token, Contract, w.nft.holder)
      /\ balance' = balance
  <2>1. NftRecipient(w, resolution) = w.nft.holder
    BY <1>2, Zenon DEF NftRecipient
  <2> QED
    BY <1>2, <1>3, <2>1, Zenon DEF SettleEscrow
<1>6. RefundHoldings({i})
  <2> DEFINE due(t) == {j \in {i} : Live(swap[j].nft) /\ swap[j].nft.token = t}
             back(t) == IF due(t) = {} THEN owner[t]
                        ELSE swap[CHOOSE j \in due(t) : TRUE].nft.holder
  <2>1. \A t \in Tokens : due(t) = IF t = w.nft.token THEN {i} ELSE {}
    BY <1>3
  <2>2. \A t \in Tokens : due(t) # {} => owner[t] = Contract
    BY <1>5, <2>1 DEF MoveNft
  <2>3. (CHOOSE j \in {i} : TRUE) = i
    OBVIOUS
  <2>4. \A t \in Tokens : back(t) = IF t = w.nft.token THEN w.nft.holder ELSE owner[t]
    <3> SUFFICES ASSUME NEW t \in Tokens
                 PROVE  back(t) = IF t = w.nft.token THEN w.nft.holder ELSE owner[t]
      OBVIOUS
    <3>1. CASE t = w.nft.token
      <4>1. due(t) = {i}
        BY <2>1, <3>1
      <4> QED
        BY <2>3, <3>1, <4>1
    <3>2. CASE t # w.nft.token
      <4>1. due(t) = {}
        BY <2>1, <3>2
      <4> QED
        BY <3>2, <4>1
    <3> QED
      BY <3>1, <3>2
  <2>5. owner' = [t \in Tokens |-> back(t)]
    <3> HIDE DEF back
    <3>1. owner \in [Tokens -> Accounts]
      BY <1>0 DEF LedgerTypeOK
    <3>2. owner' = [owner EXCEPT ![w.nft.token] = w.nft.holder]
      BY <1>5 DEF MoveNft
    <3> QED
      BY <1>2, <2>4, <3>1, <3>2
  <2>6. Owed({i}, Users) = 0 /\ \A a \in Accounts : Owed({i}, {a}) = 0
    <3>1. \A who : {j \in {i} : Live(swap[j].pay) /\ swap[j].pay.holder \in who} = {}
      BY <1>2
    <3> QED
      BY <3>1, Zenon DEF Owed
  <2>7. /\ balance[Contract] >= Owed({i}, Users)
        /\ balance' = [a \in Accounts |->
              IF a = Contract THEN balance[a] - Owed({i}, Users)
                              ELSE balance[a] + Owed({i}, {a})]
    <3>1. balance \in [Accounts -> Nat] /\ Contract \in Accounts
      BY <1>0 DEF LedgerTypeOK, Accounts
    <3> DEFINE paid(a) == IF a = Contract THEN balance[a] - Owed({i}, Users)
                                          ELSE balance[a] + Owed({i}, {a})
    <3>2. \A a \in Accounts : balance[a] \in Nat
      BY <3>1
    <3>3. \A a \in Accounts : paid(a) = balance[a]
      BY <2>6, <3>2
    <3>4. balance[Contract] >= Owed({i}, Users)
      BY <2>6, <3>1, <3>2
    <3> HIDE DEF paid
    <3>5. balance' = [a \in Accounts |-> paid(a)]
      BY <1>5, <3>1, <3>3
    <3> QED
      BY <3>4, <3>5, Zenon DEF paid
  <2> QED
    BY <2>2, <2>5, <2>7, Zenon DEF RefundHoldings
<1>7. SalesRefunded({i}) /\ sale'[i].state \in {"Resolved", "Cancelled"}
  <2> DEFINE s == IF resolution = "CancelTransaction" THEN "Cancelled" ELSE "Resolved"
  <2>1. sale' = [sale EXCEPT ![i].state =
              CASE @ = "Executed" -> @
                [] @ # "Executed" /\ resolution = "CancelTransaction" -> "Cancelled"
                [] OTHER -> "Resolved"]
    BY Zenon DEF SettleEscrow
  <2>2. sale' = [sale EXCEPT ![i].state = s]
    BY <1>4, <2>1
  <2>3. s \in SaleStates /\ s \in {"Resolved", "Cancelled"}
    BY DEF SaleStates
  <2> HIDE DEF s
  <2> QED
    BY <1>0, <1>1, <2>2, <2>3, SaleStateWritten
<1> QED
  BY <1>1, <1>3, <1>4, <1>6, <1>7

LEMMA SettlesKeeps ==
    ASSUME MoneyInv, NEW d, NEW resolution, Settles(d, resolution)
    PROVE  MoneyInv'
<1>1. SettleEscrow(d, resolution)
  BY Zenon DEF Settles
<1>2. PICK i : i = dispute[d].transaction
  OBVIOUS
<1>3. /\ i \in SaleIds /\ RefundHoldings({i}) /\ FailSwaps({i}) /\ MarketFrame
      /\ SalesRefunded({i})
  BY <1>1, <1>2, SettlingRefunds
<1> QED
  BY <1>3, RefundKeeps

(* Steps of sales: an escrow is made, sold or returned with others, or     *)
(* deadlines are reconfigured.                                             *)
SomeRefunded ==
    \E S \in SUBSET SaleIds :
        RefundHoldings(S) /\ FailSwaps(S) /\ MarketFrame /\ SalesRefunded(S)

LEMMA SaleSteps ==
    ASSUME EscrowInv, SaleNext, UNCHANGED auctionVars
    PROVE  \/ \E s \in Users, t \in Tokens, p \in Prices, d \in Durations :
                 CreateSale(s, t, p, d)
           \/ \E i \in 1..MaxSales, b \in Users : ExecuteSale(i, b)
           \/ SomeRefunded
           \/ \E c \in SwapConfigs : UpdateSwapTimeoutConfig(c)
<1>0. sale \in [SaleIds -> Sales]
  BY DEF EscrowInv, SaleTypeOK
<1>1. ASSUME NEW S \in SUBSET SaleIds, RefundHoldings(S), FailSwaps(S), EscrowFrame,
             UNCHANGED sale
      PROVE  SomeRefunded
  <2>1. MarketFrame
    BY <1>1 DEF EscrowFrame, MarketFrame
  <2>2. SalesRefunded(S)
    BY <1>0, <1>1 DEF SalesRefunded, TermsKept
  <2> QED
    BY <1>1, <2>1, <2>2, Zenon DEF SomeRefunded
<1>2. CASE \E i \in 1..MaxSales : CancelSale(i)
  <2>1. PICK i : CancelSale(i)
    BY <1>2
  <2>2. /\ i \in SaleIds /\ RefundHoldings({i}) /\ FailSwaps({i}) /\ EscrowFrame
        /\ sale' = [sale EXCEPT ![i].state = "Cancelled"]
    BY <2>1, Zenon DEF CancelSale
  <2>3. SalesRefunded({i})
    BY <1>0, <2>2, SaleStateWritten DEF SaleStates
  <2>4. MarketFrame
    BY <2>2 DEF EscrowFrame, MarketFrame
  <2> QED
    BY <2>2, <2>3, <2>4, Zenon DEF SomeRefunded
<1>3. CASE \E i \in 1..MaxSales : ExpireSwap(i)
  <2>1. PICK i : ExpireSwap(i)
    BY <1>3
  <2>2. i \in SaleIds /\ RefundHoldings({i}) /\ FailSwaps({i}) /\ EscrowFrame /\ UNCHANGED sale
    BY <2>1, Zenon DEF ExpireSwap
  <2> QED
    BY <2>2, <1>1
<1>4. CASE \E n \in CleanupLimits : CleanupExpiredSwaps(n)
  <2>1. PICK n : CleanupExpiredSwaps(n)
    BY <1>4
  <2>2. PICK S \in SUBSET SaleIds :
           RefundHoldings(S) /\ FailSwaps(S) /\ EscrowFrame /\ UNCHANGED sale
    <3> DEFINE max == IF n = 0 THEN DefaultCleanupLimit ELSE n
               due == {i \in SaleIds : swap[i].state \notin TerminalSwap
                                       /\ ExpiryConfirmed(i)}
               swept == {i \in due : Cardinality({j \in due : j < i}) < max}
    <3>1. swept \in SUBSET SaleIds
      OBVIOUS
    <3>2. RefundHoldings(swept) /\ FailSwaps(swept) /\ EscrowFrame /\ UNCHANGED sale
      BY <2>1, Zenon DEF CleanupExpiredSwaps
    <3> QED
      BY <3>1, <3>2
  <2> QED
    BY <2>2, <1>1
<1>5. CASE \E i \in 1..MaxSales : ReclaimExpiredEscrow(i)
  <2>1. PICK i : ReclaimExpiredEscrow(i)
    BY <1>5
  <2>2. i \in SaleIds /\ RefundHoldings({i}) /\ FailSwaps({i}) /\ EscrowFrame /\ UNCHANGED sale
    BY <2>1, Zenon DEF ReclaimExpiredEscrow
  <2> QED
    BY <2>2, <1>1
<1>6. CASE \E i \in 1..MaxSales : EmergencyWithdraw(i)
  <2>1. PICK i : EmergencyWithdraw(i)
    BY <1>6
  <2>2. i \in SaleIds /\ RefundHoldings({i}) /\ FailSwaps({i}) /\ EscrowFrame /\ UNCHANGED sale
    BY <2>1, Zenon DEF EmergencyWithdraw
  <2> QED
    BY <2>2, <1>1
<1> QED
  BY <1>2, <1>3, <1>4, <1>5, <1>6, Zenon DEF SaleNext

(* Steps of sales keep the invariant. *)
LEMMA SaleKeeps ==
    ASSUME MoneyInv, SaleNext, UNCHANGED auctionVars
    PROVE  MoneyInv'
<1>0. EscrowInv /\ sale \in [SaleIds -> Sales]
  BY DEF MoneyInv, EscrowInv, SaleTypeOK
<1>1. CASE \E s \in Users, t \in Tokens, p \in Prices, d \in Durations : CreateSale(s, t, p, d)
  BY <1>1, CreateSaleKeeps
<1>2. CASE \E i \in 1..MaxSales, b \in Users : ExecuteSale(i, b)
  BY <1>2, ExecuteSaleKeeps
<1>3. CASE SomeRefunded
  BY <1>3, RefundKeeps DEF SomeRefunded
<1>4. CASE \E c \in SwapConfigs : UpdateSwapTimeoutConfig(c)
  <2>1. PICK c \in SwapConfigs : UpdateSwapTimeoutConfig(c)
    BY <1>4
  <2>2. EscrowInv' /\ Escrowed' = Escrowed
    <3>1. UNCHANGED <<nextSale, sale, swap>> /\ swapConfig' \in SwapConfigType /\ SaleIds' = SaleIds
      BY <2>1, SaleAssumption DEF UpdateSwapTimeoutConfig, SaleIds
    <3>2. EscrowInv'
      BY <1>0, <3>1 DEF EscrowInv, SaleTypeOK, GoodSwaps, GoodSwap, SeparateTokens
    <3> QED
      BY <3>1, <3>2, Zenon DEF Escrowed
  <2>3. HouseInv(Escrowed)'
    <3>1. UNCHANGED <<now, ledger, owner, balance, accessVars, feeVars, auctionVars>>
      BY <2>1 DEF UpdateSwapTimeoutConfig, clockVars, assetVars
    <3>2. HouseTypes'
      BY <3>1 DEF MoneyInv, HouseInv, HouseTypes, LedgerTypeOK, AccessTypeOK, FeeTypeOK,
         AuctionTypeOK, AuctionIds, accessVars, feeVars, auctionVars
    <3>3. HoldsOffers(Escrowed)'
      <4>1. auction' = auction /\ OpenAuctions' = OpenAuctions
        BY DEF OpenAuctions, AuctionIds, Pending, auctionVars
      <4> QED
        BY <2>2, <3>1, <4>1 DEF MoneyInv, HouseInv, HoldsOffers
    <3> QED
      BY <3>1, <3>2, <3>3, HouseBesides DEF MoneyInv, feeVars
  <2> QED
    BY <2>2, <2>3 DEF MoneyInv
<1> QED
  BY <1>0, <1>1, <1>2, <1>3, <1>4, SaleSteps

(* Steps that move nothing. *)
LEMMA NothingKeeps ==
    ASSUME MoneyInv, UNCHANGED <<ledgerVars, accessVars, feeVars, saleVars, auctionVars>>
    PROVE  MoneyInv'
<1>1. UNCHANGED <<now, ledger, owner, balance, accessVars, feeVars, nextAuction, auction,
                  bids, dutch, auctionVars>>
  BY DEF ledgerVars, auctionVars
<1>2. EscrowInv' /\ Escrowed' = Escrowed
  BY EscrowStands DEF MoneyInv
<1>3. HouseTypes'
  BY <1>1 DEF MoneyInv, HouseInv, HouseTypes, LedgerTypeOK, AccessTypeOK, FeeTypeOK,
     AuctionTypeOK, AuctionIds, accessVars, feeVars
<1>4. HoldsOffers(Escrowed)'
  <2>1. OpenAuctions' = OpenAuctions
    BY <1>1 DEF OpenAuctions, AuctionIds, Pending
  <2> QED
    BY <1>1, <1>2, <2>1 DEF MoneyInv, HouseInv, HoldsOffers
<1> QED
  BY <1>1, <1>2, <1>3, <1>4, HouseBesides DEF MoneyInv, feeVars

-----------------------------------------------------------------------------
(* The invariant holds initially and is kept by every step. *)
LEMMA InitInd == Init => IndInv
<1> SUFFICES ASSUME Init PROVE IndInv
  OBVIOUS
<1>1. SaleIds = {} /\ DisputeIds = {} /\ Escrowed = {}
  BY DEF Init, SaleInit, DisputeInit, SaleIds, DisputeIds, Escrowed
<1>2. EscrowInv
  BY <1>1, SaleAssumption DEF Init, SaleInit, EscrowInv, SaleTypeOK, GoodSwaps, SeparateTokens
<1>3. HouseInv(Escrowed)
  <2>1. HouseInv({})
    BY HouseInit DEF Init
  <2> QED
    BY <1>1, <2>1, Zenon
<1>4. Courts
  <2>1. arbitrator = [a \in {} |-> {}] /\ disputeConfig = StartDisputeConfig
    BY DEF Init, DisputeInit
  <2> QED
    BY <2>1, DisputeAssumption DEF Courts
<1>5. DisputeInv
  BY <1>1, <1>4, DisputeAssumption DEF Init, DisputeInit, DisputeInv
<1> QED
  BY <1>2, <1>3, <1>5 DEF IndInv, MoneyInv

(* Every step keeps the invariant, and decides disputes by the rules; it   *)
(* settles none but by the one path of settle_dispute_escrow.              *)
LEMMA Inductive ==
    ASSUME IndInv, [Next]_vars
    PROVE  /\ IndInv' /\ Decisions
           /\ \/ \A d \in DisputeIds : dispute'[d].settled = dispute[d].settled
              \/ \E d, resolution : Settles(d, resolution)
<1>0. MoneyInv /\ DisputeInv /\ now \in Nat
  BY DEF IndInv, MoneyInv, HouseInv, HouseTypes, LedgerTypeOK
<1>1. ASSUME MoneyInv', UNCHANGED disputeVars
      PROVE  /\ IndInv' /\ Decisions
             /\ \A d \in DisputeIds : dispute'[d].settled = dispute[d].settled
  BY <1>0, <1>1, DisputesUntouched DEF IndInv, disputeVars
<1>2. CASE SaleStep
  BY <1>0, <1>1, <1>2, SaleKeeps DEF SaleStep
<1>3. CASE AuctionStep
  BY <1>0, <1>1, <1>3, EscrowStandsBeside, AuctionKeeps DEF AuctionStep
<1>4. CASE LedgerStep
  BY <1>0, <1>1, <1>4, EscrowStandsBeside, LedgerKeepsHouse DEF LedgerStep
<1>5. CASE AccessStep
  BY <1>0, <1>1, <1>5, EscrowStandsBeside, AccessKeepsHouse DEF AccessStep
<1>6. CASE FeeStep
  BY <1>0, <1>1, <1>6, EscrowStandsBeside, FeeKeepsHouse DEF FeeStep
<1>7. CASE DisputeNext
  <2>1. /\ DisputeInv' /\ Decisions
        /\ \/ NothingMoves /\ \A d \in DisputeIds : dispute'[d].settled = dispute[d].settled
           \/ \E d, resolution : Settles(d, resolution)
    BY <1>0, <1>7, DisputeStep
  <2>2. CASE NothingMoves
    <3>1. UNCHANGED <<ledgerVars, accessVars, feeVars, saleVars, auctionVars>>
      BY <2>2 DEF NothingMoves, MarketFrame, clockVars, assetVars, ledgerVars, saleVars
    <3> QED
      BY <1>0, <2>1, <3>1, NothingKeeps DEF IndInv
  <2>3. CASE \E d, resolution : Settles(d, resolution)
    BY <1>0, <2>1, <2>3, SettlesKeeps DEF IndInv
  <2> QED
    BY <2>1, <2>2, <2>3
<1>8. CASE UNCHANGED vars
  BY <1>0, <1>1, <1>8, NothingKeeps DEF vars
<1> QED
  BY <1>2, <1>3, <1>4, <1>5, <1>6, <1>7, <1>8 DEF Next

THEOREM IndInvariant == Spec => []IndInv
<1>1. IndInv /\ [Next]_vars => IndInv'
  BY Inductive
<1> QED
  BY <1>1, InitInd, PTL DEF Spec

(* Variables hold values of their types, whatever sales, auctions and      *)
(* disputes do to each other.                                              *)
THEOREM SettlementTypes == Spec => []TypeOK
<1>1. IndInv => TypeOK
  <2> SUFFICES ASSUME IndInv PROVE TypeOK
    OBVIOUS
  <2>1. LedgerTypeOK /\ AccessTypeOK /\ FeeTypeOK /\ AuctionTypeOK /\ SaleTypeOK
    BY DEF IndInv, MoneyInv, HouseInv, HouseTypes, EscrowInv
  <2>2. DisputeTypeOK
    <3>1. DisputeInv
      BY DEF IndInv
    <3>2. \A d \in DisputeIds :
            /\ dispute[d].transaction \in Nat
            /\ dispute[d].arbitrators \subseteq Users
            /\ dispute[d].resolution \in Resolutions \union {None}
            /\ dispute[d].votes \in [DOMAIN dispute[d].votes -> {0, 1}]
            /\ DOMAIN dispute[d].votes \subseteq dispute[d].arbitrators
      BY <3>1, DisputeFields DEF DisputeRecords, GoodDispute
    <3> QED
      BY <3>1, <3>2 DEF DisputeInv, Courts, DisputeTypeOK
  <2> QED
    BY <2>1, <2>2 DEF TypeOK
<1> QED
  BY <1>1, IndInvariant, PTL

(* A set with at most one element has cardinality one or zero. *)
LEMMA AtMostOne ==
    ASSUME NEW S, \A x, y \in S : x = y
    PROVE  Cardinality(S) = IF S = {} THEN 0 ELSE 1
<1>1. CASE S = {}
  BY <1>1, FS_EmptySet
<1>2. CASE S # {}
  <2>1. PICK x \in S : TRUE
    BY <1>2
  <2>2. S = {x}
    BY <2>1
  <2> QED
    BY <1>2, <2>2, FS_Singleton
<1> QED
  BY <1>1, <1>2

(* One token, one claim: an NFT in the contract is in the escrow of one    *)
(* sale or on offer in one open auction, never in both and never in        *)
(* neither.                                                                *)
THEOREM OneClaimHolds == Spec => []OneClaim
<1>1. ASSUME IndInv PROVE OneClaim
  <2>1. HoldsOffers(Escrowed) /\ SeparateTokens
    BY <1>1 DEF IndInv, MoneyInv, HouseInv, EscrowInv
  <2> SUFFICES ASSUME NEW t \in Tokens
               PROVE  Cardinality({i \in SaleIds : Live(swap[i].nft) /\ swap[i].nft.token = t})
                        + Cardinality({i \in OpenAuctions : auction[i].token = t})
                      = IF owner[t] = Contract THEN 1 ELSE 0
    BY DEF OneClaim
  <2> DEFINE escrowed == {i \in SaleIds : Live(swap[i].nft) /\ swap[i].nft.token = t}
             offered == {i \in OpenAuctions : auction[i].token = t}
  <2>2. Cardinality(escrowed) = IF escrowed = {} THEN 0 ELSE 1
    <3>1. \A i, j \in escrowed : i = j
      BY <2>1 DEF SeparateTokens
    <3> HIDE DEF escrowed
    <3> QED
      BY <3>1, AtMostOne
  <2>3. Cardinality(offered) = IF offered = {} THEN 0 ELSE 1
    <3>1. \A i, j \in offered : i = j
      BY <2>1 DEF HoldsOffers
    <3> HIDE DEF offered
    <3> QED
      BY <3>1, AtMostOne
  <2>4. escrowed # {} <=> t \in Escrowed
    BY EscrowedTokens
  <2>5. escrowed # {} => offered = {}
    BY <2>1, <2>4 DEF HoldsOffers
  <2>6. owner[t] = Contract <=> escrowed # {} \/ offered # {}
    BY <2>1, <2>4 DEF HoldsOffers
  <2> HIDE DEF escrowed, offered
  <2>7. Cardinality(escrowed) + Cardinality(offered) = IF owner[t] = Contract THEN 1 ELSE 0
    BY <2>2, <2>3, <2>5, <2>6
  <2> QED
    BY <2>7 DEF escrowed, offered
<1> QED
  BY <1>1, IndInvariant, PTL

(* The contract's one balance is the booked fees plus the standing bids,   *)
(* although sales pay royalties out of it and disputes settle beside it.   *)
THEOREM ContractIsSolvent == Spec => []Solvent
<1>1. IndInv => Solvent
  <2> SUFFICES ASSUME IndInv PROVE Solvent
    OBVIOUS
  <2>1. HouseInv(Escrowed)
    BY DEF IndInv, MoneyInv
  <2>2. StandingBids(OpenAuctions) = Stakes
    BY <2>1, StakesStand DEF HouseInv, HouseTypes
  <2> QED
    BY <2>1, <2>2 DEF HouseInv, StakesBooked, Solvent
<1> QED
  BY <1>1, IndInvariant, PTL

(* A resolution that was voted and not yet paid has a quorum behind it and *)
(* is what the majority of it wanted.                                      *)
THEOREM QuorumsDecide == Spec => []QuorumDecides
<1>1. IndInv => QuorumDecides
  BY DEF IndInv, DisputeInv, GoodDispute, QuorumDecides, Favourable
<1> QED
  BY <1>1, IndInvariant, PTL

(* Quorum, admin, oracle and timeout cannot overrule each other, no vote   *)
(* changes, and what is settled is final.                                  *)
THEOREM DisputesAreDecidedOnce == Spec => DecidedOnce
<1>1. IndInv /\ [Next]_vars => DecisionStep
  BY Inductive DEF Decisions, DecisionAt, DecisionStep
<1> QED
  BY <1>1, IndInvariant, PTL DEF Spec, DecidedOnce

(* Whatever a dispute decides, its settlement returns the NFT of a pending *)
(* sale to its depositor, moves no money, and ends sale and swap.          *)
THEOREM DisputesUnwind == Spec => DisputeUnwinds
<1>1. ASSUME IndInv, [Next]_vars PROVE SettlementStep
  <2> SUFFICES ASSUME NEW d \in DisputeIds, ~dispute[d].settled, dispute'[d].settled
               PROVE  LET i == dispute[d].transaction
                      IN  /\ sale[i].state = "Pending" /\ Live(swap[i].nft)
                          /\ owner'[sale[i].token] = sale[i].seller
                          /\ balance' = balance
                          /\ sale'[i].state \in {"Resolved", "Cancelled"}
                          /\ swap'[i].state = "Failed" /\ ~Live(swap'[i].nft)
    BY DEF SettlementStep
  <2>1. dispute'[d].settled # dispute[d].settled
    OBVIOUS
  <2>2. PICK e, resolution : Settles(e, resolution)
    BY <1>1, <2>1, Inductive
  <2>3. e = d
    <3>1. /\ e \in DisputeIds /\ dispute \in [DisputeIds -> DisputeRecords]
          /\ dispute' = [dispute EXCEPT ![e].resolution = resolution, ![e].settled = TRUE]
      BY <1>1, <2>2 DEF Settles, IndInv, DisputeInv
    <3>2. d # e => dispute'[d] = dispute[d]
      BY <3>1
    <3> QED
      BY <2>1, <3>2
  <2>4. PICK i : i = dispute[d].transaction
    OBVIOUS
  <2>5. MoneyInv /\ EscrowInv /\ LedgerTypeOK
    BY <1>1 DEF IndInv, MoneyInv, HouseInv, HouseTypes
  <2>6. /\ i \in SaleIds /\ Live(swap[i].nft) /\ sale[i].state = "Pending"
        /\ RefundHoldings({i}) /\ FailSwaps({i})
        /\ sale'[i].state \in {"Resolved", "Cancelled"}
    BY <2>2, <2>3, <2>4, <2>5, SettlingRefunds DEF Settles
  <2>7. owner'[swap[i].nft.token] = swap[i].nft.holder /\ balance' = balance
    BY <2>5, <2>6, RefundedTokens, RefundMovesNoMoney
  <2>8. GoodSwap(i)
    BY <2>5, <2>6, SwapFields
  <2>9. swap'[i] = AfterRefund(i)
    BY <2>6, Zenon DEF FailSwaps, AfterRefund
  <2>10. swap'[i].state = "Failed" /\ ~Live(swap'[i].nft)
    BY <2>5, <2>6, <2>8, <2>9, RefundedSwap DEF GoodSwap
  <2>11. owner'[sale[i].token] = sale[i].seller
    BY <2>7, <2>8 DEF GoodSwap
  <2> QED
    BY <2>4, <2>6, <2>7, <2>10, <2>11
<1> QED
  BY <1>1, IndInvariant, PTL DEF Spec, DisputeUnwinds

-----------------------------------------------------------------------------
-----------------------------------------------------------------------------
(* The escrow as a whole.  Claims and purses as the promise sees them, and *)
(* what the invariant says of the CHOOSE in them: the record that stands   *)
(* for a token is the only one.                                            *)
Claims == [t \in Tokens |-> ClaimOn(t)]
Purses == [u \in Users |-> balance[u]]

ClaimsKnown ==
    \A t \in Tokens :
        /\ \A i \in SaleIds :
              Live(swap[i].nft) /\ swap[i].nft.token = t => ClaimOn(t) = SaleClaim(i)
        /\ \A i \in OpenAuctions : auction[i].token = t => ClaimOn(t) = AuctionClaim(i)
        /\ owner[t] # Contract => ClaimOn(t) = Promise!Unclaimed
        /\ owner[t] = Contract <=>
              \/ \E i \in SaleIds : Live(swap[i].nft) /\ swap[i].nft.token = t
              \/ \E i \in OpenAuctions : auction[i].token = t

LEMMA ClaimsAreKnown ==
    ASSUME IndInv
    PROVE  ClaimsKnown
<1> SUFFICES ASSUME NEW t \in Tokens
             PROVE  /\ \A i \in EscrowsOf(t) : ClaimOn(t) = SaleClaim(i)
                    /\ \A i \in OffersOf(t) : ClaimOn(t) = AuctionClaim(i)
                    /\ owner[t] # Contract => ClaimOn(t) = Promise!Unclaimed
                    /\ owner[t] = Contract <=> EscrowsOf(t) # {} \/ OffersOf(t) # {}
  BY DEF ClaimsKnown, EscrowsOf, OffersOf
<1>1. SeparateTokens /\ HoldsOffers(Escrowed)
  BY DEF IndInv, MoneyInv, EscrowInv, HouseInv
<1>2. owner[t] = Contract <=> EscrowsOf(t) # {} \/ OffersOf(t) # {}
  BY <1>1, EscrowedTokens DEF HoldsOffers, EscrowsOf, OffersOf
<1>3. EscrowsOf(t) # {} => OffersOf(t) = {}
  BY <1>1, EscrowedTokens DEF HoldsOffers, EscrowsOf, OffersOf
<1>4. ASSUME NEW i \in EscrowsOf(t) PROVE ClaimOn(t) = SaleClaim(i)
  <2>1. EscrowsOf(t) = {i}
    BY <1>1, <1>4 DEF SeparateTokens, EscrowsOf
  <2>2. (CHOOSE j \in EscrowsOf(t) : TRUE) = i
    BY <2>1
  <2> QED
    BY <1>4, <2>2, Zenon DEF ClaimOn
<1>5. ASSUME NEW i \in OffersOf(t) PROVE ClaimOn(t) = AuctionClaim(i)
  <2>1. OffersOf(t) = {i}
    BY <1>1, <1>5 DEF HoldsOffers, OffersOf
  <2>2. (CHOOSE j \in OffersOf(t) : TRUE) = i
    BY <2>1
  <2>3. EscrowsOf(t) = {}
    BY <1>3, <1>5
  <2> QED
    BY <1>5, <2>2, <2>3, Zenon DEF ClaimOn
<1>6. owner[t] # Contract => ClaimOn(t) = Promise!Unclaimed
  BY <1>2, Zenon DEF ClaimOn, Promise!Unclaimed
<1> QED
  BY <1>2, <1>4, <1>5, <1>6

(* A claim stands as long as the record behind it does. *)
LEMMA ClaimStands ==
    ASSUME ClaimsKnown, ClaimsKnown', NEW t \in Tokens,
           owner[t] # Contract => owner'[t] # Contract,
           \A i \in SaleIds : Live(swap[i].nft) /\ swap[i].nft.token = t =>
              /\ i \in SaleIds' /\ Live(swap'[i].nft) /\ swap'[i].nft.token = t
              /\ sale'[i].seller = sale[i].seller /\ sale'[i].price = sale[i].price
              /\ sale'[i].share = sale[i].share,
           \A i \in OpenAuctions : auction[i].token = t =>
              i \in OpenAuctions' /\ auction'[i] = auction[i]
    PROVE  ClaimOn(t)' = ClaimOn(t)
<1>1. CASE owner[t] # Contract
  BY <1>1 DEF ClaimsKnown, Promise!Unclaimed
<1>2. ASSUME NEW i \in SaleIds, Live(swap[i].nft), swap[i].nft.token = t
      PROVE  ClaimOn(t)' = ClaimOn(t)
  <2>1. ClaimOn(t) = SaleClaim(i)
    BY <1>2 DEF ClaimsKnown
  <2>2. ClaimOn(t)' = SaleClaim(i)'
    BY <1>2 DEF ClaimsKnown
  <2>3. SaleClaim(i)' = SaleClaim(i)
    BY <1>2 DEF SaleClaim
  <2> QED
    BY <2>1, <2>2, <2>3
<1>3. ASSUME NEW i \in OpenAuctions, auction[i].token = t
      PROVE  ClaimOn(t)' = ClaimOn(t)
  <2>1. ClaimOn(t) = AuctionClaim(i)
    BY <1>3 DEF ClaimsKnown
  <2>2. ClaimOn(t)' = AuctionClaim(i)'
    BY <1>3 DEF ClaimsKnown
  <2>3. AuctionClaim(i)' = AuctionClaim(i)
    BY <1>3 DEF AuctionClaim
  <2> QED
    BY <2>1, <2>2, <2>3
<1> QED
  BY <1>1, <1>2, <1>3 DEF ClaimsKnown

(* What every step lemma below starts from. *)
Promised == IndInv /\ IndInv' /\ ClaimsKnown /\ ClaimsKnown'

LEMMA PromisedTypes ==
    ASSUME Promised
    PROVE  /\ owner \in [Tokens -> Accounts] /\ owner' \in [Tokens -> Accounts]
           /\ balance \in [Accounts -> Nat] /\ balance' \in [Accounts -> Nat]
           /\ \A u \in Users : u \in Accounts /\ u # Contract /\ u # NoUser
           /\ MoneyInv /\ EscrowInv /\ HouseTypes /\ GoodAuctions /\ GoodPrices
           /\ LedgerTypeOK /\ AccessTypeOK /\ FeeTypeOK /\ AuctionTypeOK /\ HouseTypes'
BY LedgerAssumption, FeeAssumption
   DEF Promised, IndInv, MoneyInv, HouseInv, HouseTypes, LedgerTypeOK, Accounts

(* The steps that touch no claim. *)
LEMMA ElsewherePromised ==
    ASSUME Promised, UNCHANGED <<sale, swap, nextSale, auction, nextAuction>>,
           \A t \in Tokens : owner'[t] = Contract <=> owner[t] = Contract,
           \A u \in Users : balance'[u] >= balance[u]
    PROVE  Promise!Elsewhere
<1>1. /\ owner' \in [Tokens -> Accounts]
      /\ ClaimsKnown /\ ClaimsKnown'
  BY PromisedTypes DEF Promised
<1>2. SaleIds' = SaleIds /\ OpenAuctions' = OpenAuctions
  BY DEF SaleIds, OpenAuctions, AuctionIds, Pending
<1>3. \A t \in Tokens : ClaimOn(t)' = ClaimOn(t)
  BY <1>1, <1>2, ClaimStands
<1>4. Claims' = Claims
  BY <1>3, Zenon DEF Claims
<1>5. \A u \in Users : Purses'[u] >= Purses[u]
  BY DEF Purses
<1> QED
  BY <1>1, <1>4, <1>5
     DEF Promise!Elsewhere, Promise!Kept, Promise!NobodyLoses, Claims, Purses, Accounts


(* A refund of some swaps returns the tokens of those that were open.      *)
LEMMA RefundPromised ==
    ASSUME Promised, NEW S \in SUBSET SaleIds,
           RefundHoldings(S), FailSwaps(S), MarketFrame, SalesRefunded(S)
    PROVE  \E R \in SUBSET Promise!Kept : Promise!Return(R)
<1> DEFINE R == {t \in Tokens : \E i \in S : Live(swap[i].nft) /\ swap[i].nft.token = t}
<1>0. /\ EscrowInv /\ LedgerTypeOK /\ ClaimsKnown /\ ClaimsKnown'
      /\ balance' = balance
      /\ owner' \in [Tokens -> Accounts] /\ owner \in [Tokens -> Accounts]
  BY PromisedTypes, RefundMovesNoMoney DEF Promised
<1>1. /\ \A i \in S : Live(swap[i].nft) => owner'[swap[i].nft.token] = swap[i].nft.holder
      /\ \A t \in Tokens \ R : owner'[t] = owner[t]
  <2> HIDE DEF R
  <2>1. \A t \in Tokens \ R : \A i \in S : ~(Live(swap[i].nft) /\ swap[i].nft.token = t)
    BY DEF R
  <2> QED
    BY <1>0, <2>1, RefundedTokens
<1>2. /\ SaleIds' = SaleIds /\ OpenAuctions' = OpenAuctions /\ auction' = auction
      /\ \A i \in SaleIds : TermsKept(i)
      /\ \A i \in SaleIds : i \notin S => swap'[i] = swap[i]
  BY DEF MarketFrame, SalesRefunded, FailSwaps, SaleIds, OpenAuctions, AuctionIds, Pending,
     auctionVars
<1>3. ASSUME NEW t \in R
      PROVE  /\ t \in Tokens /\ owner[t] = Contract
             /\ ClaimOn(t).pledger = NoUser
             /\ owner'[t] = ClaimOn(t).depositor
             /\ ClaimOn(t)' = Promise!Unclaimed
  <2>1. PICK i \in S : Live(swap[i].nft) /\ swap[i].nft.token = t
    BY <1>3
  <2>2. ClaimOn(t) = SaleClaim(i) /\ owner[t] = Contract
    BY <1>0, <2>1 DEF ClaimsKnown
  <2>3. swap[i].nft.holder = sale[i].seller /\ sale[i].seller \in Users
    BY <1>0, <2>1, SwapFields DEF GoodSwap
  <2>4. owner'[t] = sale[i].seller /\ owner'[t] # Contract
    BY <1>1, <2>1, <2>3, PromisedTypes
  <2> QED
    BY <1>0, <2>2, <2>4 DEF ClaimsKnown, SaleClaim
<1>4. ASSUME NEW t \in Tokens, t \notin R
      PROVE  owner'[t] = owner[t] /\ ClaimOn(t)' = ClaimOn(t)
  <2>1. owner'[t] = owner[t]
    BY <1>1, <1>4
  <2>2. ASSUME NEW i \in SaleIds, Live(swap[i].nft), swap[i].nft.token = t
        PROVE  i \notin S
    BY <1>4, <2>2
  <2>3. ClaimOn(t)' = ClaimOn(t)
    BY <1>0, <1>2, <2>1, <2>2, ClaimStands DEF TermsKept
  <2> QED
    BY <2>1, <2>3
<1>5. R \in SUBSET Promise!Kept
  BY <1>3 DEF Promise!Kept
<1> HIDE DEF R
<1>6. /\ \A t \in R : Claims[t].pledger = NoUser
      /\ owner' = [t \in Tokens |-> IF t \in R THEN Claims[t].depositor ELSE owner[t]]
      /\ Claims' = [t \in Tokens |-> IF t \in R THEN Promise!Unclaimed ELSE Claims[t]]
      /\ Purses' = Purses
  <2>1. \A t \in R : Claims[t].pledger = NoUser
    BY <1>3 DEF Claims
  <2>2. \A t \in Tokens : owner'[t] = IF t \in R THEN Claims[t].depositor ELSE owner[t]
    BY <1>3, <1>4 DEF Claims
  <2>3. owner' = [t \in Tokens |-> IF t \in R THEN Claims[t].depositor ELSE owner[t]]
    BY <1>0, <2>2
  <2>4. \A t \in Tokens : ClaimOn(t)' = IF t \in R THEN Promise!Unclaimed ELSE Claims[t]
    BY <1>3, <1>4 DEF Claims
  <2>5. Claims' = [t \in Tokens |-> IF t \in R THEN Promise!Unclaimed ELSE Claims[t]]
    BY <2>4, Zenon DEF Claims
  <2>6. Purses' = Purses
    BY <1>0 DEF Purses
  <2> QED
    BY <2>1, <2>3, <2>5, <2>6
<1>7. Promise!Return(R)
  BY <1>6, Zenon DEF Promise!Return, Claims, Purses
<1> QED
  BY <1>5, <1>7

(* What remains of a claim when the token t leaves the contract for p.     *)
LEMMA TokenLeaves ==
    ASSUME Promised, NEW t \in Tokens, NEW p \in Users, MoveNft(t, Contract, p),
           SaleIds' = SaleIds,
           \A i \in SaleIds : swap[i].nft.token # t =>
              swap'[i] = swap[i] /\ sale'[i] = sale[i],
           \A i \in OpenAuctions : auction[i].token # t =>
              i \in OpenAuctions' /\ auction'[i] = auction[i]
    PROVE  /\ owner[t] = Contract
           /\ owner' = [owner EXCEPT ![t] = p]
           /\ Claims' = [Claims EXCEPT ![t] = Promise!Unclaimed]
<1>1. /\ ClaimsKnown /\ ClaimsKnown' /\ owner \in [Tokens -> Accounts] /\ p # Contract
      /\ owner[t] = Contract /\ owner' = [owner EXCEPT ![t] = p]
  BY PromisedTypes DEF Promised, MoveNft
<1>2. ClaimOn(t)' = Promise!Unclaimed
  BY <1>1 DEF ClaimsKnown
<1>3. ASSUME NEW u \in Tokens, u # t PROVE ClaimOn(u)' = ClaimOn(u)
  BY <1>1, <1>3, ClaimStands
<1>4. \A u \in Tokens : ClaimOn(u)' = IF u = t THEN Promise!Unclaimed ELSE Claims[u]
  BY <1>2, <1>3 DEF Claims
<1>5. Claims' = [u \in Tokens |-> IF u = t THEN Promise!Unclaimed ELSE Claims[u]]
  BY <1>4, Zenon DEF Claims
<1>6. Claims' = [Claims EXCEPT ![t] = Promise!Unclaimed]
  <2>1. Claims = [u \in Tokens |-> Claims[u]]
    BY Zenon DEF Claims
  <2> HIDE DEF Claims
  <2> QED
    BY <1>5, <2>1
<1> QED
  BY <1>1, <1>6


(* The claim c on the token t that s gives into the contract.              *)
LEMMA TokenEnters ==
    ASSUME Promised, NEW t \in Tokens, NEW s \in Users, MoveNft(t, s, Contract),
           NEW c, ClaimOn(t)' = c,
           \A i \in SaleIds : i \in SaleIds' /\ swap'[i] = swap[i] /\ sale'[i] = sale[i],
           \A i \in OpenAuctions : i \in OpenAuctions' /\ auction'[i] = auction[i]
    PROVE  /\ owner[t] = s
           /\ owner' = [owner EXCEPT ![t] = Contract]
           /\ Claims' = [Claims EXCEPT ![t] = c]
<1>1. /\ ClaimsKnown /\ ClaimsKnown' /\ owner \in [Tokens -> Accounts]
      /\ owner[t] = s /\ owner' = [owner EXCEPT ![t] = Contract]
  BY PromisedTypes DEF Promised, MoveNft
<1>2. ASSUME NEW u \in Tokens, u # t PROVE ClaimOn(u)' = ClaimOn(u)
  BY <1>1, <1>2, ClaimStands
<1>3. \A u \in Tokens : ClaimOn(u)' = IF u = t THEN c ELSE Claims[u]
  BY <1>2 DEF Claims
<1>4. Claims' = [u \in Tokens |-> IF u = t THEN c ELSE Claims[u]]
  BY <1>3, Zenon DEF Claims
<1>5. Claims' = [Claims EXCEPT ![t] = c]
  <2>1. Claims = [u \in Tokens |-> Claims[u]]
    BY Zenon DEF Claims
  <2> HIDE DEF Claims
  <2> QED
    BY <1>4, <2>1
<1> QED
  BY <1>1, <1>5

(* create_sale deposits: asked is the price, due the share frozen now.     *)
LEMMA CreateSalePromised ==
    ASSUME Promised, UNCHANGED auctionVars,
           NEW s \in Users, NEW t \in Tokens, NEW price \in Prices,
           NEW duration \in Durations, CreateSale(s, t, price, duration)
    PROVE  \E due \in 0..price : Promise!Deposit(t, s, price, due)
<1> DEFINE share == price - Percentage(price, Royalty.bps) - FeeFor(price, s)
           c == [depositor |-> s, ask |-> price, due |-> AtLeast(share, 0),
                 pledger |-> NoUser, pledge |-> 0]
<1>0. /\ EscrowInv /\ SaleTypeOK /\ FeeTypeOK /\ ClaimsKnown' /\ EscrowInv'
  BY PromisedTypes DEF Promised, IndInv, MoneyInv, EscrowInv
<1>1. nextSale \in Nat /\ SaleIds = 1..(nextSale - 1) /\ SaleIds' = 1..nextSale /\ nextSale > 0
  BY <1>0, SaleAssumption DEF CreateSale, SaleTypeOK, SaleIds
<1>2. /\ \A i \in SaleIds : i \in SaleIds' /\ sale'[i] = sale[i] /\ swap'[i] = swap[i]
      /\ nextSale \in SaleIds'
      /\ sale'[nextSale].seller = s /\ sale'[nextSale].price = price
      /\ sale'[nextSale].share = share
      /\ swap'[nextSale].nft = [holder |-> s, token |-> t, deposited |-> TRUE, released |-> FALSE]
  <2>1. \A i \in SaleIds : i \in 1..nextSale /\ i < nextSale
    BY <1>1
  <2> DEFINE new ==
              [seller |-> s, buyer |-> NoUser, token |-> t, price |-> price,
               state |-> "Pending", createdAt |-> now, expiresAt |-> now + duration,
               creator |-> Royalty.creator, royalty |-> Percentage(price, Royalty.bps),
               share |-> share, fee |-> FeeFor(price, s)]
  <2>2. sale' = [i \in 1..nextSale |-> IF i < nextSale THEN sale[i] ELSE new]
    BY Zenon DEF CreateSale
  <2>5. new.seller = s /\ new.price = price /\ new.share = share
    OBVIOUS
  <2>3. \A i \in SaleIds : i \in SaleIds' /\ sale'[i] = sale[i] /\ swap'[i] = swap[i]
    BY <1>1, <2>1 DEF CreateSale
  <2>4. swap'[nextSale].nft = [holder |-> s, token |-> t, deposited |-> TRUE, released |-> FALSE]
    BY <1>1 DEF CreateSale
  <2> HIDE DEF share, new
  <2>6. sale'[nextSale] = new
    BY <1>1, <2>2
  <2> QED
    BY <1>1, <2>3, <2>4, <2>5, <2>6
<1>3. share \in Int /\ share <= price /\ price \in Nat
  <2>1. price \in Nat
    BY SaleAssumption
  <2>2. Percentage(price, Royalty.bps) \in Nat
    BY <2>1, RoyaltyNat, Zenon
  <2>3. FeeFor(price, s) \in Int
    BY <1>0, <2>1, FeeForInt, Zenon
  <2>4. FeeFor(price, s) >= 0
    BY Zenon DEF CreateSale
  <2> QED
    BY <2>1, <2>2, <2>3, <2>4
<1>4. AtLeast(share, 0) \in 0..price
  <2> HIDE DEF share
  <2> QED
    BY <1>3 DEF AtLeast
<1> HIDE DEF share
<1>5. ClaimOn(t)' = c
  <2>1. Live(swap'[nextSale].nft) /\ swap'[nextSale].nft.token = t
    BY <1>2 DEF Live
  <2>2. PICK n : n = nextSale
    OBVIOUS
  <2>3. ClaimOn(t)' = SaleClaim(n)'
    BY <1>0, <1>2, <2>1, <2>2 DEF ClaimsKnown
  <2>4. SaleClaim(n)' = c
    BY <1>2, <2>2 DEF SaleClaim
  <2> QED
    BY <2>3, <2>4
<1> HIDE DEF c
<1>6. MoveNft(t, s, Contract) /\ UNCHANGED balance
  BY Zenon DEF CreateSale
<1>7. OpenAuctions' = OpenAuctions /\ auction' = auction
  BY DEF OpenAuctions, AuctionIds, Pending, auctionVars
<1>8. /\ owner[t] = s /\ owner' = [owner EXCEPT ![t] = Contract]
      /\ Claims' = [Claims EXCEPT ![t] = c]
  BY <1>2, <1>5, <1>6, <1>7, TokenEnters
<1>9. Purses' = Purses
  BY <1>6 DEF Purses
<1>10. Promise!Deposit(t, s, price, AtLeast(share, 0))
  BY <1>8, <1>9, Zenon DEF Promise!Deposit, Claims, Purses, c
<1> QED
  BY <1>4, <1>10

(* create_auction deposits: asked is the starting price.                   *)
LEMMA CreateAuctionPromised ==
    ASSUME Promised, UNCHANGED <<saleVars, disputeVars>>,
           NEW s \in Users, NEW t \in Tokens, NEW k \in Kinds,
           NEW p \in StartPrices, NEW r \in Reserves, NEW d \in AuctionDurations,
           NEW x \in Increments, CreateAuction(s, t, k, p, r, d, x)
    PROVE  \E due \in 0..p : Promise!Deposit(t, s, p, due)
<1> DEFINE c == [depositor |-> s, ask |-> p, due |-> 0, pledger |-> NoUser, pledge |-> 0]
<1>0. HouseTypes /\ ClaimsKnown'
  BY PromisedTypes DEF Promised
<1>1. PICK n : n = nextAuction
  OBVIOUS
<1>2. /\ AuctionIds' = AuctionIds \union {n}
      /\ \A j \in AuctionIds : auction'[j] = auction[j]
      /\ auction'[n].seller = s /\ auction'[n].token = t /\ auction'[n].starting = p
      /\ auction'[n].highest = 0 /\ auction'[n].bidder = NoUser
      /\ auction'[n].state = "Pending"
      /\ MoveNft(t, s, Contract) /\ UNCHANGED balance /\ p > 0
  BY <1>0, <1>1, CreateFacts
<1>3. \A i \in OpenAuctions : i \in OpenAuctions' /\ auction'[i] = auction[i]
  BY <1>2 DEF OpenAuctions, Pending
<1>4. ClaimOn(t)' = c
  <2>1. n \in OpenAuctions'
    BY <1>2 DEF OpenAuctions, Pending
  <2>2. ClaimOn(t)' = AuctionClaim(n)'
    BY <1>0, <1>2, <2>1 DEF ClaimsKnown
  <2>3. AuctionClaim(n)' = c
    BY <1>2 DEF AuctionClaim
  <2> QED
    BY <2>2, <2>3
<1> HIDE DEF c
<1>5. \A i \in SaleIds : i \in SaleIds' /\ swap'[i] = swap[i] /\ sale'[i] = sale[i]
  BY DEF saleVars, SaleIds
<1>6. /\ owner[t] = s /\ owner' = [owner EXCEPT ![t] = Contract]
      /\ Claims' = [Claims EXCEPT ![t] = c]
  BY <1>2, <1>3, <1>4, <1>5, TokenEnters
<1>7. Purses' = Purses
  BY <1>2 DEF Purses
<1>8. Promise!Deposit(t, s, p, 0)
  BY <1>6, <1>7, Zenon DEF Promise!Deposit, Claims, Purses, c
<1>9. 0 \in 0..p
  BY <1>2, AuctionAssumption
<1> QED
  BY <1>8, <1>9


(* What execute_sale does to the purses: the buyer parts with the price,   *)
(* and the seller gets at least the share the sale was made with.          *)
LEMMA SaleMoney ==
    ASSUME Promised, NEW i \in SaleIds, NEW b \in Users, ExecuteSale(i, b)
    PROVE  /\ \A v \in Users : v # b => balance'[v] >= balance[v]
           /\ balance'[b] >= balance[b] - sale[i].price
           /\ b # sale[i].seller =>
                 /\ balance'[sale[i].seller]
                       >= balance[sale[i].seller] + AtLeast(sale[i].share, 0)
                 /\ balance'[sale[i].seller] <= balance[sale[i].seller] + sale[i].price
<1> DEFINE x == sale[i]
           in(v) == Received(v, x.creator, x.royalty, x.seller, x.share)
<1>1. /\ x.fee \in Nat /\ x.royalty \in Nat /\ x.share \in Int /\ x.price \in Nat
      /\ x.creator \in Users /\ x.seller \in Users
      /\ swap[i].pay.amount = x.price /\ x.royalty + x.share + x.fee = x.price
  BY PromisedTypes, SwapFields DEF Sales, GoodSwap
<1>2. /\ balance \in [Accounts -> Nat]
      /\ \A u \in Users : u \in Accounts /\ u # Contract /\ u # NoUser
  BY PromisedTypes
<1>3. PayInThenOut(b, x.price, x.creator, x.royalty, x.seller, x.share)
  BY <1>1, Zenon DEF ExecuteSale
<1>4. Payable(x.creator, x.royalty, x.seller, x.share)
  BY <1>3, Zenon DEF PayInThenOut
<1>5. \A v \in Users : balance'[v] = balance[v] - (IF v = b THEN x.price ELSE 0) + in(v)
  BY <1>2, <1>3, Zenon DEF PayInThenOut
<1>6. \A v \in Users : in(v) \in Nat
  BY <1>1, <1>4 DEF Received, Payable
<1>7. in(x.seller) >= AtLeast(x.share, 0) /\ in(x.seller) <= x.price
  BY <1>1, <1>4 DEF Received, Payable, AtLeast
<1>8. \A v \in Users : balance[v] \in Nat
  BY <1>2
<1> HIDE DEF in
<1>9. \A v \in Users : v # b => balance'[v] = balance[v] + in(v)
  BY <1>1, <1>5, <1>6, <1>8
<1>10. balance'[b] = balance[b] - x.price + in(b)
  BY <1>5
<1>11. AtLeast(x.share, 0) \in Int
  BY <1>1 DEF AtLeast
<1> QED
  BY <1>1, <1>6, <1>7, <1>8, <1>9, <1>10, <1>11

(* execute_sale sells. *)
LEMMA ExecuteSalePromised ==
    ASSUME Promised, UNCHANGED auctionVars,
           NEW i \in 1..MaxSales, NEW b \in Users, ExecuteSale(i, b)
    PROVE  \E t \in Tokens : Promise!Sell(t, b)
<1>0. /\ EscrowInv /\ ClaimsKnown /\ sale \in [SaleIds -> Sales] /\ swap \in [SaleIds -> Swaps]
  BY PromisedTypes DEF Promised, EscrowInv, SaleTypeOK
<1>1. PICK t : t = swap[i].nft.token
  OBVIOUS
<1>2. /\ i \in SaleIds /\ Executable(i) /\ SaleIds' = SaleIds
      /\ MoveNft(t, Contract, b)
  BY <1>1 DEF ExecuteSale, SaleIds
<1>3. t \in Tokens /\ GoodSwap(i) /\ Live(swap[i].nft)
  BY <1>0, <1>1, <1>2, SwapFields DEF GoodSwap, Executable
<1>4. \A j \in SaleIds : j # i => sale'[j] = sale[j] /\ swap'[j] = swap[j]
  BY <1>0, <1>2 DEF ExecuteSale
<1>5. OpenAuctions' = OpenAuctions /\ auction' = auction
  BY DEF OpenAuctions, AuctionIds, Pending, auctionVars
<1>6. /\ owner[t] = Contract /\ owner' = [owner EXCEPT ![t] = b]
      /\ Claims' = [Claims EXCEPT ![t] = Promise!Unclaimed]
  BY <1>1, <1>2, <1>3, <1>4, <1>5, TokenLeaves
<1>7. Claims[t] = SaleClaim(i)
  BY <1>0, <1>1, <1>2, <1>3 DEF ClaimsKnown, Claims
<1>8. /\ Claims[t].depositor = sale[i].seller /\ Claims[t].ask = sale[i].price
      /\ Claims[t].due = AtLeast(sale[i].share, 0) /\ Claims[t].pledger = NoUser
  BY <1>7 DEF SaleClaim
<1>9. sale[i].seller \in Users
  BY <1>0, <1>2 DEF Sales
<1>10. /\ \A v \in Users \ {b} : Purses'[v] >= Purses[v]
       /\ Purses'[b] >= Purses[b] - Claims[t].ask
       /\ b # Claims[t].depositor =>
             /\ Purses'[Claims[t].depositor] >= Purses[Claims[t].depositor] + Claims[t].due
             /\ Purses'[Claims[t].depositor] <= Purses[Claims[t].depositor] + Claims[t].ask
  <2>1. \A v \in Users : Purses[v] = balance[v] /\ Purses'[v] = balance'[v]
    BY DEF Purses
  <2> QED
    BY <1>2, <1>8, <1>9, <2>1, SaleMoney
<1>11. t \in Promise!Kept
  BY <1>3, <1>6 DEF Promise!Kept
<1>12. Promise!Sell(t, b)
  BY <1>6, <1>8, <1>10, <1>11, Zenon
     DEF Promise!Sell, Promise!Leaves, Promise!NobodyLoses, Claims, Purses
<1> QED
  BY <1>3, <1>12

(* place_bid pledges. *)
LEMMA BidPromised ==
    ASSUME Promised, UNCHANGED saleVars,
           NEW i, NEW u \in Users, NEW x \in BidAmounts, PlaceBid(i, u, x)
    PROVE  \E t \in Tokens : Promise!Pledge(t, u, x)
<1>0. /\ HouseTypes /\ GoodAuctions /\ AuctionTypeOK /\ ClaimsKnown /\ ClaimsKnown'
  BY PromisedTypes DEF Promised
<1>1. /\ i \in AuctionIds /\ x \in Nat /\ Pending(i)
      /\ x > auction[i].highest /\ x >= auction[i].starting
      /\ \A j \in AuctionIds : j # i => auction'[j] = auction[j]
      /\ auction'[i].highest = x /\ auction'[i].bidder = u
      /\ Untouched(i) /\ auction'[i].state = auction[i].state
  BY <1>0, BidRecord
<1>2. UNCHANGED <<owner, nextAuction>> /\ AuctionIds' = AuctionIds
  BY DEF PlaceBid, AuctionIds
<1>3. PICK t : t = auction[i].token
  OBVIOUS
<1>4. t \in Tokens
  BY <1>0, <1>1, <1>3, AuctionFields
<1>5. OpenAuctions' = OpenAuctions /\ i \in OpenAuctions
  BY <1>1, <1>2 DEF OpenAuctions, Pending
<1>6. ClaimOn(t) = AuctionClaim(i) /\ owner[t] = Contract
  BY <1>0, <1>3, <1>4, <1>5 DEF ClaimsKnown
<1>7. ClaimOn(t)' = AuctionClaim(i)'
  BY <1>0, <1>1, <1>3, <1>4, <1>5 DEF ClaimsKnown, Untouched
<1>8. ClaimOn(t)' = [ClaimOn(t) EXCEPT !.pledger = u, !.pledge = x]
  <2>1. ClaimOn(t)' = [depositor |-> auction[i].seller, ask |-> auction[i].starting,
                       due |-> 0, pledger |-> u, pledge |-> x]
    BY <1>1, <1>7 DEF AuctionClaim, Untouched
  <2>2. PICK c, seller, ask, bidder, highest :
           /\ c = ClaimOn(t) /\ seller = auction[i].seller /\ ask = auction[i].starting
           /\ bidder = auction[i].bidder /\ highest = auction[i].highest
    OBVIOUS
  <2>3. c = [depositor |-> seller, ask |-> ask, due |-> 0,
             pledger |-> bidder, pledge |-> highest]
    BY <1>6, <2>2 DEF AuctionClaim
  <2>4. [c EXCEPT !.pledger = u, !.pledge = x]
          = [depositor |-> seller, ask |-> ask, due |-> 0, pledger |-> u, pledge |-> x]
    <3>1. PICK b : b = [c EXCEPT !.pledger = u]
      OBVIOUS
    <3>2. b = [depositor |-> seller, ask |-> ask, due |-> 0, pledger |-> u, pledge |-> highest]
      BY <2>3, <3>1
    <3>3. [b EXCEPT !.pledge = x]
            = [depositor |-> seller, ask |-> ask, due |-> 0, pledger |-> u, pledge |-> x]
      BY <3>2
    <3>4. [c EXCEPT !.pledger = u, !.pledge = x] = [[c EXCEPT !.pledger = u] EXCEPT !.pledge = x]
      OBVIOUS
    <3> QED
      BY <3>1, <3>3, <3>4
  <2> QED
    BY <2>1, <2>2, <2>4
<1>9. ASSUME NEW v \in Tokens, v # t PROVE ClaimOn(v)' = ClaimOn(v)
  <2>1. \A j \in SaleIds : j \in SaleIds' /\ swap'[j] = swap[j] /\ sale'[j] = sale[j]
    BY DEF saleVars, SaleIds
  <2>2. \A j \in OpenAuctions : auction[j].token = v => auction'[j] = auction[j]
    BY <1>1, <1>3, <1>9 DEF OpenAuctions
  <2> QED
    BY <1>0, <1>2, <1>5, <2>1, <2>2, ClaimStands
<1>10. Claims' = [Claims EXCEPT ![t].pledger = u, ![t].pledge = x]
  <2> DEFINE c == [ClaimOn(t) EXCEPT !.pledger = u, !.pledge = x]
  <2>1. \A v \in Tokens : ClaimOn(v)' = IF v = t THEN c ELSE Claims[v]
    BY <1>8, <1>9 DEF Claims
  <2>2. Claims' = [v \in Tokens |-> IF v = t THEN c ELSE Claims[v]]
    <3> HIDE DEF c
    <3> QED
      BY <2>1, Zenon DEF Claims
  <2>3. Claims = [v \in Tokens |-> Claims[v]] /\ Claims[t] = ClaimOn(t)
    BY <1>4, Zenon DEF Claims
  <2> HIDE DEF Claims
  <2>4. c = [Claims[t] EXCEPT !.pledger = u, !.pledge = x]
    BY <2>3
  <2> HIDE DEF c
  <2>5. Claims' = [Claims EXCEPT ![t] = [Claims[t] EXCEPT !.pledger = u, !.pledge = x]]
    BY <1>4, <2>2, <2>3, <2>4
  <2> QED
    BY <1>4, <2>3, <2>5
<1>11. /\ Claims[t].ask = auction[i].starting /\ Claims[t].pledge = auction[i].highest
       /\ Claims[t].pledger = auction[i].bidder
  BY <1>4, <1>6 DEF Claims, AuctionClaim
<1>12. Purses' = [v \in Users |-> Purses[v] - (IF v = u THEN x ELSE 0)
                     + (IF v = Claims[t].pledger THEN Claims[t].pledge ELSE 0)]
  <2>1. \A v \in Users : balance'[v] = balance[v] - (IF v = u THEN x ELSE 0)
                     + (IF v = Claims[t].pledger THEN Claims[t].pledge ELSE 0)
    <3>1. \A v \in Users : balance'[v] = balance[v] - (IF v = u THEN x ELSE 0)
                     + (IF v = auction[i].bidder THEN auction[i].highest ELSE 0)
      BY <1>0, <1>1, BidMoney
    <3> HIDE DEF Claims
    <3> QED
      BY <1>11, <3>1, Zenon
  <2> HIDE DEF Claims
  <2>2. \A v \in Users : Purses[v] = balance[v]
    BY DEF Purses
  <2> QED
    BY <2>1, <2>2 DEF Purses
<1>13. t \in Promise!Kept
  BY <1>4, <1>6 DEF Promise!Kept
<1>14. x >= Claims[t].ask /\ x > Claims[t].pledge
  BY <1>1, <1>11
<1>15. Promise!Pledge(t, u, x)
  BY <1>2, <1>10, <1>12, <1>13, <1>14, Zenon DEF Promise!Pledge, Claims, Purses
<1> QED
  BY <1>4, <1>15


(* What the seller gets of the standing bid is no more than it. *)
LEMMA ProceedsBounded ==
    ASSUME HouseTypes, GoodAuctions, NEW i \in AuctionIds, SettleAuction(i)
    PROVE  balance'[auction[i].seller] <= balance[auction[i].seller] + auction[i].highest
<1> DEFINE a == auction[i]
           royalty == Percentage(a.highest, Royalty.bps)
           fee == FeeFor(a.highest, a.seller)
           rest == a.highest - royalty - fee
<1>1. /\ a.highest \in Nat /\ a.seller \in Users
      /\ a.seller \in Accounts /\ a.seller # Contract /\ balance \in [Accounts -> Nat]
  BY AuctionFields, LedgerAssumption DEF HouseTypes, LedgerTypeOK, Accounts
<1>2. royalty \in Nat
  BY <1>1, RoyaltyNat, Zenon
<1>3. fee \in Int
  BY <1>1, FeeForInt, Zenon DEF HouseTypes
<1>4. PayOut(Royalty.creator, royalty, a.seller, rest) /\ fee >= 0
  BY Zenon DEF SettleAuction
<1> HIDE DEF royalty, fee
<1>5. rest \in Int /\ rest <= a.highest - royalty
  BY <1>1, <1>2, <1>3, <1>4
<1> HIDE DEF rest
<1>6. balance'[a.seller]
        = balance[a.seller] + Received(a.seller, Royalty.creator, royalty, a.seller, rest)
  BY <1>1, <1>4, Zenon DEF PayOut
<1>7. /\ Received(a.seller, Royalty.creator, royalty, a.seller, rest) \in Int
      /\ Received(a.seller, Royalty.creator, royalty, a.seller, rest) <= a.highest
  BY <1>1, <1>2, <1>5 DEF Received
<1>8. balance[a.seller] \in Nat
  BY <1>1
<1> QED
  BY <1>1, <1>6, <1>7, <1>8

(* What closing an auction does to the claims. *)
LEMMA AuctionCloses ==
    ASSUME Promised, UNCHANGED saleVars,
           NEW i \in AuctionIds, Pending(i), UNCHANGED nextAuction,
           \A j \in AuctionIds : j # i => auction'[j] = auction[j],
           NEW t, t = auction[i].token, NEW p \in Users, MoveNft(t, Contract, p)
    PROVE  /\ t \in Tokens /\ t \in Promise!Kept
           /\ owner' = [owner EXCEPT ![t] = p]
           /\ Claims' = [Claims EXCEPT ![t] = Promise!Unclaimed]
           /\ Claims[t].depositor = auction[i].seller /\ Claims[t].due = 0
           /\ Claims[t].pledger = auction[i].bidder /\ Claims[t].pledge = auction[i].highest
<1>0. AuctionTypeOK /\ ClaimsKnown
  BY PromisedTypes DEF Promised
<1>1. t \in Tokens /\ i \in OpenAuctions /\ AuctionIds' = AuctionIds
  BY <1>0, AuctionFields DEF OpenAuctions, AuctionIds
<1>3. \A j \in OpenAuctions : auction[j].token # t =>
         j \in OpenAuctions' /\ auction'[j] = auction[j]
  BY <1>1 DEF OpenAuctions, Pending
<1>4. SaleIds' = SaleIds /\ \A j \in SaleIds : swap'[j] = swap[j] /\ sale'[j] = sale[j]
  BY DEF saleVars, SaleIds
<1>5. /\ owner[t] = Contract /\ owner' = [owner EXCEPT ![t] = p]
      /\ Claims' = [Claims EXCEPT ![t] = Promise!Unclaimed]
  BY <1>1, <1>3, <1>4, TokenLeaves
<1>6. Claims[t] = AuctionClaim(i)
  BY <1>0, <1>1 DEF ClaimsKnown, Claims
<1> QED
  BY <1>1, <1>5, <1>6 DEF AuctionClaim, Promise!Kept

(* end_auction with a winner awards. *)
LEMMA SettlePromised ==
    ASSUME Promised, UNCHANGED saleVars, NEW i, SettleAuction(i)
    PROVE  \E t \in Tokens : Promise!Award(t)
<1>0. HouseTypes /\ GoodAuctions /\ AuctionTypeOK
  BY PromisedTypes
<1>1. PICK t : t = auction[i].token
  OBVIOUS
<1>2. /\ i \in AuctionIds /\ Pending(i) /\ auction[i].bidder # NoUser
      /\ auction' = [auction EXCEPT ![i].state = "Executed"]
      /\ MoveNft(t, Contract, auction[i].bidder)
      /\ UNCHANGED nextAuction
      /\ \A v \in Users : balance'[v] >= balance[v]
  BY <1>0, <1>1, SettleFacts DEF Ended, Sold, HasBidder
<1>3. /\ auction[i].bidder \in Users /\ auction[i].seller \in Users
  BY <1>0, <1>2, AuctionFields DEF HasBidder
<1>4. /\ t \in Tokens /\ t \in Promise!Kept
      /\ owner' = [owner EXCEPT ![t] = auction[i].bidder]
      /\ Claims' = [Claims EXCEPT ![t] = Promise!Unclaimed]
      /\ Claims[t].depositor = auction[i].seller
      /\ Claims[t].pledger = auction[i].bidder /\ Claims[t].pledge = auction[i].highest
  <2>1. PICK p : p = auction[i].bidder
    OBVIOUS
  <2>2. \A j \in AuctionIds : j # i => auction'[j] = auction[j]
    BY <1>0, <1>2, StateWritten DEF AuctionStates
  <2> QED
    BY <1>1, <1>2, <1>3, <2>1, <2>2, AuctionCloses
<1>5. /\ \A v \in Users : Purses'[v] >= Purses[v]
      /\ Purses'[Claims[t].depositor] <= Purses[Claims[t].depositor] + Claims[t].pledge
  BY <1>0, <1>2, <1>3, <1>4, ProceedsBounded DEF Purses
<1>6. Promise!Award(t)
  BY <1>2, <1>4, <1>5, Zenon
     DEF Promise!Award, Promise!Leaves, Promise!NobodyLoses, Claims, Purses
<1> QED
  BY <1>4, <1>6

(* end_auction without a winner, and an abort, return the token and, when  *)
(* there is one, the pledge.                                               *)
LEMMA ReturnPromised ==
    ASSUME Promised, UNCHANGED saleVars,
           NEW i \in AuctionIds, Pending(i), ReturnAll(i), NEW s \in AuctionStates,
           auction' = [auction EXCEPT ![i].state = s]
    PROVE  \/ \E t \in Tokens : Promise!CallOff(t)
           \/ \E R \in SUBSET Promise!Kept : Promise!Return(R)
<1>0. HouseTypes /\ GoodAuctions /\ AuctionTypeOK
  BY PromisedTypes
<1>1. PICK t : t = auction[i].token
  OBVIOUS
<1>2. /\ MoveNft(t, Contract, auction[i].seller) /\ UNCHANGED nextAuction
      /\ \A v \in Users : balance'[v] = balance[v]
                           + (IF v = auction[i].bidder THEN auction[i].highest ELSE 0)
  BY <1>0, <1>1, ReturnFacts
<1>3. auction[i].seller \in Users /\ (HasBidder(i) => auction[i].bidder \in Users)
  BY <1>0, AuctionFields
<1>4. /\ t \in Tokens /\ t \in Promise!Kept
      /\ owner' = [owner EXCEPT ![t] = auction[i].seller]
      /\ Claims' = [Claims EXCEPT ![t] = Promise!Unclaimed]
      /\ Claims[t].depositor = auction[i].seller
      /\ Claims[t].pledger = auction[i].bidder /\ Claims[t].pledge = auction[i].highest
  <2>1. PICK p : p = auction[i].seller
    OBVIOUS
  <2>2. \A j \in AuctionIds : j # i => auction'[j] = auction[j]
    BY <1>0, StateWritten
  <2> QED
    BY <1>1, <1>2, <1>3, <2>1, <2>2, AuctionCloses
<1>5. \A v \in Users : balance[v] \in Nat /\ v # NoUser
  BY PromisedTypes
<1>6. CASE HasBidder(i)
  <2>1. Purses' = [Purses EXCEPT ![auction[i].bidder] = @ + auction[i].highest]
    <3>1. \A v \in Users : balance'[v] = IF v = auction[i].bidder
                                         THEN balance[v] + auction[i].highest ELSE balance[v]
      BY <1>2, <1>5
    <3> QED
      BY <1>3, <1>6, <3>1 DEF Purses
  <2>2. Promise!CallOff(t)
    BY <1>4, <1>6, <2>1, Zenon
       DEF Promise!CallOff, Promise!Leaves, Claims, Purses, HasBidder
  <2> QED
    BY <1>4, <2>2
<1>7. CASE ~HasBidder(i)
  <2>1. Claims[t].pledger = NoUser
    BY <1>4, <1>7 DEF HasBidder
  <2>2. Purses' = Purses
    <3>1. \A v \in Users : balance'[v] = balance[v]
      BY <1>2, <1>5, <1>7 DEF HasBidder
    <3> QED
      BY <3>1 DEF Purses
  <2>3. owner' = [v \in Tokens |-> IF v \in {t} THEN Claims[v].depositor ELSE owner[v]]
    <3>1. owner \in [Tokens -> Accounts]
      BY PromisedTypes
    <3> HIDE DEF Claims
    <3> QED
      BY <1>4, <3>1
  <2>4. Claims' = [v \in Tokens |-> IF v \in {t} THEN Promise!Unclaimed ELSE Claims[v]]
    <3>1. Claims = [v \in Tokens |-> Claims[v]]
      BY Zenon DEF Claims
    <3> HIDE DEF Claims
    <3> QED
      BY <1>4, <3>1
  <2>5. Promise!Return({t})
    BY <2>1, <2>2, <2>3, <2>4, Zenon DEF Promise!Return, Claims, Purses
  <2> QED
    BY <1>4, <2>5
<1> QED
  BY <1>6, <1>7


(* A dispute that settles returns the NFT. *)
LEMMA SettlesPromised ==
    ASSUME Promised, NEW d, NEW resolution, Settles(d, resolution)
    PROVE  \E R \in SUBSET Promise!Kept : Promise!Return(R)
<1>1. SettleEscrow(d, resolution) /\ MoneyInv
  BY PromisedTypes, Zenon DEF Settles
<1>2. PICK i : i = dispute[d].transaction
  OBVIOUS
<1>3. /\ i \in SaleIds /\ RefundHoldings({i}) /\ FailSwaps({i}) /\ MarketFrame
      /\ SalesRefunded({i})
  BY <1>1, <1>2, SettlingRefunds
<1> QED
  BY <1>3, RefundPromised

(* Every step of the sale side keeps the promise. *)
LEMMA SalePromised ==
    ASSUME Promised, SaleNext, UNCHANGED auctionVars
    PROVE  Promise!Next
<1>0. EscrowInv /\ sale \in [SaleIds -> Sales] /\ \A u \in Users : balance[u] \in Nat
  BY PromisedTypes DEF EscrowInv, SaleTypeOK
<1>1. CASE \E s \in Users, t \in Tokens, p \in Prices, d \in Durations : CreateSale(s, t, p, d)
  <2>1. PICK s \in Users, t \in Tokens, p \in Prices :
           \E due \in 0..p : Promise!Deposit(t, s, p, due)
    BY <1>1, CreateSalePromised
  <2> QED
    BY <2>1, Zenon DEF Promise!Next
<1>2. CASE \E i \in 1..MaxSales, b \in Users : ExecuteSale(i, b)
  <2>1. PICK b \in Users, t \in Tokens : Promise!Sell(t, b)
    BY <1>2, ExecuteSalePromised
  <2> QED
    BY <2>1, Zenon DEF Promise!Next
<1>3. CASE SomeRefunded
  <2>1. \E R \in SUBSET Promise!Kept : Promise!Return(R)
    BY <1>3, RefundPromised DEF SomeRefunded
  <2> QED
    BY <2>1, Zenon DEF Promise!Next
<1>4. CASE \E c \in SwapConfigs : UpdateSwapTimeoutConfig(c)
  <2>1. UNCHANGED <<sale, swap, nextSale, auction, nextAuction, owner, balance>>
    BY <1>4 DEF UpdateSwapTimeoutConfig, assetVars, auctionVars
  <2>2. Promise!Elsewhere
    BY <1>0, <2>1, ElsewherePromised
  <2> QED
    BY <2>2, Zenon DEF Promise!Next
<1> QED
  BY <1>0, <1>1, <1>2, <1>3, <1>4, SaleSteps

(* Every step of the auction side does. *)
LEMMA AuctionPromised ==
    ASSUME Promised, AuctionNext, UNCHANGED <<saleVars, disputeVars>>
    PROVE  Promise!Next
<1>0. HouseTypes /\ GoodAuctions /\ GoodPrices /\ \A u \in Users : balance[u] \in Nat
  BY PromisedTypes
<1>1. CASE \E s \in Users, t \in Tokens, k \in Kinds, p \in StartPrices,
              r \in Reserves, d \in AuctionDurations, c \in Increments :
              CreateAuction(s, t, k, p, r, d, c)
  <2>1. PICK s \in Users, t \in Tokens, p \in StartPrices :
           \E due \in 0..p : Promise!Deposit(t, s, p, due)
    BY <1>1, CreateAuctionPromised
  <2> QED
    BY <2>1, Zenon DEF Promise!Next
<1>2. CASE \E i \in 1..MaxAuctions, u \in Users, x \in BidAmounts : PlaceBid(i, u, x)
  <2>1. PICK u \in Users, x \in BidAmounts, t \in Tokens : Promise!Pledge(t, u, x)
    BY <1>2, BidPromised
  <2> QED
    BY <2>1, Zenon DEF Promise!Next
<1>3. CASE \E i \in 1..MaxAuctions : SettleAuction(i)
  <2>1. PICK t \in Tokens : Promise!Award(t)
    BY <1>3, SettlePromised
  <2> QED
    BY <2>1, Zenon DEF Promise!Next
<1>4. ASSUME NEW i \in AuctionIds, Pending(i), ReturnAll(i), NEW s \in AuctionStates,
             auction' = [auction EXCEPT ![i].state = s]
      PROVE  Promise!Next
  <2>1. \/ \E t \in Tokens : Promise!CallOff(t)
        \/ \E R \in SUBSET Promise!Kept : Promise!Return(R)
    BY <1>4, ReturnPromised
  <2> QED
    BY <2>1, Zenon DEF Promise!Next
<1>5. CASE \E i \in 1..MaxAuctions : CloseUnsold(i)
  <2>1. PICK i : CloseUnsold(i)
    BY <1>5
  <2>2. /\ i \in AuctionIds /\ Pending(i) /\ ReturnAll(i)
        /\ auction' = [auction EXCEPT ![i].state = "Executed"]
    BY <1>0, <2>1, UnsoldHasNoBidder DEF Ended
  <2> QED
    BY <1>4, <2>2 DEF AuctionStates
<1>6. CASE \E i \in 1..MaxAuctions : CancelAuctionWithRefund(i)
  <2>1. PICK i : CancelAuctionWithRefund(i)
    BY <1>6
  <2>2. /\ i \in AuctionIds /\ Pending(i) /\ ReturnAll(i)
        /\ auction' = [auction EXCEPT ![i].state = "Cancelled"]
    BY <2>1, CancelFacts
  <2> QED
    BY <1>4, <2>2 DEF AuctionStates
<1>7. CASE \E i \in 1..MaxAuctions : GetDutchAuctionPrice(i)
  <2>1. UNCHANGED <<sale, swap, nextSale, auction, nextAuction, owner, balance>>
    BY <1>0, <1>7, AskFacts DEF ledgerVars, saleVars
  <2>2. Promise!Elsewhere
    BY <1>0, <2>1, ElsewherePromised
  <2> QED
    BY <2>2, Zenon DEF Promise!Next
<1> QED
  BY <1>1, <1>2, <1>3, <1>5, <1>6, <1>7 DEF AuctionNext

(* Time passes, owners trade outside, administrators reconfigure and fees  *)
(* are withdrawn: no claim is touched.                                     *)
LEMMA RestPromised ==
    ASSUME Promised, LedgerStep \/ AccessStep \/ FeeStep
    PROVE  Promise!Elsewhere
<1>0. /\ LedgerTypeOK /\ FeeTypeOK /\ Contract \notin Users
      /\ balance \in [Accounts -> Nat] /\ \A u \in Users : balance[u] \in Nat /\ u \in Accounts
  BY PromisedTypes, LedgerAssumption
<1>1. UNCHANGED <<sale, swap, nextSale, auction, nextAuction>>
  BY DEF LedgerStep, AccessStep, FeeStep, saleVars, auctionVars
<1>2. CASE LedgerStep
  <2>1. UNCHANGED balance
    BY <1>2 DEF LedgerStep, LedgerNext, CloseLedger, TransferOutside, assetVars
  <2>2. \A t \in Tokens : owner'[t] = Contract <=> owner[t] = Contract
    <3>1. CASE CloseLedger
      BY <3>1 DEF CloseLedger, assetVars
    <3>2. CASE \E t \in TradedOutside, u, v \in Users : TransferOutside(t, u, v)
      <4>1. PICK t \in TradedOutside, u \in Users, v \in Users : TransferOutside(t, u, v)
        BY <3>2
      <4> QED
        BY <1>0, <4>1, LedgerAssumption DEF TransferOutside, MoveNft, LedgerTypeOK
    <3> QED
      BY <1>2, <3>1, <3>2 DEF LedgerStep, LedgerNext
  <2> QED
    BY <1>0, <1>1, <2>1, <2>2, ElsewherePromised
<1>3. CASE AccessStep
  BY <1>0, <1>1, <1>3, ElsewherePromised DEF AccessStep, ledgerVars
<1>4. CASE FeeStep
  <2>1. CASE \E c \in FeeConfigs : UpdateFeeConfig(c)
    BY <1>0, <1>1, <2>1, ElsewherePromised DEF UpdateFeeConfig, assetVars
  <2>2. CASE \E to \in Users : WithdrawPlatformFees(to)
    <3>1. PICK to \in Users : WithdrawPlatformFees(to)
      BY <2>2
    <3>2. accumulated \in Nat /\ PayOut(to, accumulated, to, 0) /\ UNCHANGED owner
      BY <1>0, <3>1 DEF WithdrawPlatformFees, FeeTypeOK
    <3>3. \A u \in Users :
             balance'[u] = balance[u] + Received(u, to, accumulated, to, 0)
      BY <1>0, <3>2, Zenon DEF PayOut
    <3>4. \A u \in Users : balance'[u] >= balance[u]
      BY <1>0, <3>2, <3>3 DEF Received
    <3> QED
      BY <1>1, <3>2, <3>4, ElsewherePromised
  <2> QED
    BY <1>4, <2>1, <2>2 DEF FeeStep, FeeNext
<1> QED
  BY <1>2, <1>3, <1>4

(* Whatever sales, refunds, auctions and disputes do to each other, the    *)
(* settlement contract as a whole is an escrow that keeps its promise: it  *)
(* implements EscrowPromise.                                               *)
THEOREM ContractKeepsItsPromise == Spec => PromiseKept
<1>1. Init => Promise!Init
  <2> SUFFICES ASSUME Init PROVE Promise!Init
    OBVIOUS
  <2>1. /\ owner = StartOwner /\ nextSale = 1 /\ nextAuction = 1
        /\ balance = [a \in Accounts |-> IF a = Contract THEN 0 ELSE StartBalance]
    BY DEF Init, LedgerInit, SaleInit, AuctionInit
  <2>2. SaleIds = {} /\ AuctionIds = {}
    BY <2>1 DEF SaleIds, AuctionIds
  <2>3. \A t \in Tokens : ClaimOn(t) = Promise!Unclaimed
    BY <2>2 DEF ClaimOn, EscrowsOf, OffersOf, OpenAuctions, Promise!Unclaimed
  <2>4. Claims = [t \in Tokens |-> Promise!Unclaimed]
    BY <2>3, Zenon DEF Claims
  <2>5. Purses \in [Users -> Nat] /\ owner \in [Tokens -> Users]
    BY <2>1, LedgerAssumption DEF Purses, Accounts
  <2> QED
    BY <2>4, <2>5, Zenon DEF Promise!Init, Claims, Purses
<1>2. Promised /\ [Next]_vars => [Promise!Next]_(Promise!vars)
  <2> SUFFICES ASSUME Promised, [Next]_vars
               PROVE  Promise!Next \/ UNCHANGED Promise!vars
    OBVIOUS
  <2>0. \A u \in Users : balance[u] \in Nat
    BY PromisedTypes
  <2>1. CASE SaleStep
    BY <2>1, SalePromised DEF SaleStep
  <2>2. CASE AuctionStep
    BY <2>2, AuctionPromised DEF AuctionStep
  <2>3. CASE DisputeNext
    <3>1. CASE \E d, resolution : Settles(d, resolution)
      <4>1. \E R \in SUBSET Promise!Kept : Promise!Return(R)
        BY <3>1, SettlesPromised
      <4> QED
        BY <4>1, Zenon DEF Promise!Next
    <3>2. CASE NothingMoves
      <4>1. UNCHANGED <<sale, swap, nextSale, auction, nextAuction, owner, balance>>
        BY <3>2 DEF NothingMoves, MarketFrame, assetVars, auctionVars
      <4>2. Promise!Elsewhere
        BY <2>0, <4>1, ElsewherePromised
      <4> QED
        BY <4>2, Zenon DEF Promise!Next
    <3>3. DisputeInv /\ now \in Nat
      BY PromisedTypes DEF Promised, IndInv, LedgerTypeOK
    <3> QED
      BY <2>3, <3>1, <3>2, <3>3, DisputeStep
  <2>4. CASE LedgerStep \/ AccessStep \/ FeeStep
    <3>1. Promise!Elsewhere
      BY <2>4, RestPromised
    <3> QED
      BY <3>1, Zenon DEF Promise!Next
  <2>5. CASE UNCHANGED vars
    <3>1. UNCHANGED <<sale, swap, nextSale, auction, nextAuction, owner, balance>>
      BY <2>5 DEF vars, ledgerVars, saleVars, auctionVars
    <3>2. Promise!Elsewhere
      BY <2>0, <3>1, ElsewherePromised
    <3> QED
      BY <3>2, Zenon DEF Promise!Next
  <2> QED
    BY <2>1, <2>2, <2>3, <2>4, <2>5 DEF Next
<1>3. IndInv => ClaimsKnown
  BY ClaimsAreKnown
<1> QED
  BY <1>1, <1>2, <1>3, IndInvariant, PTL DEF Spec, PromiseKept, Promise!Spec, Promised
=============================================================================
