-------------------------- MODULE SaleMarket_proofs --------------------------
(***************************************************************************)
(* Theorems about SaleMarket for any number of users, tokens and sales and *)
(* any fee and timeout configuration.  Custody and BalanceIsFees are not   *)
(* inductive by themselves: a refund path would be free to pay out of      *)
(* another sale's escrow if a swap could name another token than its sale, *)
(* and the payment side could move if a payment holding were ever marked   *)
(* deposited.  IndInv adds what rules that out.                            *)
(***************************************************************************)
EXTENDS SaleMarket, FeeManager_proofs

(* A swap holds the NFT of its own sale for its own seller, its payment    *)
(* holding is never marked deposited, and the frozen split adds up to the  *)
(* price.                                                                  *)
Frozen(i) ==
    /\ swap[i].nft.token = sale[i].token
    /\ swap[i].nft.holder = sale[i].seller
    /\ swap[i].nft.deposited
    /\ ~swap[i].pay.deposited
    /\ swap[i].pay.amount = sale[i].price
    /\ sale[i].royalty + sale[i].share + sale[i].fee = sale[i].price

SwapsFrozen == \A i \in SaleIds : Frozen(i)

IndInv ==
    /\ TypeOK
    /\ SwapsFrozen
    /\ TerminalMeansEmpty
    /\ SaleAgreesWithSwap
    /\ Custody
    /\ BalanceIsFees

-----------------------------------------------------------------------------
(* Releasing holdings. *)

(* A released NFT holding keeps its depositor and token and is no longer   *)
(* live; one that was not live does not change.                            *)
LEMMA ReleaseNft ==
    ASSUME NEW h \in NftHoldings
    PROVE  /\ Release(h) \in NftHoldings
           /\ Release(h).holder = h.holder
           /\ Release(h).token = h.token
           /\ Release(h).deposited = h.deposited
           /\ ~Live(Release(h))
           /\ h.deposited /\ ~Live(h) => Release(h) = h
<1>1. CASE h.deposited
  <2>1. Release(h) = [h EXCEPT !.released = TRUE]
    BY <1>1, Zenon DEF Release
  <2>2. CASE h.released = TRUE
    <3>1. [h EXCEPT !.released = TRUE] = h
      BY <2>2 DEF NftHoldings
    <3> QED
      BY <1>1, <2>1, <2>2, <3>1 DEF Live, NftHoldings
  <2>3. CASE h.released = FALSE
    BY <1>1, <2>1, <2>3 DEF Live, NftHoldings
  <2> QED
    BY <2>2, <2>3 DEF NftHoldings
<1>2. CASE ~h.deposited
  <2>1. Release(h) = [h EXCEPT !.released = @]
    BY <1>2, Zenon DEF Release, NftHoldings
  <2>2. Release(h) = h
    BY <2>1 DEF NftHoldings
  <2> QED
    BY <1>2, <2>2 DEF Live
<1> QED
  BY <1>1, <1>2

(* A payment holding that was never deposited is not touched. *)
LEMMA ReleasePay ==
    ASSUME NEW h \in PayHoldings, ~h.deposited
    PROVE  Release(h) = h
<1>1. (h.released \/ h.deposited) = h.released
  BY Zenon DEF PayHoldings
<1>2. Release(h) = [h EXCEPT !.released = h.released]
  BY <1>1, Zenon DEF Release
<1> QED
  BY <1>2 DEF PayHoldings

(* The swap i after a refund of the swaps S. *)
AfterRefund(i) ==
    [Released(swap[i]) EXCEPT !.state = IF @ = "Executed" THEN @ ELSE "Failed"]

(* What a refund does to one swap: nothing to a terminal one, and to the   *)
(* others only that they are failed and hold nothing.                      *)
LEMMA RefundedSwap ==
    ASSUME IndInv, NEW i \in SaleIds
    PROVE  /\ AfterRefund(i) \in Swaps
           /\ AfterRefund(i).nft = Release(swap[i].nft)
           /\ AfterRefund(i).pay = swap[i].pay
           /\ AfterRefund(i).state = IF swap[i].state = "Executed" THEN "Executed" ELSE "Failed"
           /\ AfterRefund(i).expiresAt = swap[i].expiresAt
           /\ AfterRefund(i).expiresAtLedger = swap[i].expiresAtLedger
           /\ AfterRefund(i).escrowUntil = swap[i].escrowUntil
           /\ swap[i].state \in TerminalSwap => AfterRefund(i) = swap[i]
<1> DEFINE w == swap[i]
<1>1. w \in Swaps
  BY DEF IndInv, TypeOK, SaleTypeOK
<1>2. /\ w.nft \in NftHoldings /\ w.pay \in PayHoldings
      /\ w.nft.deposited /\ ~w.pay.deposited
  BY <1>1 DEF Swaps, IndInv, SwapsFrozen, Frozen
<1>3. Release(w.pay) = w.pay /\ Release(w.nft) \in NftHoldings
  BY <1>2, ReleasePay, ReleaseNft
<1>4. w.state \in TerminalSwap => Release(w.nft) = w.nft
  BY <1>2, ReleaseNft DEF IndInv, TerminalMeansEmpty
<1>5. AfterRefund(i) = [w EXCEPT !.nft = Release(w.nft), !.pay = w.pay,
                              !.state = IF w.state = "Executed" THEN "Executed" ELSE "Failed"]
  BY <1>1, <1>3 DEF AfterRefund, Released, Swaps
<1> HIDE DEF w
<1>6. AfterRefund(i) \in Swaps
  BY <1>1, <1>2, <1>3, <1>5 DEF Swaps, SwapStates
<1>7. /\ AfterRefund(i).nft = Release(w.nft) /\ AfterRefund(i).pay = w.pay
      /\ AfterRefund(i).state = IF w.state = "Executed" THEN "Executed" ELSE "Failed"
      /\ AfterRefund(i).expiresAt = w.expiresAt
      /\ AfterRefund(i).expiresAtLedger = w.expiresAtLedger
      /\ AfterRefund(i).escrowUntil = w.escrowUntil
  BY <1>1, <1>5 DEF Swaps
<1>8. w.state \in TerminalSwap => AfterRefund(i) = w
  <2> SUFFICES ASSUME w.state \in TerminalSwap PROVE AfterRefund(i) = w
    OBVIOUS
  <2>1. (IF w.state = "Executed" THEN "Executed" ELSE "Failed") = w.state
    BY DEF TerminalSwap
  <2>2. AfterRefund(i) = [w EXCEPT !.nft = w.nft, !.pay = w.pay, !.state = w.state]
    BY <1>4, <1>5, <2>1, Zenon
  <2> QED
    BY <1>1, <2>2 DEF Swaps
<1> QED
  BY <1>6, <1>7, <1>8 DEF w

(* No payment holding is ever live, so that a refund owes nobody money. *)
LEMMA NothingOwed ==
    ASSUME IndInv, NEW S \in SUBSET SaleIds, NEW who
    PROVE  Owed(S, who) = 0
<1>1. {i \in S : Live(swap[i].pay) /\ swap[i].pay.holder \in who} = {}
  BY DEF IndInv, SwapsFrozen, Frozen, Live
<1> QED
  BY <1>1, Zenon DEF Owed

-----------------------------------------------------------------------------
(* Payments never rest in escrow, so a refund moves an NFT and no money. *)
LEMMA RefundMovesNoMoney ==
    ASSUME IndInv, NEW S \in SUBSET SaleIds, RefundHoldings(S)
    PROVE  balance' = balance
<1>1. Owed(S, Users) = 0 /\ \A a \in Accounts : Owed(S, {a}) = 0
  BY NothingOwed, Zenon
<1>2. balance \in [Accounts -> Nat]
  BY DEF IndInv, TypeOK, LedgerTypeOK
<1>3. balance' = [a \in Accounts |-> IF a = Contract THEN balance[a] - Owed(S, Users)
                                     ELSE balance[a] + Owed(S, {a})]
  BY Zenon DEF RefundHoldings
<1>4. \A a \in Accounts : balance'[a] = balance[a]
  BY <1>1, <1>2, <1>3
<1> QED
  BY <1>2, <1>3, <1>4

(* Every refund path preserves the invariant: cancel, expire, cleanup,     *)
(* reclaim and emergency withdrawal are this step for one or several swaps *)
(* and differ in their guards only.                                        *)
LEMMA RefundStep ==
    ASSUME IndInv, NEW S \in SUBSET SaleIds,
           RefundHoldings(S), FailSwaps(S), EscrowFrame,
           \/ UNCHANGED sale
           \/ \E i \in S : /\ sale[i].state = "Pending"
                           /\ swap[i].state \notin TerminalSwap
                           /\ sale' = [sale EXCEPT ![i].state = "Cancelled"]
    PROVE  IndInv' /\ FinalityStep
<1>0. /\ SaleIds' = SaleIds
      /\ UNCHANGED <<clockVars, accessVars, feeVars, nextSale, swapConfig>>
  BY DEF EscrowFrame, SaleIds
<1>1. balance' = balance
  BY RefundMovesNoMoney
<1>2. /\ \A i \in S : swap'[i] = AfterRefund(i)
      /\ \A i \in SaleIds : i \notin S => swap'[i] = swap[i]
      /\ DOMAIN swap' = SaleIds
      /\ swap' = [i \in SaleIds |-> swap'[i]]
  BY Zenon DEF FailSwaps, AfterRefund
<1>3. \A i \in SaleIds : swap'[i] \in Swaps
  BY <1>2, RefundedSwap DEF IndInv, TypeOK, SaleTypeOK
<1>4. /\ sale' \in [SaleIds -> Sales]
      /\ \A i \in SaleIds :
            /\ sale'[i].seller = sale[i].seller
            /\ sale'[i].token = sale[i].token
            /\ sale'[i].price = sale[i].price
            /\ sale'[i].royalty = sale[i].royalty
            /\ sale'[i].share = sale[i].share
            /\ sale'[i].fee = sale[i].fee
            /\ \/ sale'[i].state = sale[i].state
               \/ /\ i \in S
                  /\ sale[i].state = "Pending"
                  /\ sale'[i].state = "Cancelled"
                  /\ swap[i].state \notin TerminalSwap
  <2>1. sale \in [SaleIds -> Sales]
    BY DEF IndInv, TypeOK, SaleTypeOK
  <2>2. CASE UNCHANGED sale
    BY <2>1, <2>2
  <2>3. ASSUME NEW i \in S, sale[i].state = "Pending",
               swap[i].state \notin TerminalSwap,
               sale' = [sale EXCEPT ![i].state = "Cancelled"]
        PROVE  <1>4
    <3>1. sale' = [sale EXCEPT ![i] = [sale[i] EXCEPT !.state = "Cancelled"]]
      BY <2>3, Zenon
    <3>2. [sale[i] EXCEPT !.state = "Cancelled"] \in Sales
      BY <2>1 DEF Sales, SaleStates
    <3> QED
      BY <2>1, <2>3, <3>1, <3>2 DEF Sales
  <2> QED
    BY <2>2, <2>3
<1>5. \A i \in S :
        /\ swap'[i].nft.token = swap[i].nft.token
        /\ swap'[i].nft.holder = swap[i].nft.holder
        /\ swap'[i].nft.deposited
        /\ ~Live(swap'[i].nft)
        /\ swap'[i].pay = swap[i].pay
        /\ swap'[i].state = IF swap[i].state = "Executed" THEN "Executed" ELSE "Failed"
  <2> SUFFICES ASSUME NEW i \in S PROVE <1>5!(i)
    OBVIOUS
  <2>1. swap[i].nft \in NftHoldings /\ swap[i].nft.deposited
    BY DEF IndInv, TypeOK, SaleTypeOK, Swaps, SwapsFrozen, Frozen
  <2> QED
    BY <1>2, <2>1, RefundedSwap, ReleaseNft
<1>6. \A i \in SaleIds : Live(swap'[i].nft) => i \notin S /\ Live(swap[i].nft)
  BY <1>2, <1>5

<1> DEFINE due(t) == {i \in S : Live(swap[i].nft) /\ swap[i].nft.token = t}
<1>7. \A t \in Tokens :
        /\ due(t) = {} => owner'[t] = owner[t]
        /\ due(t) # {} => owner'[t] \in Users /\ owner[t] = Contract
  <2> SUFFICES ASSUME NEW t \in Tokens PROVE <1>7!(t)
    OBVIOUS
  <2>1. owner'[t] = IF due(t) = {} THEN owner[t]
                    ELSE swap[CHOOSE i \in due(t) : TRUE].nft.holder
    BY Zenon DEF RefundHoldings
  <2>2. CASE due(t) # {}
    <3>1. (CHOOSE i \in due(t) : TRUE) \in SaleIds
      BY <2>2
    <3>2. \A i \in SaleIds : swap[i].nft.holder \in Users
      BY DEF IndInv, TypeOK, SaleTypeOK, Swaps, NftHoldings
    <3>3. owner[t] = Contract
      BY <2>2, Zenon DEF RefundHoldings
    <3> QED
      BY <2>1, <2>2, <3>1, <3>2, <3>3, Zenon
  <2> QED
    BY <2>1, <2>2, Zenon
<1>8. owner' \in [Tokens -> Accounts]
  <2> DEFINE back(t) == IF due(t) = {} THEN owner[t]
                        ELSE swap[CHOOSE i \in due(t) : TRUE].nft.holder
  <2>1. owner' = [t \in Tokens |-> back(t)]
    BY Zenon DEF RefundHoldings
  <2> HIDE DEF back
  <2>2. \A t \in Tokens : back(t) \in Accounts
    BY <1>7, <2>1 DEF IndInv, TypeOK, LedgerTypeOK, Accounts
  <2> QED
    BY <2>1, <2>2
<1>9. TypeOK'
  <2>1. LedgerTypeOK'
    BY <1>0, <1>1, <1>8 DEF IndInv, TypeOK, LedgerTypeOK, clockVars
  <2>2. AccessTypeOK'
    BY <1>0 DEF IndInv, TypeOK, AccessTypeOK, accessVars
  <2>3. FeeTypeOK'
    BY <1>0 DEF IndInv, TypeOK, FeeTypeOK, feeVars
  <2>4. SaleTypeOK'
    <3>1. swap' \in [SaleIds -> Swaps]
      BY <1>2, <1>3
    <3> QED
      BY <1>0, <1>4, <3>1 DEF IndInv, TypeOK, SaleTypeOK
  <2> QED
    BY <2>1, <2>2, <2>3, <2>4 DEF TypeOK
<1>10. SwapsFrozen'
  <2> SUFFICES ASSUME NEW i \in SaleIds PROVE Frozen(i)'
    BY <1>0 DEF SwapsFrozen
  <2>1. Frozen(i)
    BY DEF IndInv, SwapsFrozen
  <2> QED
    BY <1>2, <1>4, <1>5, <2>1 DEF Frozen
<1>11. TerminalMeansEmpty'
  <2> SUFFICES ASSUME NEW i \in SaleIds
               PROVE  (swap'[i].state \in TerminalSwap) <=> ~Live(swap'[i].nft)
    BY <1>0 DEF TerminalMeansEmpty
  <2> QED
    BY <1>2, <1>5 DEF IndInv, TerminalMeansEmpty, TerminalSwap
<1>12. SaleAgreesWithSwap'
  <2> SUFFICES ASSUME NEW i \in SaleIds
               PROVE  /\ sale'[i].state = "Executed" <=> swap'[i].state = "Executed"
                      /\ sale'[i].state = "Cancelled" => swap'[i].state = "Failed"
    BY <1>0 DEF SaleAgreesWithSwap
  <2>1. /\ sale[i].state = "Executed" <=> swap[i].state = "Executed"
        /\ sale[i].state = "Cancelled" => swap[i].state = "Failed"
    BY DEF IndInv, SaleAgreesWithSwap
  <2> QED
    BY <1>2, <1>4, <1>5, <2>1 DEF TerminalSwap
<1>13. Custody'
  <2>1. ASSUME NEW i \in SaleIds, NEW j \in SaleIds,
               Live(swap'[i].nft), Live(swap'[j].nft),
               swap'[i].nft.token = swap'[j].nft.token
        PROVE  i = j
    BY <1>2, <1>6, <2>1 DEF IndInv, Custody
  <2>2. ASSUME NEW t \in Tokens
        PROVE  owner'[t] = Contract <=>
                 \E i \in SaleIds : Live(swap'[i].nft) /\ swap'[i].nft.token = t
    <3>1. owner[t] = Contract <=>
            \E i \in SaleIds : Live(swap[i].nft) /\ swap[i].nft.token = t
      BY DEF IndInv, Custody, Claims
    <3>2. CASE due(t) = {}
      <4>1. \A i \in SaleIds : Live(swap[i].nft) /\ swap[i].nft.token = t
                               => i \notin S /\ swap'[i] = swap[i]
        BY <1>2, <3>2
      <4> QED
        BY <1>2, <1>6, <1>7, <3>1, <3>2, <4>1
    <3>3. CASE due(t) # {}
      <4>1. PICK j \in S : Live(swap[j].nft) /\ swap[j].nft.token = t
        BY <3>3
      <4>2. ~ \E i \in SaleIds : Live(swap'[i].nft) /\ swap'[i].nft.token = t
        BY <1>2, <1>6, <4>1 DEF IndInv, Custody
      <4> QED
        BY <1>7, <3>3, <4>2, LedgerAssumption
    <3> QED
      BY <3>2, <3>3
  <2> QED
    BY <1>0, <2>1, <2>2 DEF Custody, Claims
<1>14. BalanceIsFees'
  BY <1>0, <1>1 DEF IndInv, BalanceIsFees, feeVars
<1>15. FinalityStep
  <2> SUFFICES ASSUME NEW i \in SaleIds PROVE FinalityStep!(i)
    BY DEF FinalityStep
  <2>1. sale[i].state # "Pending" => sale'[i] = sale[i]
    BY DEF IndInv, TypeOK, SaleTypeOK
  <2> QED
    BY <1>2, <2>1, RefundedSwap
<1> QED
  BY <1>9, <1>10, <1>11, <1>12, <1>13, <1>14, <1>15 DEF IndInv

-----------------------------------------------------------------------------
(* create_sale: the new swap claims a token its seller held until now,     *)
(* which no other swap can therefore claim.                                *)
LEMMA CreateSaleStep ==
    ASSUME IndInv, NEW s \in Users, NEW t \in Tokens, NEW price \in Prices,
           NEW duration \in Durations, CreateSale(s, t, price, duration)
    PROVE  IndInv' /\ FinalityStep
<1> DEFINE royalty == Percentage(price, Royalty.bps)
           fee == FeeFor(price, s)
           expiresAt == now + duration
           escrowUntil == expiresAt + swapConfig.grace + swapConfig.buffer
           newSale == [seller |-> s, buyer |-> NoUser, token |-> t, price |-> price,
               state |-> "Pending", createdAt |-> now, expiresAt |-> expiresAt,
               creator |-> Royalty.creator, royalty |-> royalty,
               share |-> price - royalty - fee, fee |-> fee]
           newSwap == [nft |-> [holder |-> s, token |-> t,
                        deposited |-> TRUE, released |-> FALSE],
               pay |-> [holder |-> s, amount |-> price,
                        deposited |-> FALSE, released |-> FALSE],
               state |-> "SellerFunded", expiresAt |-> expiresAt,
               expiresAtLedger |-> ledger + duration \div LedgerCloseSeconds,
               escrowUntil |-> escrowUntil]
<1> USE DEF IndInv, TypeOK
<1>1. /\ nextSale \in 1..(MaxSales + 1) /\ nextSale <= MaxSales
      /\ nextSale' = nextSale + 1 /\ nextSale' \in 1..(MaxSales + 1)
      /\ MaxSales \in Nat
      /\ SaleIds' = 1..nextSale /\ SaleIds = 1..(nextSale - 1)
      /\ \A i \in 1..nextSale : i # nextSale => i \in SaleIds
      /\ \A i \in SaleIds : i \in 1..nextSale /\ i < nextSale /\ i # nextSale
  BY SaleAssumption DEF CreateSale, SaleTypeOK, SaleIds
<1>2. /\ \A i \in SaleIds : sale'[i] = sale[i] /\ swap'[i] = swap[i]
      /\ sale'[nextSale] = newSale /\ swap'[nextSale] = newSwap
      /\ sale' = [i \in 1..nextSale |-> IF i < nextSale THEN sale[i] ELSE newSale]
      /\ swap' = [i \in 1..nextSale |-> IF i < nextSale THEN swap[i] ELSE newSwap]
  <2>1. sale' = [i \in 1..nextSale |-> IF i < nextSale THEN sale[i] ELSE newSale]
    BY Zenon DEF CreateSale
  <2>2. swap' = [i \in 1..nextSale |-> IF i < nextSale THEN swap[i] ELSE newSwap]
    BY Zenon DEF CreateSale
  <2> HIDE DEF newSale, newSwap
  <2> QED
    BY <1>1, <2>1, <2>2
<1>3. /\ price \in Nat /\ duration \in Nat
      /\ royalty \in Nat
      /\ fee \in Nat
      /\ expiresAt \in Nat /\ escrowUntil \in Nat
      /\ duration \div LedgerCloseSeconds \in Nat
  <2>1. price \in Nat /\ duration \in Nat /\ LedgerCloseSeconds \in Nat \ {0}
    BY SaleAssumption
  <2>2. royalty \in Nat
    BY <2>1, RoyaltyNat, Zenon
  <2>3. fee \in Int
    BY <2>1, FeeForInt, Zenon
  <2>4. fee >= 0
    BY Zenon DEF CreateSale
  <2>5. expiresAt \in Nat /\ escrowUntil \in Nat
    BY <2>1 DEF LedgerTypeOK, SaleTypeOK, SwapConfigType
  <2>6. duration \div LedgerCloseSeconds \in Nat
    BY <2>1
  <2> HIDE DEF fee
  <2> QED
    BY <2>1, <2>2, <2>3, <2>4, <2>5, <2>6
<1>4. newSale \in Sales
  <2> HIDE DEF royalty, fee, expiresAt
  <2> QED
    BY <1>3, FeeAssumption DEF Sales, SaleStates, LedgerTypeOK
<1>5. newSwap \in Swaps
  <2> HIDE DEF expiresAt, escrowUntil
  <2> QED
    BY <1>3 DEF Swaps, SwapStates, NftHoldings, PayHoldings, LedgerTypeOK
<1>6. /\ newSale.seller = s /\ newSale.token = t /\ newSale.price = price
      /\ newSale.state = "Pending"
      /\ newSale.royalty + newSale.share + newSale.fee = price
      /\ newSwap.nft.holder = s /\ newSwap.nft.token = t
      /\ newSwap.nft.deposited = TRUE /\ newSwap.nft.released = FALSE
      /\ newSwap.pay.amount = price /\ newSwap.pay.deposited = FALSE
      /\ newSwap.state = "SellerFunded"
  <2> HIDE DEF royalty, fee, expiresAt, escrowUntil
  <2> QED
    BY <1>3
<1> HIDE DEF royalty, fee, expiresAt, escrowUntil, newSale, newSwap
<1>7. /\ UNCHANGED <<swapConfig, balance, feeConfig, accumulated, volume>>
      /\ UNCHANGED <<now, ledger, pause, scheduled, allowed, rateConfig>>
  BY Zenon DEF CreateSale, feeVars, adminVars
<1>8. /\ owner[t] = s /\ owner' = [owner EXCEPT ![t] = Contract]
      /\ owner' \in [Tokens -> Accounts]
  <2>1. MoveNft(t, s, Contract)
    BY Zenon DEF CreateSale
  <2> QED
    BY <2>1, MoveNftType DEF MoveNft, Accounts
<1>9. TypeOK'
  <2>1. LedgerTypeOK'
    BY <1>7, <1>8 DEF LedgerTypeOK
  <2>2. AccessTypeOK'
    <3>1. BlockChecked(s) /\ RateCounted(s, "create_sale")
      BY Zenon DEF CreateSale
    <3>2. now \in Nat
      BY DEF LedgerTypeOK
    <3> QED
      BY <1>7, <3>1, <3>2, BlockCheckedType, RateCountedType DEF AccessTypeOK
  <2>3. FeeTypeOK'
    BY <1>7 DEF FeeTypeOK
  <2>4. SaleTypeOK'
    <3>1. sale' \in [1..nextSale -> Sales] /\ swap' \in [1..nextSale -> Swaps]
      BY <1>1, <1>2, <1>4, <1>5 DEF SaleTypeOK
    <3> QED
      BY <1>1, <1>7, <3>1 DEF SaleTypeOK
  <2> QED
    BY <2>1, <2>2, <2>3, <2>4
<1>10. SwapsFrozen'
  <2> SUFFICES ASSUME NEW i \in 1..nextSale PROVE Frozen(i)'
    BY <1>1 DEF SwapsFrozen
  <2>1. CASE i = nextSale
    BY <2>1, <1>2, <1>6 DEF Frozen
  <2>2. CASE i # nextSale
    BY <2>2, <1>1, <1>2 DEF SwapsFrozen, Frozen
  <2> QED
    BY <2>1, <2>2
<1>11. TerminalMeansEmpty' /\ SaleAgreesWithSwap'
  <2> SUFFICES ASSUME NEW i \in 1..nextSale
               PROVE  /\ swap'[i].state \in TerminalSwap <=> ~Live(swap'[i].nft)
                      /\ sale'[i].state = "Executed" <=> swap'[i].state = "Executed"
                      /\ sale'[i].state = "Cancelled" => swap'[i].state = "Failed"
    BY <1>1 DEF TerminalMeansEmpty, SaleAgreesWithSwap
  <2>1. CASE i = nextSale
    BY <2>1, <1>2, <1>6 DEF TerminalSwap, Live
  <2>2. CASE i # nextSale
    BY <2>2, <1>1, <1>2 DEF TerminalMeansEmpty, SaleAgreesWithSwap
  <2> QED
    BY <2>1, <2>2
<1>12. Custody'
  <2>1. s # Contract
    BY LedgerAssumption
  <2>2. \A i \in SaleIds : ~(Live(swap[i].nft) /\ swap[i].nft.token = t)
    BY <1>8, <2>1 DEF Custody, Claims
  <2>3. Live(swap'[nextSale].nft) /\ swap'[nextSale].nft.token = t
    BY <1>2, <1>6 DEF Live
  <2>4. ASSUME NEW i \in 1..nextSale, NEW j \in 1..nextSale,
               Live(swap'[i].nft), Live(swap'[j].nft),
               swap'[i].nft.token = swap'[j].nft.token
        PROVE  i = j
    <3>1. CASE i # nextSale /\ j # nextSale
      BY <3>1, <2>4, <1>1, <1>2 DEF Custody
    <3>2. CASE i = nextSale \/ j = nextSale
      BY <3>2, <2>2, <2>3, <2>4, <1>1, <1>2
    <3> QED
      BY <3>1, <3>2
  <2>5. ASSUME NEW u \in Tokens
        PROVE  owner'[u] = Contract <=>
                 \E i \in 1..nextSale : Live(swap'[i].nft) /\ swap'[i].nft.token = u
    <3>1. CASE u = t
      BY <3>1, <1>1, <1>8, <2>3 DEF LedgerTypeOK
    <3>2. CASE u # t
      <4>1. owner'[u] = owner[u]
        BY <3>2, <1>8 DEF LedgerTypeOK
      <4>2. owner[u] = Contract <=>
              \E i \in SaleIds : Live(swap[i].nft) /\ swap[i].nft.token = u
        BY DEF Custody, Claims
      <4> QED
        BY <3>2, <4>1, <4>2, <2>3, <1>1, <1>2
    <3> QED
      BY <3>1, <3>2
  <2> QED
    BY <1>1, <2>4, <2>5 DEF Custody, Claims
<1>13. BalanceIsFees'
  BY <1>7 DEF BalanceIsFees
<1>14. FinalityStep
  BY <1>2 DEF FinalityStep
<1> QED
  BY <1>9, <1>10, <1>11, <1>12, <1>13, <1>14

-----------------------------------------------------------------------------
(* execute_sale: what the buyer pays in is what creator and seller are     *)
(* paid plus the fee that is booked; the NFT leaves with the one claim on  *)
(* it.                                                                     *)
LEMMA ExecuteSaleStep ==
    ASSUME IndInv, NEW i \in 1..MaxSales, NEW b \in Users, ExecuteSale(i, b)
    PROVE  IndInv' /\ FinalityStep
<1> USE DEF IndInv, TypeOK
<1> DEFINE x == sale[i]
           w == swap[i]
           x2 == [x EXCEPT !.buyer = b, !.state = "Executed"]
           w2 == [w EXCEPT !.nft = [w.nft EXCEPT !.released = TRUE],
                           !.pay = [w.pay EXCEPT !.holder = b, !.released = TRUE],
                           !.state = "Executed"]
<1>1. /\ i \in SaleIds /\ x \in Sales /\ w \in Swaps
      /\ x.state = "Pending" /\ w.state = "SellerFunded"
      /\ SaleIds' = SaleIds
      /\ UNCHANGED <<now, ledger, pause, scheduled, allowed, rateConfig, rate>>
      /\ UNCHANGED <<feeConfig, nextSale, swapConfig>>
  BY DEF ExecuteSale, Executable, SaleTypeOK, SaleIds, adminVars
<1>2. /\ Frozen(i) /\ Live(w.nft) /\ w.nft.token \in Tokens
  BY <1>1 DEF SwapsFrozen, TerminalMeansEmpty, TerminalSwap, Swaps, NftHoldings
<1>3. x2 \in Sales /\ w2 \in Swaps
  BY <1>1 DEF Sales, SaleStates, Swaps, SwapStates, NftHoldings, PayHoldings
<1>4. /\ sale' = [sale EXCEPT ![i] = x2]
      /\ swap' = [swap EXCEPT ![i] = w2]
  <2>1. sale' = [sale EXCEPT ![i].buyer = b, ![i].state = "Executed"]
    BY Zenon DEF ExecuteSale
  <2>2. swap' = [swap EXCEPT ![i].nft.released = TRUE,
                            ![i].pay.holder = b, ![i].pay.released = TRUE,
                            ![i].state = "Executed"]
    BY Zenon DEF ExecuteSale
  <2>3. sale \in [SaleIds -> Sales] /\ swap \in [SaleIds -> Swaps]
    BY DEF SaleTypeOK
  <2>4. sale' = [sale EXCEPT ![i] = x2]
    BY <1>1, <2>1, <2>3
  <2>5. swap' = [swap EXCEPT ![i] = w2]
    BY <1>1, <2>2, <2>3
  <2> QED
    BY <2>4, <2>5
<1>5. /\ x2.seller = x.seller /\ x2.token = x.token /\ x2.price = x.price
      /\ x2.royalty = x.royalty /\ x2.share = x.share /\ x2.fee = x.fee
      /\ x2.state = "Executed"
      /\ w2.nft.token = w.nft.token /\ w2.nft.holder = w.nft.holder
      /\ w2.nft.deposited = w.nft.deposited /\ w2.nft.released = TRUE
      /\ w2.pay.deposited = w.pay.deposited /\ w2.pay.amount = w.pay.amount
      /\ w2.state = "Executed"
      /\ w2.expiresAt = w.expiresAt /\ w2.escrowUntil = w.escrowUntil
  BY <1>1 DEF Sales, Swaps, NftHoldings, PayHoldings
<1>6. /\ x.fee \in Nat /\ x.royalty \in Nat /\ x.share \in Int /\ x.price \in Nat
      /\ x.creator \in Users /\ x.seller \in Users
      /\ w.pay.amount = x.price /\ x.royalty + x.share + x.fee = x.price
      /\ w.nft.token = x.token
  BY <1>1, <1>2 DEF Sales, Frozen
<1> HIDE DEF x, w, x2, w2
<1>7. /\ \A j \in SaleIds : j # i => sale'[j] = sale[j] /\ swap'[j] = swap[j]
      /\ sale'[i] = x2 /\ swap'[i] = w2
      /\ sale' \in [SaleIds -> Sales] /\ swap' \in [SaleIds -> Swaps]
  BY <1>1, <1>3, <1>4 DEF SaleTypeOK
<1>8. /\ owner[w.nft.token] = Contract
      /\ owner' = [owner EXCEPT ![w.nft.token] = b]
      /\ owner' \in [Tokens -> Accounts]
  <2>1. MoveNft(w.nft.token, Contract, b)
    BY Zenon DEF ExecuteSale, w
  <2> QED
    BY <1>2, <2>1, MoveNftType DEF MoveNft, Accounts
<1>9. /\ balance' \in [Accounts -> Nat]
      /\ balance'[Contract] = balance[Contract] + x.fee
  <2>1. PayInThenOut(b, w.pay.amount, x.creator, x.royalty, x.seller, x.share)
    BY Zenon DEF ExecuteSale, x, w
  <2>2. balance[Contract] \in Nat
    BY DEF LedgerTypeOK, Accounts
  <2>3. /\ balance' \in [Accounts -> Nat]
        /\ balance'[Contract] = balance[Contract] + w.pay.amount - (x.royalty + x.share)
    BY <1>6, <2>1, PayInThenOutType
  <2> QED
    BY <1>6, <2>2, <2>3
<1>10. /\ accumulated' = accumulated + x.fee
       /\ accumulated' \in Nat /\ volume' \in [Users -> Nat]
  <2>1. CollectFee(x.fee, b)
    BY Zenon DEF ExecuteSale, x
  <2> QED
    BY <1>6, <2>1, CollectFeeType DEF CollectFee
<1>11. TypeOK'
  <2>1. LedgerTypeOK'
    BY <1>1, <1>8, <1>9 DEF LedgerTypeOK
  <2>2. AccessTypeOK'
    <3>1. BlockChecked(b)
      BY Zenon DEF ExecuteSale
    <3> QED
      BY <1>1, <3>1, BlockCheckedType DEF AccessTypeOK
  <2>3. FeeTypeOK'
    BY <1>1, <1>10 DEF FeeTypeOK
  <2>4. SaleTypeOK'
    BY <1>1, <1>7 DEF SaleTypeOK
  <2> QED
    BY <2>1, <2>2, <2>3, <2>4
<1>12. SwapsFrozen'
  <2> SUFFICES ASSUME NEW j \in SaleIds PROVE Frozen(j)'
    BY <1>1 DEF SwapsFrozen
  <2>1. CASE j = i
    BY <2>1, <1>2, <1>5, <1>7 DEF Frozen, x, w
  <2>2. CASE j # i
    BY <2>2, <1>7 DEF SwapsFrozen, Frozen
  <2> QED
    BY <2>1, <2>2
<1>13. TerminalMeansEmpty' /\ SaleAgreesWithSwap'
  <2> SUFFICES ASSUME NEW j \in SaleIds
               PROVE  /\ swap'[j].state \in TerminalSwap <=> ~Live(swap'[j].nft)
                      /\ sale'[j].state = "Executed" <=> swap'[j].state = "Executed"
                      /\ sale'[j].state = "Cancelled" => swap'[j].state = "Failed"
    BY <1>1 DEF TerminalMeansEmpty, SaleAgreesWithSwap
  <2>1. CASE j = i
    BY <2>1, <1>5, <1>7 DEF TerminalSwap, Live
  <2>2. CASE j # i
    BY <2>2, <1>7 DEF TerminalMeansEmpty, SaleAgreesWithSwap
  <2> QED
    BY <2>1, <2>2
<1>14. Custody'
  <2>1. \A j \in SaleIds : Live(swap'[j].nft) => j # i /\ Live(swap[j].nft)
    BY <1>5, <1>7 DEF Live
  <2>2. ASSUME NEW j \in SaleIds, NEW k \in SaleIds,
               Live(swap'[j].nft), Live(swap'[k].nft),
               swap'[j].nft.token = swap'[k].nft.token
        PROVE  j = k
    BY <2>1, <2>2, <1>7 DEF Custody
  <2>3. ASSUME NEW u \in Tokens
        PROVE  owner'[u] = Contract <=>
                 \E j \in SaleIds : Live(swap'[j].nft) /\ swap'[j].nft.token = u
    <3>1. CASE u = w.nft.token
      <4>1. owner'[u] # Contract
        BY <3>1, <1>8, LedgerAssumption DEF LedgerTypeOK
      <4>2. \A j \in SaleIds : Live(swap[j].nft) /\ swap[j].nft.token = u => j = i
        BY <3>1, <1>1, <1>2 DEF Custody, w
      <4> QED
        BY <4>1, <4>2, <2>1, <1>7
    <3>2. CASE u # w.nft.token
      <4>1. owner'[u] = owner[u]
        BY <3>2, <1>8 DEF LedgerTypeOK
      <4>2. owner[u] = Contract <=>
              \E j \in SaleIds : Live(swap[j].nft) /\ swap[j].nft.token = u
        BY DEF Custody, Claims
      <4>3. \A j \in SaleIds : swap[j].nft.token = u => j # i
        BY <3>2 DEF w
      <4> QED
        BY <4>1, <4>2, <4>3, <2>1, <1>7
    <3> QED
      BY <3>1, <3>2
  <2> QED
    <3>1. SaleIds' = SaleIds
      BY <1>1
    <3> QED
      BY <2>2, <2>3, <3>1 DEF Custody, Claims
<1>15. BalanceIsFees'
  BY <1>9, <1>10 DEF BalanceIsFees
<1>16. FinalityStep
  BY <1>1, <1>5, <1>7 DEF FinalityStep, TerminalSwap, x, w
<1> QED
  BY <1>11, <1>12, <1>13, <1>14, <1>15, <1>16

-----------------------------------------------------------------------------
(* The invariant holds initially, when the contract has nothing. *)
LEMMA InitInd == Init => IndInv
<1> SUFFICES ASSUME Init PROVE IndInv
  OBVIOUS
<1> USE DEF Init
<1>1. SaleIds = {}
  BY DEF SaleInit, SaleIds
<1>2. LedgerTypeOK
  BY LedgerAssumption DEF LedgerInit, LedgerTypeOK, Accounts
<1>3. AccessTypeOK
  BY AccessAssumption DEF AccessInit, AccessTypeOK, NotPaused, NotScheduled,
                          NotBlocked, NoCalls
<1>4. FeeTypeOK
  BY FeeAssumption DEF FeeInit, FeeTypeOK
<1>5. SaleTypeOK
  BY <1>1, SaleAssumption DEF SaleInit, SaleTypeOK
<1>6. \A t \in Tokens : owner[t] # Contract
  BY LedgerAssumption DEF LedgerInit
<1>7. BalanceIsFees
  BY DEF LedgerInit, FeeInit, BalanceIsFees, Accounts
<1>8. SwapsFrozen /\ TerminalMeansEmpty /\ SaleAgreesWithSwap
  BY <1>1 DEF SwapsFrozen, TerminalMeansEmpty, SaleAgreesWithSwap
<1>9. Custody
  BY <1>1, <1>6 DEF Custody, Claims
<1> QED
  BY <1>2, <1>3, <1>4, <1>5, <1>7, <1>8, <1>9 DEF IndInv, TypeOK

(* Steps that change neither sales, swaps nor fees booked, and move only   *)
(* tokens the contract does not hold, leave all parts but the types to     *)
(* themselves.                                                             *)
LEMMA SalesUntouched ==
    ASSUME IndInv, TypeOK', UNCHANGED <<nextSale, sale, swap>>,
           balance'[Contract] - accumulated' = balance[Contract] - accumulated,
           \A t \in Tokens : owner'[t] = Contract <=> owner[t] = Contract
    PROVE  IndInv' /\ FinalityStep
<1>1. SaleIds' = SaleIds
  BY DEF SaleIds
<1>2. SwapsFrozen' /\ TerminalMeansEmpty' /\ SaleAgreesWithSwap'
  BY <1>1 DEF IndInv, SwapsFrozen, Frozen, TerminalMeansEmpty, SaleAgreesWithSwap
<1>3. Custody'
  BY <1>1 DEF IndInv, Custody, Claims
<1>4. BalanceIsFees'
  <2>1. /\ balance[Contract] \in Nat /\ accumulated \in Nat
        /\ balance'[Contract] \in Nat /\ accumulated' \in Nat
    BY DEF IndInv, TypeOK, LedgerTypeOK, FeeTypeOK, Accounts
  <2> QED
    BY <2>1 DEF IndInv, BalanceIsFees
<1>5. FinalityStep
  BY DEF FinalityStep
<1> QED
  BY <1>2, <1>3, <1>4, <1>5 DEF IndInv

(* Ledgers close and owners trade outside the marketplace. *)
LEMMA LedgerKeeps ==
    ASSUME IndInv, LedgerStep
    PROVE  IndInv' /\ FinalityStep
<1> USE DEF LedgerStep
<1>1. TypeOK'
  <2>1. LedgerTypeOK'
    BY LedgerNextType DEF IndInv, TypeOK
  <2> QED
    BY <2>1 DEF IndInv, TypeOK, AccessTypeOK, FeeTypeOK, SaleTypeOK, SaleIds,
                accessVars, feeVars, saleVars
<1>2. balance' = balance
  BY DEF LedgerNext, CloseLedger, TransferOutside, assetVars
<1>3. \A t \in Tokens : owner'[t] = Contract <=> owner[t] = Contract
  <2>1. CASE CloseLedger
    BY <2>1 DEF CloseLedger, assetVars
  <2>2. ASSUME NEW t \in TradedOutside, NEW u \in Users, NEW v \in Users,
               TransferOutside(t, u, v)
        PROVE  <1>3
    BY <2>2, LedgerAssumption DEF TransferOutside, MoveNft, IndInv, TypeOK, LedgerTypeOK
  <2> QED
    BY <2>1, <2>2 DEF LedgerNext
<1> QED
  BY <1>1, <1>2, <1>3, SalesUntouched DEF saleVars, feeVars

(* Admins pause, block, delist and set limits. *)
LEMMA AccessKeeps ==
    ASSUME IndInv, AccessStep
    PROVE  IndInv' /\ FinalityStep
<1> USE DEF AccessStep
<1>1. TypeOK'
  <2>1. AccessTypeOK'
    BY AccessNextType DEF IndInv, TypeOK, LedgerTypeOK
  <2> QED
    BY <2>1 DEF IndInv, TypeOK, LedgerTypeOK, FeeTypeOK, SaleTypeOK, SaleIds,
                ledgerVars, feeVars, saleVars
<1> QED
  BY <1>1, SalesUntouched DEF saleVars, feeVars, ledgerVars

(* Admins change the fee configuration and withdraw exactly what is booked. *)
LEMMA FeeKeeps ==
    ASSUME IndInv, FeeStep
    PROVE  IndInv' /\ FinalityStep
<1> USE DEF FeeStep
<1>1. TypeOK'
  <2>1. FeeTypeOK' /\ owner' \in [Tokens -> Accounts] /\ balance' \in [Accounts -> Nat]
    BY FeeNextType DEF IndInv, TypeOK
  <2> QED
    BY <2>1 DEF IndInv, TypeOK, LedgerTypeOK, AccessTypeOK, SaleTypeOK, SaleIds,
                clockVars, accessVars, saleVars
<1>2. owner' = owner
  BY DEF FeeNext, UpdateFeeConfig, WithdrawPlatformFees, assetVars
<1>3. balance'[Contract] - accumulated' = balance[Contract] - accumulated
  <2>1. ASSUME NEW c \in FeeConfigs, UpdateFeeConfig(c) PROVE <1>3
    BY <2>1 DEF UpdateFeeConfig, assetVars
  <2>2. ASSUME NEW to \in Users, WithdrawPlatformFees(to) PROVE <1>3
    <3>1. accumulated \in Nat /\ balance[Contract] \in Nat
      BY DEF IndInv, TypeOK, FeeTypeOK, LedgerTypeOK, Accounts
    <3>2. balance'[Contract] = balance[Contract] - (accumulated + 0)
      BY <2>2, <3>1, PayOutType DEF WithdrawPlatformFees, IndInv, TypeOK
    <3> QED
      BY <2>2, <3>1, <3>2 DEF WithdrawPlatformFees
  <2> QED
    BY <2>1, <2>2 DEF FeeNext
<1> QED
  BY <1>1, <1>2, <1>3, SalesUntouched DEF saleVars

(* Every entrypoint of the sale escrow. *)
LEMMA SaleKeeps ==
    ASSUME IndInv, SaleNext
    PROVE  IndInv' /\ FinalityStep
<1>1. ASSUME NEW s \in Users, NEW t \in Tokens, NEW p \in Prices,
             NEW d \in Durations, CreateSale(s, t, p, d)
      PROVE  IndInv' /\ FinalityStep
  BY <1>1, CreateSaleStep
<1>2. ASSUME NEW i \in 1..MaxSales, NEW b \in Users, ExecuteSale(i, b)
      PROVE  IndInv' /\ FinalityStep
  BY <1>2, ExecuteSaleStep
<1>3. ASSUME NEW i \in 1..MaxSales, CancelSale(i)
      PROVE  IndInv' /\ FinalityStep
  <2>1. {i} \in SUBSET SaleIds
    BY <1>3 DEF CancelSale
  <2> QED
    BY <1>3, <2>1, RefundStep DEF CancelSale
<1>4. ASSUME NEW i \in 1..MaxSales,
             ExpireSwap(i) \/ ReclaimExpiredEscrow(i) \/ EmergencyWithdraw(i)
      PROVE  IndInv' /\ FinalityStep
  <2>1. {i} \in SUBSET SaleIds
    BY <1>4 DEF ExpireSwap, ReclaimExpiredEscrow, EmergencyWithdraw
  <2>2. RefundHoldings({i}) /\ FailSwaps({i}) /\ EscrowFrame /\ UNCHANGED sale
    BY <1>4 DEF ExpireSwap, ReclaimExpiredEscrow, EmergencyWithdraw
  <2> QED
    BY <2>1, <2>2, RefundStep
<1>5. ASSUME NEW n \in CleanupLimits, CleanupExpiredSwaps(n)
      PROVE  IndInv' /\ FinalityStep
  <2>1. PICK S \in SUBSET SaleIds :
            RefundHoldings(S) /\ FailSwaps(S) /\ EscrowFrame /\ UNCHANGED sale
    BY <1>5 DEF CleanupExpiredSwaps
  <2> QED
    BY <2>1, RefundStep
<1>6. ASSUME NEW c \in SwapConfigs, UpdateSwapTimeoutConfig(c)
      PROVE  IndInv' /\ FinalityStep
  <2>1. TypeOK'
    BY <1>6, SaleAssumption DEF UpdateSwapTimeoutConfig, IndInv, TypeOK, LedgerTypeOK,
         AccessTypeOK, FeeTypeOK, SaleTypeOK, SaleIds, clockVars, assetVars,
         accessVars, feeVars
  <2> QED
    BY <1>6, <2>1, SalesUntouched DEF UpdateSwapTimeoutConfig, assetVars, feeVars
<1> QED
  BY <1>1, <1>2, <1>3, <1>4, <1>5, <1>6 DEF SaleNext

LEMMA Inductive == IndInv /\ [Next]_vars => IndInv' /\ FinalityStep
<1> SUFFICES ASSUME IndInv, [Next]_vars PROVE IndInv' /\ FinalityStep
  OBVIOUS
<1>1. CASE UNCHANGED vars
  <2>1. TypeOK'
    BY <1>1 DEF vars, ledgerVars, accessVars, feeVars, saleVars, IndInv, TypeOK,
                LedgerTypeOK, AccessTypeOK, FeeTypeOK, SaleTypeOK, SaleIds
  <2> QED
    BY <1>1, <2>1, SalesUntouched DEF vars, ledgerVars, feeVars, saleVars
<1> QED
  BY <1>1, SaleKeeps, LedgerKeeps, AccessKeeps, FeeKeeps DEF Next

-----------------------------------------------------------------------------
(* The inductive invariant holds in every state the sale market reaches. *)
THEOREM IndInvariant == Spec => []IndInv
BY InitInd, Inductive, PTL DEF Spec

(* Every variable keeps its type: balances and booked fees never become    *)
(* negative, whatever split execute_sale pays out and whatever is          *)
(* withdrawn.                                                              *)
THEOREM TypeCorrect == Spec => []TypeOK
<1>1. IndInv => TypeOK
  BY DEF IndInv
<1> QED
  BY <1>1, IndInvariant, PTL

(* The contract holds an NFT exactly when one swap claims it: whatever the *)
(* refund paths of atomic_swap.rs do, and in which order, no escrow is     *)
(* paid out of another and none is left behind.                            *)
THEOREM CustodyHolds == Spec => []Custody
<1>1. IndInv => Custody
  BY DEF IndInv
<1> QED
  BY <1>1, IndInvariant, PTL

(* A swap is Executed or Failed exactly when its escrow is empty, and sale *)
(* and swap agree on how a sale ended, although the expiry, reclaim and    *)
(* emergency paths write the swap only.                                    *)
THEOREM RecordsAgree == Spec => []EndingsAgree
<1>1. IndInv => EndingsAgree
  BY DEF IndInv, EndingsAgree
<1> QED
  BY <1>1, IndInvariant, PTL

(* The contract's balance is the fees it has booked, to the unit, for      *)
(* every fee configuration, price and royalty.                             *)
THEOREM BooksBalance == Spec => []BalanceIsFees
<1>1. IndInv => BalanceIsFees
  BY DEF IndInv
<1> QED
  BY <1>1, IndInvariant, PTL

(* Outcomes and deadlines are final: reclaim_expired_escrow and            *)
(* emergency_withdraw, which do not look at the swap's state, never change *)
(* a swap that has ended.                                                  *)
THEOREM OutcomesAreFinal == Spec => Finality
<1>1. IndInv /\ [Next]_vars => [FinalityStep]_vars
  BY Inductive
<1> QED
  BY <1>1, IndInvariant, PTL DEF Spec, Finality

-----------------------------------------------------------------------------
(* Deadlines: the sale and its swap share one, the backstop is not before  *)
(* it, and a scheduled pause lies at least the minimum delay after its     *)
(* announcement.                                                           *)
DeadlinesAgree ==
    \A i \in SaleIds : /\ sale[i].expiresAt = swap[i].expiresAt
                       /\ swap[i].escrowUntil >= swap[i].expiresAt

PauseAnnounced ==
    scheduled.active => scheduled.at >= scheduled.since + MinPauseDelay

(* No refund path touches a deadline. *)
LEMMA RefundKeepsDeadlines ==
    ASSUME IndInv, DeadlinesAgree, NEW S \in SUBSET SaleIds,
           FailSwaps(S), UNCHANGED nextSale,
           UNCHANGED sale \/ \E i \in S : sale' = [sale EXCEPT ![i].state = "Cancelled"]
    PROVE  DeadlinesAgree'
<1> SUFFICES ASSUME NEW i \in SaleIds
             PROVE  /\ sale'[i].expiresAt = swap'[i].expiresAt
                    /\ swap'[i].escrowUntil >= swap'[i].expiresAt
  BY DEF DeadlinesAgree, SaleIds
<1>1. sale'[i].expiresAt = sale[i].expiresAt
  BY DEF IndInv, TypeOK, SaleTypeOK, Sales
<1>2. swap'[i] = IF i \in S THEN AfterRefund(i) ELSE swap[i]
  BY Zenon DEF FailSwaps, AfterRefund
<1>3. /\ swap'[i].expiresAt = swap[i].expiresAt
      /\ swap'[i].escrowUntil = swap[i].escrowUntil
  BY <1>2, RefundedSwap
<1> QED
  BY <1>1, <1>3 DEF DeadlinesAgree

TimeInv == DeadlinesAgree /\ PauseAnnounced /\ ValidSwapConfig(swapConfig)

LEMMA InitTime == Init => TimeInv
BY SaleAssumption
   DEF Init, SaleInit, AccessInit, NotScheduled, SaleIds, TimeInv, DeadlinesAgree,
       PauseAnnounced

(* Every entrypoint of the sale escrow keeps the deadlines together. *)
LEMMA SaleKeepsDeadlines ==
    ASSUME IndInv, DeadlinesAgree, SaleNext
    PROVE  DeadlinesAgree'
<1> USE DEF DeadlinesAgree
<1>1. ASSUME NEW s \in Users, NEW t \in Tokens, NEW p \in Prices,
             NEW d \in Durations, CreateSale(s, t, p, d)
      PROVE  DeadlinesAgree'
  <2> DEFINE x == sale'[nextSale]
             w == swap'[nextSale]
             expiresAt == now + d
  <2>1. /\ nextSale \in Nat /\ nextSale' = nextSale + 1 /\ now \in Nat /\ d \in Nat
        /\ swapConfig.grace \in Nat /\ swapConfig.buffer \in Nat
    BY <1>1, SaleAssumption DEF CreateSale, IndInv, TypeOK, SaleTypeOK, LedgerTypeOK,
                                SwapConfigType
  <2>2. /\ x.expiresAt = expiresAt /\ w.expiresAt = expiresAt
        /\ w.escrowUntil = expiresAt + swapConfig.grace + swapConfig.buffer
    BY <1>1, <2>1 DEF CreateSale, IndInv, TypeOK, SaleTypeOK
  <2>3. \A i \in 1..nextSale : i # nextSale => i \in SaleIds
    BY <2>1 DEF SaleIds
  <2>4. \A i \in SaleIds : sale'[i] = sale[i] /\ swap'[i] = swap[i]
    BY <1>1, <2>1 DEF CreateSale, SaleIds
  <2>5. SaleIds' = 1..nextSale
    BY <2>1 DEF SaleIds
  <2>6. w.escrowUntil >= expiresAt
    BY <2>1, <2>2
  <2> QED
    BY <2>2, <2>3, <2>4, <2>5, <2>6
<1>2. ASSUME NEW i \in 1..MaxSales, NEW b \in Users, ExecuteSale(i, b)
      PROVE  DeadlinesAgree'
  <2>1. SaleIds' = SaleIds /\ i \in SaleIds
    BY <1>2 DEF ExecuteSale, SaleIds
  <2>2. ASSUME NEW j \in SaleIds
        PROVE  /\ sale'[j].expiresAt = sale[j].expiresAt
               /\ swap'[j].expiresAt = swap[j].expiresAt
               /\ swap'[j].escrowUntil = swap[j].escrowUntil
    BY <1>2, <2>1 DEF ExecuteSale, IndInv, TypeOK, SaleTypeOK, Sales, Swaps
  <2> QED
    BY <2>1, <2>2
<1>3. ASSUME NEW i \in 1..MaxSales, CancelSale(i) PROVE DeadlinesAgree'
  <2>1. {i} \in SUBSET SaleIds /\ nextSale' = nextSale
    BY <1>3 DEF CancelSale, EscrowFrame
  <2> QED
    BY <1>3, <2>1, RefundKeepsDeadlines DEF CancelSale
<1>4. ASSUME NEW i \in 1..MaxSales,
             ExpireSwap(i) \/ ReclaimExpiredEscrow(i) \/ EmergencyWithdraw(i)
      PROVE  DeadlinesAgree'
  <2>1. {i} \in SUBSET SaleIds /\ FailSwaps({i}) /\ UNCHANGED <<sale, nextSale>>
    BY <1>4 DEF ExpireSwap, ReclaimExpiredEscrow, EmergencyWithdraw, EscrowFrame
  <2> QED
    BY <2>1, RefundKeepsDeadlines
<1>5. ASSUME NEW n \in CleanupLimits, CleanupExpiredSwaps(n) PROVE DeadlinesAgree'
  <2>1. PICK S \in SUBSET SaleIds : FailSwaps(S) /\ UNCHANGED <<sale, nextSale>>
    BY <1>5 DEF CleanupExpiredSwaps, EscrowFrame
  <2> QED
    BY <2>1, RefundKeepsDeadlines
<1>6. ASSUME NEW c \in SwapConfigs, UpdateSwapTimeoutConfig(c) PROVE DeadlinesAgree'
  BY <1>6 DEF UpdateSwapTimeoutConfig, SaleIds
<1> QED
  BY <1>1, <1>2, <1>3, <1>4, <1>5, <1>6 DEF SaleNext

(* No entrypoint of the sale escrow touches pause or its schedule. *)
LEMMA SaleKeepsPause ==
    ASSUME SaleNext
    PROVE  UNCHANGED <<pause, scheduled>>
<1>1. ASSUME NEW s \in Users, NEW t \in Tokens, NEW p \in Prices,
             NEW d \in Durations, CreateSale(s, t, p, d)
      PROVE  UNCHANGED <<pause, scheduled>>
  BY <1>1 DEF CreateSale, adminVars
<1>2. ASSUME NEW i \in 1..MaxSales, NEW b \in Users, ExecuteSale(i, b)
      PROVE  UNCHANGED <<pause, scheduled>>
  BY <1>2 DEF ExecuteSale, adminVars
<1>3. ASSUME EscrowFrame PROVE UNCHANGED <<pause, scheduled>>
  BY <1>3 DEF EscrowFrame, accessVars
<1>4. ASSUME NEW i \in 1..MaxSales,
             CancelSale(i) \/ ExpireSwap(i) \/ ReclaimExpiredEscrow(i) \/ EmergencyWithdraw(i)
      PROVE  EscrowFrame
  BY <1>4 DEF CancelSale, ExpireSwap, ReclaimExpiredEscrow, EmergencyWithdraw
<1>5. ASSUME NEW n \in CleanupLimits, CleanupExpiredSwaps(n) PROVE EscrowFrame
  BY <1>5 DEF CleanupExpiredSwaps
<1>6. ASSUME NEW c \in SwapConfigs, UpdateSwapTimeoutConfig(c)
      PROVE  UNCHANGED <<pause, scheduled>>
  BY <1>6 DEF UpdateSwapTimeoutConfig, accessVars
<1> QED
  BY <1>1, <1>2, <1>3, <1>4, <1>5, <1>6 DEF SaleNext

(* update_swap_timeout_config validates what it stores. *)
LEMMA SaleKeepsConfigValid ==
    ASSUME SaleNext, ValidSwapConfig(swapConfig)
    PROVE  ValidSwapConfig(swapConfig)'
<1> USE DEF ValidSwapConfig
<1>1. ASSUME NEW s \in Users, NEW t \in Tokens, NEW p \in Prices,
             NEW d \in Durations, CreateSale(s, t, p, d)
      PROVE  UNCHANGED swapConfig
  BY <1>1 DEF CreateSale
<1>2. ASSUME NEW i \in 1..MaxSales, NEW b \in Users, ExecuteSale(i, b)
      PROVE  UNCHANGED swapConfig
  BY <1>2 DEF ExecuteSale
<1>3. ASSUME EscrowFrame PROVE UNCHANGED swapConfig
  BY <1>3 DEF EscrowFrame
<1>4. ASSUME NEW i \in 1..MaxSales,
             CancelSale(i) \/ ExpireSwap(i) \/ ReclaimExpiredEscrow(i) \/ EmergencyWithdraw(i)
      PROVE  EscrowFrame
  BY <1>4 DEF CancelSale, ExpireSwap, ReclaimExpiredEscrow, EmergencyWithdraw
<1>5. ASSUME NEW n \in CleanupLimits, CleanupExpiredSwaps(n) PROVE EscrowFrame
  BY <1>5 DEF CleanupExpiredSwaps
<1>6. ASSUME NEW c \in SwapConfigs, UpdateSwapTimeoutConfig(c)
      PROVE  ValidSwapConfig(swapConfig)'
  BY <1>6 DEF UpdateSwapTimeoutConfig
<1> QED
  BY <1>1, <1>2, <1>3, <1>4, <1>5, <1>6 DEF SaleNext

(* The access policy announces pauses in time and strikes as announced. *)
LEMMA AccessKeepsWord ==
    ASSUME AccessTypeOK, now \in Nat, PauseAnnounced, AccessNext
    PROVE  PauseAnnounced' /\ TimelockStep
<1> USE DEF PauseAnnounced, TimelockStep
<1>1. ASSUME NEW mods \in PauseChoices, PauseContract(mods)
      PROVE  PauseAnnounced' /\ TimelockStep
  BY <1>1 DEF PauseContract
<1>2. CASE UnpauseContract
  BY <1>2 DEF UnpauseContract
<1>3. ASSUME NEW d \in PauseDelays, NEW mods \in PauseChoices, SchedulePause(d, mods)
      PROVE  PauseAnnounced' /\ TimelockStep
  BY <1>3, AccessAssumption DEF SchedulePause
<1>4. CASE CancelScheduledPause
  BY <1>4 DEF CancelScheduledPause, NotScheduled
<1>5. CASE ExecuteScheduledPause
  <2>1. scheduled.at \in Nat /\ scheduled.since \in Nat
    BY DEF AccessTypeOK
  <2>2. now >= scheduled.since + MinPauseDelay
    BY <1>5, <2>1, AccessAssumption DEF ExecuteScheduledPause
  <2> QED
    BY <1>5, <2>2 DEF ExecuteScheduledPause, NotScheduled
<1>6. CASE UNCHANGED <<pause, scheduled>>
  BY <1>6
<1>7. ASSUME NEW u \in BlockTargets, NEW until \in BlockUntil,
             BlockAddress(u, until) \/ UpdateBlock(u, until)
      PROVE  UNCHANGED <<pause, scheduled>>
  BY <1>7 DEF BlockAddress, UpdateBlock
<1>8. ASSUME NEW u \in BlockTargets, UnblockAddress(u) PROVE UNCHANGED <<pause, scheduled>>
  BY <1>8 DEF UnblockAddress
<1>9. ASSUME NEW e \in DelistChoices,
             SetAllowed(allowed \ {e}) \/ SetAllowed(allowed \union {e})
      PROVE  UNCHANGED <<pause, scheduled>>
  BY <1>9 DEF SetAllowed
<1>10. ASSUME NEW f \in RatedCalls, NEW c \in LimitChoices, UpdateRateLimit(f, c)
       PROVE  UNCHANGED <<pause, scheduled>>
  BY <1>10 DEF UpdateRateLimit
<1> QED
  BY <1>1, <1>2, <1>3, <1>4, <1>5, <1>6, <1>7, <1>8, <1>9, <1>10 DEF AccessNext

LEMMA InductiveTime ==
    IndInv /\ TimeInv /\ [Next]_vars => TimeInv' /\ TimelockStep
<1> SUFFICES ASSUME IndInv, TimeInv, [Next]_vars PROVE TimeInv' /\ TimelockStep
  OBVIOUS
<1> USE DEF TimeInv
<1>1. CASE SaleNext
  <2>1. UNCHANGED <<pause, scheduled>>
    BY <1>1, SaleKeepsPause
  <2>2. ValidSwapConfig(swapConfig)'
    BY <1>1, SaleKeepsConfigValid
  <2>3. DeadlinesAgree'
    BY <1>1, SaleKeepsDeadlines
  <2> QED
    BY <2>1, <2>2, <2>3 DEF PauseAnnounced, TimelockStep
<1>2. CASE AccessStep
  <2>1. PauseAnnounced' /\ TimelockStep
    BY <1>2, AccessKeepsWord DEF AccessStep, IndInv, TypeOK, LedgerTypeOK
  <2>2. UNCHANGED <<nextSale, sale, swap, swapConfig>>
    BY <1>2 DEF AccessStep, saleVars
  <2> QED
    BY <2>1, <2>2 DEF DeadlinesAgree, SaleIds, ValidSwapConfig
<1>3. CASE LedgerStep \/ FeeStep \/ UNCHANGED vars
  <2>1. UNCHANGED <<pause, scheduled, nextSale, sale, swap, swapConfig>>
    BY <1>3 DEF LedgerStep, FeeStep, vars, accessVars, saleVars
  <2> QED
    BY <2>1 DEF DeadlinesAgree, PauseAnnounced, TimelockStep, SaleIds, ValidSwapConfig
<1> QED
  BY <1>1, <1>2, <1>3 DEF Next

-----------------------------------------------------------------------------
(* Where the NFT of a refunded swap goes: no other swap claims the token,  *)
(* so the refund returns it to this swap's own depositor.                  *)
LEMMA RefundReturns ==
    ASSUME IndInv, NEW S \in SUBSET SaleIds, RefundHoldings(S),
           NEW i \in S, Live(swap[i].nft)
    PROVE  owner'[sale[i].token] = sale[i].seller
<1> DEFINE t == sale[i].token
           due == {j \in S : Live(swap[j].nft) /\ swap[j].nft.token = t}
<1>1. t \in Tokens /\ swap[i].nft.token = t /\ swap[i].nft.holder = sale[i].seller
  BY DEF IndInv, SwapsFrozen, Frozen, TypeOK, SaleTypeOK, Sales
<1>2. due = {i}
  BY <1>1 DEF IndInv, Custody
<1>3. owner'[t] = IF due = {} THEN owner[t]
                  ELSE swap[CHOOSE j \in due : TRUE].nft.holder
  BY <1>1, Zenon DEF RefundHoldings
<1>4. (CHOOSE j \in due : TRUE) = i
  BY <1>2
<1> QED
  BY <1>1, <1>2, <1>3, <1>4

(* Every step that takes an NFT out of escrow hands it to the right party, *)
(* and one that anybody may take comes late enough.                        *)
LEMMA ReleaseLemma ==
    ASSUME IndInv, TimeInv, SaleNext
    PROVE  ReleaseStep /\ LateRefundStep
<1> SUFFICES ASSUME NEW i \in SaleIds, Live(swap[i].nft), ~Live(swap'[i].nft)
             PROVE  /\ IF swap'[i].state = "Executed"
                       THEN /\ owner'[sale[i].token] = sale'[i].buyer
                            /\ ~BlockLive(sale'[i].buyer)
                            /\ ModuleOpen("sales")
                       ELSE owner'[sale[i].token] = sale[i].seller
                    /\ AnyonesRefund(i) =>
                         /\ now > sale[i].expiresAt
                         /\ ledger > swap[i].expiresAtLedger \/ now > swap[i].escrowUntil
  BY DEF ReleaseStep, LateRefundStep
<1> DEFINE Late == /\ now > sale[i].expiresAt
                   /\ ledger > swap[i].expiresAtLedger \/ now > swap[i].escrowUntil
<1>1. /\ swap[i] \in Swaps /\ sale[i] \in Sales /\ now \in Nat /\ ledger \in Nat
      /\ swapConfig.grace \in Nat
      /\ sale[i].expiresAt = swap[i].expiresAt
      /\ swap[i].escrowUntil >= swap[i].expiresAt
      /\ swap[i].state \notin TerminalSwap
  BY DEF IndInv, TypeOK, SaleTypeOK, LedgerTypeOK, SwapConfigType, TimeInv,
         DeadlinesAgree, TerminalMeansEmpty
<1>2. ASSUME NEW S \in SUBSET SaleIds, RefundHoldings(S), FailSwaps(S)
      PROVE  /\ swap'[i].state # "Executed"
             /\ owner'[sale[i].token] = sale[i].seller
  <2>1. swap'[i] = IF i \in S THEN AfterRefund(i) ELSE swap[i]
    BY <1>2, Zenon DEF FailSwaps, AfterRefund
  <2>2. i \in S
    BY <2>1
  <2>3. swap'[i].state = "Failed"
    BY <1>1, <2>1, <2>2, RefundedSwap DEF TerminalSwap
  <2> QED
    BY <1>2, <2>2, <2>3, RefundReturns

<1>3. ExpiryConfirmed(i) => Late
  <2>1. swapConfig.tolerance \in Nat /\ swapConfig.tolerance > 0
    BY DEF TimeInv, ValidSwapConfig, IndInv, TypeOK, SaleTypeOK, SwapConfigType
  <2>2. swap[i].expiresAt \in Nat /\ swap[i].expiresAtLedger \in Nat
    BY <1>1 DEF Swaps
  <2> QED
    BY <1>1, <2>1, <2>2 DEF ExpiryConfirmed, SwapExpired
<1>4. AnyonesRefund(i) => Late
  <2>1. CASE ExpireSwap(i)
    BY <2>1, <1>3 DEF ExpireSwap
  <2>2. CASE ReclaimExpiredEscrow(i)
    <3>1. swap[i].expiresAt \in Nat /\ swap[i].escrowUntil \in Nat
      BY <1>1 DEF Swaps
    <3> QED
      BY <1>1, <2>2, <3>1 DEF ReclaimExpiredEscrow
  <2>3. ASSUME NEW n \in CleanupLimits, CleanupExpiredSwaps(n) PROVE Late
    <3> DEFINE max == IF n = 0 THEN DefaultCleanupLimit ELSE n
               due == {j \in SaleIds : swap[j].state \notin TerminalSwap /\ ExpiryConfirmed(j)}
               swept == {j \in due : Cardinality({k \in due : k < j}) < max}
    <3>1. FailSwaps(swept)
      BY <2>3, Zenon DEF CleanupExpiredSwaps
    <3>2. \A j \in swept : ExpiryConfirmed(j)
      OBVIOUS
    <3> HIDE DEF swept
    <3>3. i \in swept
      BY <3>1 DEF FailSwaps
    <3> QED
      BY <1>3, <3>2, <3>3
  <2> QED
    BY <2>1, <2>2, <2>3 DEF AnyonesRefund
<1> DEFINE Right == IF swap'[i].state = "Executed"
                    THEN /\ owner'[sale[i].token] = sale'[i].buyer
                         /\ ~BlockLive(sale'[i].buyer)
                         /\ ModuleOpen("sales")
                    ELSE owner'[sale[i].token] = sale[i].seller
<1>5. ASSUME NEW S \in SUBSET SaleIds, RefundHoldings(S), FailSwaps(S) PROVE Right
  BY <1>2, <1>5
<1>6. Right
  <2>1. ASSUME NEW s \in Users, NEW t \in Tokens, NEW p \in Prices,
               NEW d \in Durations, CreateSale(s, t, p, d)
        PROVE  FALSE
    <3>1. swap'[i] = swap[i]
      BY <2>1 DEF CreateSale, SaleIds, IndInv, TypeOK, SaleTypeOK
    <3> QED
      BY <3>1
  <2>2. ASSUME NEW j \in 1..MaxSales, NEW b \in Users, ExecuteSale(j, b)
        PROVE  Right
    <3>1. j = i
      BY <2>2 DEF ExecuteSale, IndInv, TypeOK, SaleTypeOK
    <3>2. sale'[i].buyer = b
      BY <2>2, <3>1 DEF ExecuteSale, IndInv, TypeOK, SaleTypeOK, Sales
    <3>3. /\ owner' = [owner EXCEPT ![sale[i].token] = b]
          /\ sale[i].token \in Tokens
      BY <2>2, <3>1 DEF ExecuteSale, MoveNft, IndInv, SwapsFrozen, Frozen, TypeOK,
                        SaleTypeOK, Sales
    <3>4. owner'[sale[i].token] = b
      BY <3>3 DEF IndInv, TypeOK, LedgerTypeOK
    <3>5. ~BlockLive(b) /\ ModuleOpen("sales")
      BY <2>2, Zenon DEF ExecuteSale, BlockChecked
    <3>6. swap'[i].state = "Executed"
      BY <2>2, <3>1 DEF ExecuteSale, IndInv, TypeOK, SaleTypeOK, Swaps
    <3> QED
      BY <3>2, <3>4, <3>5, <3>6
  <2>3. ASSUME NEW j \in 1..MaxSales,
               CancelSale(j) \/ ExpireSwap(j) \/ ReclaimExpiredEscrow(j) \/ EmergencyWithdraw(j)
        PROVE  Right
    <3>1. {j} \in SUBSET SaleIds /\ RefundHoldings({j}) /\ FailSwaps({j})
      BY <2>3 DEF CancelSale, ExpireSwap, ReclaimExpiredEscrow, EmergencyWithdraw
    <3> QED
      BY <3>1, <1>5
  <2>4. ASSUME NEW n \in CleanupLimits, CleanupExpiredSwaps(n) PROVE Right
    <3>1. PICK S \in SUBSET SaleIds : RefundHoldings(S) /\ FailSwaps(S)
      BY <2>4 DEF CleanupExpiredSwaps
    <3> QED
      BY <3>1, <1>5
  <2>5. ASSUME NEW c \in SwapConfigs, UpdateSwapTimeoutConfig(c) PROVE FALSE
    BY <2>5 DEF UpdateSwapTimeoutConfig
  <2> HIDE DEF Right
  <2> QED
    BY <2>1, <2>2, <2>3, <2>4, <2>5 DEF SaleNext
<1> QED
  BY <1>4, <1>6

LEMMA ReleaseAlways ==
    IndInv /\ TimeInv /\ [Next]_vars => ReleaseStep /\ LateRefundStep
<1> SUFFICES ASSUME IndInv, TimeInv, [Next]_vars PROVE ReleaseStep /\ LateRefundStep
  OBVIOUS
<1>1. CASE SaleNext
  BY <1>1, ReleaseLemma
<1>2. CASE LedgerStep \/ AccessStep \/ FeeStep \/ UNCHANGED vars
  <2>1. swap' = swap
    BY <1>2 DEF LedgerStep, AccessStep, FeeStep, vars, saleVars
  <2> QED
    BY <2>1 DEF ReleaseStep, LateRefundStep
<1> QED
  BY <1>1, <1>2 DEF Next

-----------------------------------------------------------------------------
(* The deadlines stay in agreement and pauses announced in time. *)
THEOREM TimeInvariant == Spec => []TimeInv
BY InitTime, IndInvariant, InductiveTime, PTL DEF Spec

(* A scheduled pause takes effect as announced and after the minimum       *)
(* delay, or is cancelled; pausing and unpausing at once do not disturb it *)
(* (pause_manager.rs).                                                     *)
THEOREM ScheduledPausesKeepTheirWord == Spec => PauseTimelock
<1>1. IndInv /\ TimeInv /\ [Next]_vars => [TimelockStep]_vars
  BY InductiveTime
<1> QED
  BY <1>1, IndInvariant, TimeInvariant, PTL DEF Spec, PauseTimelock

(* An NFT leaves escrow to the recorded, unblocked buyer of an open market *)
(* or back to the seller who deposited it, on every path of atomic_swap.rs *)
(* and for any number of swaps refunded at once.                           *)
THEOREM RightPartyReceives == Spec => ReleasedToTheRightParty
<1>1. IndInv /\ TimeInv /\ [Next]_vars => [ReleaseStep]_vars
  BY ReleaseAlways
<1> QED
  BY <1>1, IndInvariant, TimeInvariant, PTL DEF Spec, ReleasedToTheRightParty

(* The refunds anyone may trigger wait for the sale to expire and for a    *)
(* closed ledger or the backstop, whatever configuration is in force.      *)
THEOREM RefundsAreLate == Spec => LateRefund
<1>1. IndInv /\ TimeInv /\ [Next]_vars => [LateRefundStep]_vars
  BY ReleaseAlways
<1> QED
  BY <1>1, IndInvariant, TimeInvariant, PTL DEF Spec, LateRefund

-----------------------------------------------------------------------------
(* No invocation makes or destroys payment tokens. *)
LEMMA SupplyKept ==
    ASSUME IsFiniteSet(Users), IndInv, [Next]_vars
    PROVE  SupplyOf(balance') = SupplyOf(balance)
<1>0. LedgerTypeOK /\ FeeTypeOK /\ SaleTypeOK
  BY DEF IndInv, TypeOK
<1>1. CASE SaleNext
  <2>1. ASSUME NEW S \in SUBSET SaleIds, RefundHoldings(S) PROVE balance' = balance
    BY <2>1, RefundMovesNoMoney
  <2>2. ASSUME NEW i \in 1..MaxSales, NEW b \in Users, ExecuteSale(i, b)
        PROVE  SupplyOf(balance') = SupplyOf(balance)
    <3>1. /\ i \in SaleIds
          /\ PayInThenOut(b, swap[i].pay.amount, sale[i].creator, sale[i].royalty,
                          sale[i].seller, sale[i].share)
      BY <2>2, Zenon DEF ExecuteSale
    <3>2. /\ swap[i].pay.amount \in Nat
          /\ sale[i].creator \in Users /\ sale[i].royalty \in Nat
          /\ sale[i].seller \in Users /\ sale[i].share \in Int
      BY <1>0, <3>1 DEF SaleTypeOK, Sales, Swaps, PayHoldings
    <3> QED
      BY <1>0, <3>1, <3>2, PayInThenOutSupply
  <2>3. CASE \E s \in Users, t \in Tokens, p \in Prices, d \in Durations :
                CreateSale(s, t, p, d)
    BY <2>3 DEF CreateSale
  <2>4. CASE \E i \in 1..MaxSales : \/ CancelSale(i) \/ ExpireSwap(i)
                                    \/ ReclaimExpiredEscrow(i) \/ EmergencyWithdraw(i)
    <3>1. PICK i \in SaleIds : RefundHoldings({i})
      BY <2>4 DEF CancelSale, ExpireSwap, ReclaimExpiredEscrow, EmergencyWithdraw
    <3> QED
      BY <2>1, <3>1
  <2>5. ASSUME NEW n \in CleanupLimits, CleanupExpiredSwaps(n) PROVE balance' = balance
    <3>1. PICK S \in SUBSET SaleIds : RefundHoldings(S)
      BY <2>5 DEF CleanupExpiredSwaps
    <3> QED
      BY <2>1, <3>1
  <2>6. CASE \E c \in SwapConfigs : UpdateSwapTimeoutConfig(c)
    BY <2>6 DEF UpdateSwapTimeoutConfig, assetVars
  <2> QED
    BY <1>1, <2>2, <2>3, <2>4, <2>5, <2>6 DEF SaleNext
<1>2. CASE LedgerStep \/ AccessStep \/ UNCHANGED vars
  BY <1>2 DEF LedgerStep, LedgerNext, CloseLedger, TransferOutside, AccessStep,
              assetVars, ledgerVars, vars
<1>3. CASE FeeStep
  BY <1>0, <1>3, FeeNextSupply DEF FeeStep
<1> QED
  BY <1>1, <1>2, <1>3 DEF Next

(* Payment tokens are only ever moved, by sales that split a payment among *)
(* four parties (execute_sale) and by fee withdrawals, for any finite      *)
(* number of users.                                                        *)
THEOREM MoneyIsConserved ==
    ASSUME IsFiniteSet(Users)
    PROVE  Spec => []MoneyConserved
<1>1. Init => MoneyConserved
  BY InitialSupply DEF Init, MoneyConserved
<1>2. IndInv /\ MoneyConserved /\ [Next]_vars => MoneyConserved'
  BY SupplyKept DEF MoneyConserved
<1> QED
  BY <1>1, <1>2, IndInvariant, PTL DEF Spec

-----------------------------------------------------------------------------
(* The rate limit on create_sale.  For a largest limit L and a smallest    *)
(* window W: a seller's window opened with its first call and holds        *)
(* `count' of them, so that fewer than `count' lie after its start; the    *)
(* window before it started at least W earlier, so that of its L calls the *)
(* first is that far back.                                                 *)
Configs == LimitChoices \union {DefaultLimit["create_sale"]}

SalesSince(s, a) == {j \in SaleIds : sale[j].seller = s /\ a <= sale[j].createdAt}
SalesWithin(s, a, W) == {j \in SalesSince(s, a) : sale[j].createdAt < a + W}

WindowCounts(s, L, W) ==
    LET r == rate[s]["create_sale"]
    IN  IF r.start = 0 THEN r.count = 0 /\ SalesSince(s, 0) = {}
        ELSE /\ r.start <= now
             /\ r.count \in 1..L
             /\ \A a \in Nat :
                   /\ a > r.start => Cardinality(SalesSince(s, a)) <= r.count - 1
                   /\ a > r.start - W => Cardinality(SalesSince(s, a)) <= L - 1 + r.count

BurstBounded(s, L, W) ==
    \A a \in Nat : SalesWithin(s, a, W) # {} => Cardinality(SalesWithin(s, a, W)) <= 2 * L - 1

RateInv(L, W) ==
    /\ now > 0
    /\ rateConfig["create_sale"].limit <= L
    /\ rateConfig["create_sale"].window >= W
    /\ \A j \in SaleIds : sale[j].createdAt <= now
    /\ \A s \in Users : WindowCounts(s, L, W) /\ BurstBounded(s, L, W)

(* What the theorem asks of the limits: the call is rate limited, L and W  *)
(* bound every configuration an admin may set, and calls are either        *)
(* allowed at all or denied over a window.                                 *)
Limits(L, W) ==
    /\ "create_sale" \in RatedCalls
    /\ \A c \in Configs : c.limit <= L /\ c.window >= W
    /\ L > 0 \/ W > 0

(* The sales of a seller are finitely many. *)
LEMMA SalesFinite ==
    ASSUME SaleTypeOK, NEW s, NEW a
    PROVE  /\ IsFiniteSet(SaleIds) /\ IsFiniteSet(SalesSince(s, a))
           /\ Cardinality(SalesSince(s, a)) \in Nat
<1>1. IsFiniteSet(SaleIds)
  BY SaleAssumption, FS_Interval DEF SaleTypeOK, SaleIds
<1>2. SalesSince(s, a) \subseteq SaleIds
  BY DEF SalesSince
<1> QED
  BY <1>1, <1>2, FS_Subset, FS_CardinalityType

(* Steps that keep the windows and the sales' dates keep the invariant,    *)
(* however the clock moves.                                                *)
LEMMA RateKept ==
    ASSUME NEW L \in Nat, NEW W \in Nat, Limits(L, W), RateInv(L, W),
           IndInv, IndInv', now <= now',
           SaleIds' = SaleIds, rate' = rate,
           \A j \in SaleIds : /\ sale'[j].seller = sale[j].seller
                              /\ sale'[j].createdAt = sale[j].createdAt,
           rateConfig' = rateConfig \/
              /\ rateConfig'["create_sale"].limit <= L
              /\ rateConfig'["create_sale"].window >= W
    PROVE  RateInv(L, W)'
<1>1. /\ now \in Nat /\ now' \in Nat
      /\ \A j \in SaleIds : sale[j].createdAt \in Nat
      /\ \A s \in Users : rate[s]["create_sale"].start \in Nat
  BY DEF IndInv, TypeOK, LedgerTypeOK, SaleTypeOK, Sales, AccessTypeOK, Limits
<1>2. /\ \A s \in Users, a \in Nat : SalesSince(s, a)' = SalesSince(s, a)
      /\ \A s \in Users, a \in Nat : SalesWithin(s, a, W)' = SalesWithin(s, a, W)
  BY DEF SalesSince, SalesWithin
<1>3. \A s \in Users : WindowCounts(s, L, W)'
  <2> SUFFICES ASSUME NEW s \in Users PROVE WindowCounts(s, L, W)'
    OBVIOUS
  <2> DEFINE r == rate[s]["create_sale"]
  <2>1. WindowCounts(s, L, W)
    BY DEF RateInv
  <2>2. SalesSince(s, 0)' = SalesSince(s, 0)
    BY <1>2
  <2>3. CASE r.start = 0
    BY <2>1, <2>2, <2>3 DEF WindowCounts
  <2>4. CASE r.start # 0
    <3>1. r.start <= now'
      BY <1>1, <2>1, <2>4 DEF WindowCounts
    <3> QED
      BY <1>2, <2>1, <2>4, <3>1 DEF WindowCounts
  <2> QED
    BY <2>3, <2>4
<1>4. \A s \in Users : BurstBounded(s, L, W)'
  BY <1>2 DEF BurstBounded, RateInv
<1>5. now' > 0 /\ \A j \in SaleIds' : sale'[j].createdAt <= now'
  BY <1>1 DEF RateInv
<1> QED
  BY <1>3, <1>4, <1>5 DEF RateInv

(* A call that opens a window, and one that is counted in the open one.    *)
LEMMA CountedCall ==
    ASSUME NEW L \in Nat, NEW W \in Nat, Limits(L, W), RateInv(L, W), IndInv,
           NEW s \in Users, RateCounted(s, "create_sale")
    PROVE  LET r == rate[s]["create_sale"]
               q == rate'[s]["create_sale"]
           IN  /\ \A u \in Users : u # s => rate'[u] = rate[u]
               /\ r.start \in Nat /\ r.count \in Nat
               /\ \/ /\ q = [start |-> now, count |-> 1]
                     /\ L > 0
                     /\ r.start = 0 \/ now >= r.start + W
                  \/ /\ r.start # 0
                     /\ q = [start |-> r.start, count |-> r.count + 1]
                     /\ r.count < L
<1> DEFINE r == rate[s]["create_sale"]
           c == rateConfig["create_sale"]
           start == IF r.start = 0 THEN now ELSE r.start
           expired == now >= start + c.window
           q == IF expired THEN [start |-> now, count |-> 1]
                           ELSE [start |-> start, count |-> r.count + 1]
<1>1. /\ now \in Nat
      /\ rate \in [Users -> [RatedCalls -> [start : Nat, count : Nat]]]
      /\ r.start \in Nat /\ r.count \in Nat
      /\ c.limit \in Nat /\ c.window \in Nat
      /\ c.limit <= L /\ c.window >= W
      /\ "create_sale" \in RatedCalls
  BY DEF IndInv, TypeOK, LedgerTypeOK, AccessTypeOK, RateConfigs, Limits, RateInv
<1>2. /\ expired \/ r.count < c.limit
      /\ rate' = [rate EXCEPT ![s]["create_sale"] = q]
  BY <1>1, Zenon DEF RateCounted
<1>3. /\ \A u \in Users : u # s => rate'[u] = rate[u]
      /\ rate'[s]["create_sale"] = q
  BY <1>1, <1>2
<1>4. /\ now > 0
      /\ r.start = 0 => r.count = 0
      /\ r.start # 0 => r.count \in 1..L
  BY DEF RateInv, WindowCounts
<1> HIDE DEF r, c
<1>5. CASE expired
  <2>1. r.start = 0 \/ now >= r.start + W
    BY <1>1, <1>5
  <2>2. L > 0
    <3>1. L = 0 => W > 0
      BY DEF Limits
    <3> QED
      BY <1>1, <1>4, <1>5, <3>1
  <2> QED
    BY <1>1, <1>3, <1>5, <2>1, <2>2 DEF r
<1>6. CASE ~expired /\ r.start # 0
  BY <1>1, <1>2, <1>3, <1>6 DEF r
<1>7. CASE ~expired /\ r.start = 0
  <2>1. q = [start |-> now, count |-> 1] /\ r.count < c.limit
    BY <1>1, <1>2, <1>4, <1>7
  <2> QED
    BY <1>1, <1>3, <1>7, <2>1 DEF r
<1> QED
  BY <1>5, <1>6, <1>7

(* create_sale: the seller has one sale more, made now, and by the window  *)
(* it is counted in there is room for it.                                  *)
LEMMA RateCreate ==
    ASSUME NEW L \in Nat, NEW W \in Nat, Limits(L, W), RateInv(L, W),
           IndInv, IndInv',
           NEW s \in Users, NEW t \in Tokens, NEW price \in Prices,
           NEW duration \in Durations, CreateSale(s, t, price, duration)
    PROVE  RateInv(L, W)'
<1> DEFINE n == nextSale
           r == rate[s]["create_sale"]
           q == rate'[s]["create_sale"]
<1>1. /\ RateCounted(s, "create_sale")
      /\ nextSale' = n + 1 /\ n \in Nat /\ n > 0
      /\ sale'[n].seller = s /\ sale'[n].createdAt = now
      /\ \A j \in SaleIds : sale'[j] = sale[j]
      /\ UNCHANGED <<now, rateConfig>>
  <2>1. /\ RateCounted(s, "create_sale") /\ nextSale' = n + 1
        /\ UNCHANGED <<now, rateConfig>>
    BY Zenon DEF CreateSale, adminVars
  <2>2. sale' = [i \in 1..n |-> IF i < n THEN sale[i] ELSE
              [seller |-> s, buyer |-> NoUser, token |-> t, price |-> price,
               state |-> "Pending", createdAt |-> now, expiresAt |-> now + duration,
               creator |-> Royalty.creator, royalty |-> Percentage(price, Royalty.bps),
               share |-> price - Percentage(price, Royalty.bps) - FeeFor(price, s),
               fee |-> FeeFor(price, s)]]
    BY Zenon DEF CreateSale
  <2>3. n \in Nat /\ n > 0
    BY DEF IndInv, TypeOK, SaleTypeOK
  <2>4. /\ sale'[n].seller = s /\ sale'[n].createdAt = now
        /\ \A j \in SaleIds : sale'[j] = sale[j]
    BY <2>2, <2>3 DEF SaleIds
  <2> QED
    BY <2>1, <2>3, <2>4
<1>2. /\ now \in Nat /\ now > 0 /\ SaleTypeOK /\ SaleTypeOK'
      /\ \A j \in SaleIds : sale[j].createdAt \in Nat /\ sale[j].createdAt <= now
  BY DEF IndInv, TypeOK, LedgerTypeOK, SaleTypeOK, Sales, RateInv
<1>3. SaleIds' = SaleIds \union {n} /\ n \notin SaleIds
  BY <1>1 DEF SaleIds
<1>4. \A u \in Users : u # s => rate'[u] = rate[u]
  BY <1>1, CountedCall
<1>5. ASSUME NEW u \in Users, u # s, NEW a \in Nat
      PROVE  /\ SalesSince(u, a)' = SalesSince(u, a)
             /\ SalesWithin(u, a, W)' = SalesWithin(u, a, W)
  BY <1>1, <1>3, <1>5 DEF SalesSince, SalesWithin
<1>6. ASSUME NEW a \in Nat, a > now PROVE SalesSince(s, a)' = {} /\ SalesSince(s, a) = {}
  BY <1>1, <1>2, <1>3, <1>6 DEF SalesSince
<1>7. ASSUME NEW a \in Nat, a <= now
      PROVE  /\ SalesSince(s, a)' = SalesSince(s, a) \union {n}
             /\ Cardinality(SalesSince(s, a))' = Cardinality(SalesSince(s, a)) + 1
  <2>1. SalesSince(s, a)' = SalesSince(s, a) \union {n} /\ n \notin SalesSince(s, a)
    BY <1>1, <1>3, <1>7 DEF SalesSince
  <2> QED
    BY <1>2, <2>1, SalesFinite, FS_AddElement
<1>8. WindowCounts(s, L, W)'
  <2>1. WindowCounts(s, L, W)
    BY DEF RateInv
  <2>2. \A a \in Nat : Cardinality(SalesSince(s, a)) \in Nat
    BY <1>2, SalesFinite
  <2>3. r.start \in Nat /\ r.count \in Nat
    BY <1>1, CountedCall
  <2>4. CASE /\ q = [start |-> now, count |-> 1] /\ L > 0
             /\ r.start = 0 \/ now >= r.start + W
    <3>1. ASSUME NEW a \in Nat, a > now
          PROVE  Cardinality(SalesSince(s, a)') = 0
      BY <1>6, <3>1, FS_EmptySet
    <3>2. ASSUME NEW a \in Nat, a > now - W
          PROVE  Cardinality(SalesSince(s, a)) <= L - 1
      <4>1. CASE r.start = 0
        <5>1. SalesSince(s, a) = {}
          BY <1>2, <2>1, <4>1 DEF WindowCounts, SalesSince
        <5> QED
          BY <2>4, <5>1, FS_EmptySet
      <4>2. CASE r.start # 0
        <5>1. a > r.start
          BY <1>2, <2>3, <2>4, <3>2, <4>2
        <5>2. Cardinality(SalesSince(s, a)) <= r.count - 1 /\ r.count <= L
          BY <2>1, <4>2, <5>1 DEF WindowCounts
        <5> QED
          BY <2>2, <2>3, <5>2
      <4> QED
        BY <4>1, <4>2
    <3>3. ASSUME NEW a \in Nat
          PROVE  /\ a > now => Cardinality(SalesSince(s, a)') <= 1 - 1
                 /\ a > now - W => Cardinality(SalesSince(s, a)') <= L - 1 + 1
      <4>1. CASE a > now
        BY <2>4, <3>1, <4>1
      <4>2. CASE a <= now
        BY <1>2, <1>7, <2>2, <3>2, <4>2
      <4> QED
        BY <1>2, <4>1, <4>2
    <3>4. q.start = now /\ q.count = 1
      BY <2>4
    <3> HIDE DEF q
    <3> QED
      BY <1>1, <1>2, <2>4, <3>3, <3>4 DEF WindowCounts, q
  <2>5. CASE /\ r.start # 0
             /\ q = [start |-> r.start, count |-> r.count + 1]
             /\ r.count < L
    <3>1. r.count >= 1 /\ r.start <= now
      BY <2>1, <2>3, <2>5 DEF WindowCounts
    <3>2. ASSUME NEW a \in Nat
          PROVE  /\ a > r.start => Cardinality(SalesSince(s, a)') <= r.count
                 /\ a > r.start - W => Cardinality(SalesSince(s, a)') <= L - 1 + (r.count + 1)
      <4>1. CASE a > now
        <5>1. Cardinality(SalesSince(s, a)') = 0
          BY <1>6, <4>1, FS_EmptySet
        <5> QED
          BY <2>3, <2>5, <3>1, <5>1
      <4>2. CASE a <= now
        <5>1. Cardinality(SalesSince(s, a)') = Cardinality(SalesSince(s, a)) + 1
          BY <1>7, <4>2
        <5>2. /\ a > r.start => Cardinality(SalesSince(s, a)) <= r.count - 1
              /\ a > r.start - W => Cardinality(SalesSince(s, a)) <= L - 1 + r.count
          BY <2>1, <2>5 DEF WindowCounts
        <5> QED
          BY <2>2, <2>3, <5>1, <5>2
      <4> QED
        BY <1>2, <4>1, <4>2
    <3>3. q.start = r.start /\ q.count = r.count + 1
      BY <2>5
    <3> HIDE DEF q, r
    <3>4. (r.count + 1) - 1 = r.count /\ r.count + 1 \in 1..L
      BY <2>3, <2>5
    <3> QED
      BY <1>1, <2>5, <3>1, <3>2, <3>3, <3>4 DEF WindowCounts, q
  <2> QED
    BY <1>1, <2>4, <2>5, CountedCall
<1>9. BurstBounded(s, L, W)'
  <2> SUFFICES ASSUME NEW a \in Nat, SalesWithin(s, a, W)' # {}
               PROVE  Cardinality(SalesWithin(s, a, W)') <= 2 * L - 1
    BY DEF BurstBounded
  <2>1. CASE a > now
    BY <1>6, <2>1 DEF SalesWithin
  <2>2. CASE a <= now /\ now < a + W
    <3>1. SalesWithin(s, a, W)' = SalesSince(s, a)'
      BY <1>1, <1>2, <1>3, <2>2 DEF SalesWithin, SalesSince
    <3>2. /\ q.start \in Nat /\ q.start # 0 /\ q.start <= now /\ q.count \in 1..L
          /\ a > q.start - W => Cardinality(SalesSince(s, a)') <= L - 1 + q.count
      <4>1. q.start # 0 /\ q.start \in Nat
        <5>1. /\ r.start \in Nat
              /\ \/ q = [start |-> now, count |-> 1]
                 \/ r.start # 0 /\ q = [start |-> r.start, count |-> r.count + 1]
          BY <1>1, CountedCall
        <5> HIDE DEF q, r
        <5> QED
          BY <1>2, <5>1
      <4> QED
        BY <1>1, <1>8, <4>1 DEF WindowCounts
    <3>3. a > q.start - W
      BY <1>2, <2>2, <3>2
    <3>4. Cardinality(SalesSince(s, a)') \in Nat
      BY <1>2, <1>7, <2>2, SalesFinite
    <3> QED
      BY <3>1, <3>2, <3>3, <3>4
  <2>3. CASE now >= a + W
    <3>1. SalesWithin(s, a, W)' = SalesWithin(s, a, W)
      BY <1>1, <1>2, <1>3, <2>3 DEF SalesWithin, SalesSince
    <3> QED
      BY <3>1 DEF RateInv, BurstBounded
  <2> QED
    BY <1>2, <2>1, <2>2, <2>3
<1>10. ASSUME NEW u \in Users, u # s PROVE WindowCounts(u, L, W)' /\ BurstBounded(u, L, W)'
  <2>1. WindowCounts(u, L, W) /\ BurstBounded(u, L, W)
    BY DEF RateInv
  <2>2. WindowCounts(u, L, W)'
    <3>1. SalesSince(u, 0)' = SalesSince(u, 0)
      BY <1>5, <1>10
    <3> QED
      BY <1>1, <1>4, <1>5, <1>10, <2>1, <3>1 DEF WindowCounts
  <2> QED
    BY <1>5, <1>10, <2>1, <2>2 DEF BurstBounded
<1>11. \A j \in SaleIds' : sale'[j].createdAt <= now'
  BY <1>1, <1>2, <1>3
<1> QED
  BY <1>1, <1>8, <1>9, <1>10, <1>11 DEF RateInv

(* No step of the market breaks the bound. *)
LEMMA RateInductive ==
    ASSUME NEW L \in Nat, NEW W \in Nat, Limits(L, W), RateInv(L, W), IndInv,
           [Next]_vars
    PROVE  RateInv(L, W)'
<1>1. IndInv'
  BY Inductive
<1>2. now \in Nat /\ SaleTypeOK
  BY DEF IndInv, TypeOK, LedgerTypeOK
<1>3. ASSUME UNCHANGED <<now, nextSale, rate, rateConfig>>,
             \A j \in SaleIds : /\ sale'[j].seller = sale[j].seller
                                /\ sale'[j].createdAt = sale[j].createdAt
      PROVE  RateInv(L, W)'
  BY <1>1, <1>2, <1>3, RateKept DEF SaleIds
<1>4. CASE SaleNext
  <2>1. ASSUME NEW s \in Users, NEW t \in Tokens, NEW p \in Prices,
               NEW d \in Durations, CreateSale(s, t, p, d)
        PROVE  RateInv(L, W)'
    BY <1>1, <2>1, RateCreate
  <2>2. ASSUME NEW i \in 1..MaxSales, NEW b \in Users, ExecuteSale(i, b)
        PROVE  RateInv(L, W)'
    <3>1. /\ i \in SaleIds /\ UNCHANGED <<now, nextSale, rate, rateConfig>>
          /\ sale' = [sale EXCEPT ![i].buyer = b, ![i].state = "Executed"]
      BY <2>2, Zenon DEF ExecuteSale, adminVars
    <3>2. \A j \in SaleIds : /\ sale'[j].seller = sale[j].seller
                             /\ sale'[j].createdAt = sale[j].createdAt
      BY <1>2, <3>1 DEF SaleTypeOK, Sales
    <3> QED
      BY <1>3, <3>1, <3>2
  <2>3. ASSUME NEW i \in 1..MaxSales,
               \/ CancelSale(i) \/ ExpireSwap(i)
               \/ ReclaimExpiredEscrow(i) \/ EmergencyWithdraw(i)
        PROVE  RateInv(L, W)'
    <3>1. /\ EscrowFrame /\ i \in SaleIds
          /\ sale' = sale \/ sale' = [sale EXCEPT ![i].state = "Cancelled"]
      BY <2>3, Zenon DEF CancelSale, ExpireSwap, ReclaimExpiredEscrow, EmergencyWithdraw
    <3>2. \A j \in SaleIds : /\ sale'[j].seller = sale[j].seller
                             /\ sale'[j].createdAt = sale[j].createdAt
      BY <1>2, <3>1 DEF SaleTypeOK, Sales
    <3> QED
      BY <1>3, <3>1, <3>2 DEF EscrowFrame, clockVars, accessVars
  <2>4. ASSUME NEW n \in CleanupLimits, CleanupExpiredSwaps(n) PROVE RateInv(L, W)'
    BY <1>3, <2>4 DEF CleanupExpiredSwaps, EscrowFrame, clockVars, accessVars
  <2>5. ASSUME NEW c \in SwapConfigs, UpdateSwapTimeoutConfig(c) PROVE RateInv(L, W)'
    BY <1>3, <2>5 DEF UpdateSwapTimeoutConfig, clockVars, accessVars
  <2> QED
    BY <1>4, <2>1, <2>2, <2>3, <2>4, <2>5 DEF SaleNext
<1>5. CASE LedgerStep
  <2>1. /\ UNCHANGED <<nextSale, sale, rate, rateConfig>>
        /\ now <= now'
    BY <1>2, <1>5, LedgerAssumption DEF LedgerStep, LedgerNext, CloseLedger, TransferOutside,
                                        accessVars, saleVars
  <2> QED
    BY <1>1, <2>1, RateKept DEF SaleIds
<1>6. CASE AccessStep
  <2>1. /\ UNCHANGED <<now, nextSale, sale, rate>>
        /\ rateConfig' = rateConfig \/
             \E f \in RatedCalls, c \in LimitChoices : rateConfig' = [rateConfig EXCEPT ![f] = c]
    BY <1>6 DEF AccessStep, AccessNext, ledgerVars, saleVars, PauseContract, UnpauseContract,
                SchedulePause, CancelScheduledPause, ExecuteScheduledPause, BlockAddress,
                UnblockAddress, UpdateBlock, SetAllowed, UpdateRateLimit
  <2>2. \/ rateConfig' = rateConfig
        \/ /\ rateConfig'["create_sale"].limit <= L
           /\ rateConfig'["create_sale"].window >= W
    <3>1. ASSUME NEW f \in RatedCalls, NEW c \in LimitChoices,
                 rateConfig' = [rateConfig EXCEPT ![f] = c]
          PROVE  /\ rateConfig'["create_sale"].limit <= L
                 /\ rateConfig'["create_sale"].window >= W
      <4>1. "create_sale" \in RatedCalls /\ c.limit <= L /\ c.window >= W
        BY DEF Limits, Configs
      <4>2. DOMAIN rateConfig = RatedCalls
        BY DEF IndInv, TypeOK, AccessTypeOK
      <4> QED
        BY <3>1, <4>1, <4>2 DEF RateInv
    <3> QED
      BY <2>1, <3>1
  <2> QED
    BY <1>1, <1>2, <2>1, <2>2, RateKept DEF SaleIds
<1>7. CASE FeeStep \/ UNCHANGED vars
  <2>1. UNCHANGED <<now, nextSale, sale, rate, rateConfig>>
    BY <1>7 DEF FeeStep, clockVars, accessVars, saleVars, vars, ledgerVars
  <2> QED
    BY <1>3, <2>1
<1> QED
  BY <1>4, <1>5, <1>6, <1>7 DEF Next

(* It holds before the first sale. *)
LEMMA RateInit ==
    ASSUME NEW L \in Nat, NEW W \in Nat, Limits(L, W), Init
    PROVE  RateInv(L, W)
<1>1. SaleIds = {}
  BY DEF Init, SaleInit, SaleIds
<1>2. /\ now = 1 /\ rateConfig = DefaultLimit
      /\ \A s \in Users : rate[s]["create_sale"] = [start |-> 0, count |-> 0]
  BY DEF Init, LedgerInit, AccessInit, Limits, NoCalls
<1>3. \A s \in Users, a \in Nat : SalesSince(s, a) = {} /\ SalesWithin(s, a, W) = {}
  BY <1>1 DEF SalesSince, SalesWithin
<1>4. DefaultLimit["create_sale"].limit <= L /\ DefaultLimit["create_sale"].window >= W
  BY DEF Limits, Configs
<1>5. ASSUME NEW s \in Users PROVE WindowCounts(s, L, W) /\ BurstBounded(s, L, W)
  BY <1>2, <1>3 DEF WindowCounts, BurstBounded
<1> QED
  BY <1>1, <1>2, <1>4, <1>5 DEF RateInv

(* The largest limit and the smallest window in use exist. *)
LEMMA ExtremeConfigs ==
    ASSUME "create_sale" \in RatedCalls,
           NEW n \in Nat, \A c \in LimitChoices : c.limit <= n
    PROVE  /\ Configs \subseteq RateConfigs
           /\ \E c \in Configs : \A d \in Configs : c.limit >= d.limit
           /\ \E c \in Configs : \A d \in Configs : c.window <= d.window
<1> DEFINE D == DefaultLimit["create_sale"]
<1>1. Configs \subseteq RateConfigs /\ D \in Configs
  BY AccessAssumption DEF Configs
<1>2. \A c \in Configs : c.limit \in Nat /\ c.window \in Nat
  BY <1>1 DEF RateConfigs
<1>3. \E c \in Configs : \A d \in Configs : c.window <= d.window
  <2> DEFINE windows == {c.window : c \in Configs}
  <2>1. windows \in SUBSET Nat /\ windows # {}
    BY <1>1, <1>2
  <2>2. PICK w \in windows : \A v \in windows : w <= v
    BY <2>1, LeastElement, Zenon
  <2> QED
    BY <2>2
<1>4. \E c \in Configs : \A d \in Configs : c.limit >= d.limit
  <2> DEFINE most == IF D.limit > n THEN D.limit ELSE n
             slack == {most - c.limit : c \in Configs}
  <2>1. most \in Nat /\ \A c \in Configs : c.limit <= most
    BY <1>1, <1>2 DEF Configs
  <2> HIDE DEF most
  <2>2. slack \in SUBSET Nat /\ slack # {}
    BY <1>1, <1>2, <2>1
  <2>3. PICK w \in slack : \A v \in slack : w <= v
    BY <2>2, LeastElement, Zenon
  <2>4. PICK c \in Configs : w = most - c.limit
    BY <2>3
  <2>5. \A d \in Configs : most - c.limit <= most - d.limit
    BY <2>3, <2>4
  <2> QED
    BY <1>2, <2>1, <2>5
<1> QED
  BY <1>1, <1>3, <1>4

(* A fixed window admits a burst at each of its ends and never more        *)
(* (check_rate_limit of rate_limiter.rs), however many sellers, whatever   *)
(* limits an admin sets and however often.  Limits are u32 in the code,    *)
(* hence bounded; a window of zero seconds is a limit only if some limit   *)
(* is positive.                                                            *)
THEOREM BurstsAreBounded ==
    ASSUME "create_sale" \in RatedCalls,
           \E n \in Nat : \A c \in LimitChoices : c.limit <= n,
           \/ \E c \in Configs : c.limit > 0
           \/ \A c \in Configs : c.window > 0
    PROVE  Spec => []RateBound
<1> DEFINE most == CHOOSE c \in Configs : \A d \in Configs : c.limit >= d.limit
           least == CHOOSE c \in Configs : \A d \in Configs : c.window <= d.window
           L == most.limit
           W == least.window
<1>1. /\ Configs \subseteq RateConfigs
      /\ most \in Configs /\ \A d \in Configs : L >= d.limit
      /\ least \in Configs /\ \A d \in Configs : W <= d.window
  BY ExtremeConfigs
<1>2. L \in Nat /\ W \in Nat
  BY <1>1 DEF RateConfigs
<1>3. Limits(L, W)
  <2>1. \A c \in Configs : c.limit \in Nat /\ c.window \in Nat
    BY <1>1 DEF RateConfigs
  <2> HIDE DEF L, W
  <2>2. L > 0 \/ W > 0
    BY <1>1, <1>2, <2>1 DEF W
  <2> QED
    BY <1>1, <1>2, <2>1, <2>2 DEF Limits
<1>4. TypeOK /\ RateInv(L, W) => RateBound
  <2> SUFFICES ASSUME TypeOK, RateInv(L, W), NEW i \in SaleIds
               PROVE  Cardinality({j \in SaleIds :
                          /\ sale[j].seller = sale[i].seller
                          /\ sale[i].createdAt <= sale[j].createdAt
                          /\ sale[j].createdAt < sale[i].createdAt + W}) <= 2 * L - 1
    BY Zenon DEF RateBound, Configs
  <2> DEFINE s == sale[i].seller
             a == sale[i].createdAt
  <2> HIDE DEF L, W
  <2>1. s \in Users /\ a \in Nat
    BY DEF TypeOK, SaleTypeOK, Sales
  <2>2. SalesWithin(s, a, W) = {j \in SaleIds : /\ sale[j].seller = s
                                                /\ a <= sale[j].createdAt
                                                /\ sale[j].createdAt < a + W}
    BY DEF SalesWithin, SalesSince
  <2>3. CASE SalesWithin(s, a, W) # {}
    <3>1. Cardinality(SalesWithin(s, a, W)) <= 2 * L - 1
      BY <2>1, <2>3 DEF RateInv, BurstBounded
    <3> QED
      BY <2>2, <3>1
  <2>4. CASE SalesWithin(s, a, W) = {}
    <3>1. W = 0
      <4>1. W > 0 => i \in SalesWithin(s, a, W)
        BY <1>2, <2>1, <2>2
      <4> QED
        BY <1>2, <2>4, <4>1
    <3>2. L > 0
      BY <1>2, <1>3, <3>1 DEF Limits
    <3>3. Cardinality(SalesWithin(s, a, W)) = 0 /\ 0 <= 2 * L - 1
      BY <1>2, <2>4, <3>2, FS_EmptySet
    <3> QED
      BY <2>2, <3>3
  <2> QED
    BY <2>3, <2>4
<1> HIDE DEF L, W
<1>5. Init => RateInv(L, W)
  BY <1>2, <1>3, RateInit
<1>6. IndInv /\ RateInv(L, W) /\ [Next]_vars => RateInv(L, W)'
  BY <1>2, <1>3, RateInductive
<1>7. IndInv => TypeOK
  BY DEF IndInv
<1> QED
  BY <1>4, <1>5, <1>6, <1>7, IndInvariant, PTL DEF Spec
=============================================================================
