----------------------------- MODULE SaleEscrow -----------------------------
(***************************************************************************)
(* Fixed-price sales (settlement_core.rs) and the atomic-swap escrow that  *)
(* holds their NFTs (atomic_swap.rs).  create_sale is the only caller of   *)
(* initialize_swap, so sale i and the swap with transaction_id i are born  *)
(* together and share the id; their states then move separately, which is  *)
(* where the hazards of this module are: a swap can be refunded by the     *)
(* expiry, reclaim and emergency paths without the sale record changing.   *)
(***************************************************************************)
EXTENDS FeeManager

CONSTANTS
    MaxSales,            \* bound: sales created in a behaviour
    Prices,              \* price arguments of create_sale
    Durations,           \* duration_seconds arguments of create_sale
    MaxSaleDuration,     \* 2592000
    LedgerCloseSeconds,  \* EXPECTED_LEDGER_CLOSE_SECONDS
    StartSwapConfig,     \* the SwapTimeoutConfig in force after initialize
    SwapConfigs,         \* configurations an admin may submit
    CleanupLimits,       \* limit arguments of cleanup_expired_swaps
    DefaultCleanupLimit  \* DEFAULT_CLEANUP_LIMIT

SwapConfigType == [maxDuration : Nat, defaultDuration : Nat, grace : Nat,
                   tolerance : Nat, buffer : Nat]

(* validate_timeout_config *)
ValidSwapConfig(c) ==
    /\ c.maxDuration > 0 /\ c.defaultDuration > 0
    /\ c.defaultDuration <= c.maxDuration
    /\ c.tolerance > 0

ASSUME SaleAssumption ==
    /\ MaxSales \in Nat
    /\ Prices \subseteq Nat
    /\ Durations \subseteq Nat
    /\ MaxSaleDuration \in Nat
    /\ LedgerCloseSeconds \in Nat \ {0}
    /\ SwapConfigs \subseteq SwapConfigType
    /\ StartSwapConfig \in SwapConfigType
    /\ ValidSwapConfig(StartSwapConfig)
    /\ CleanupLimits \subseteq Nat
    /\ DefaultCleanupLimit \in Nat \ {0}

VARIABLES
    nextSale,   \* NEXT_SALE_ID, and next_swap, which counts in step
    sale,       \* SALE_TRANSACTIONS
    swap,       \* ATOMIC_SWAPS, by transaction id
    swapConfig  \* SWAP_TIMEOUT_CFG

saleVars == <<nextSale, sale, swap, swapConfig>>
SaleIds == 1..(nextSale - 1)

SaleStates == {"Pending", "Executed", "Cancelled", "Resolved"}
SwapStates == {"SellerFunded", "Executed", "Failed"}
TerminalSwap == {"Executed", "Failed"}

Sales == [seller : Users, buyer : Users \union {NoUser}, token : Tokens,
          price : Nat, state : SaleStates, createdAt : Nat, expiresAt : Nat,
          creator : Users, royalty : Nat, share : Int, fee : Nat]

NftHoldings == [holder : Users, token : Tokens, deposited : BOOLEAN,
                released : BOOLEAN]
PayHoldings == [holder : Users, amount : Nat, deposited : BOOLEAN,
                released : BOOLEAN]
Swaps == [nft : NftHoldings, pay : PayHoldings, state : SwapStates,
          expiresAt : Nat, expiresAtLedger : Nat, escrowUntil : Nat]

SaleTypeOK ==
    /\ nextSale \in 1..(MaxSales + 1)
    /\ sale \in [SaleIds -> Sales]
    /\ swap \in [SaleIds -> Swaps]
    /\ swapConfig \in SwapConfigType

SaleInit ==
    /\ nextSale = 1
    /\ sale = [i \in {} |-> {}]
    /\ swap = [i \in {} |-> {}]
    /\ swapConfig = StartSwapConfig

-----------------------------------------------------------------------------
(* Escrow holdings. *)

(* Deposited and not yet released: what every payout path looks for. *)
Live(h) == h.deposited /\ ~h.released

(* Mutant: released_at is not stamped. *)
ReleaseForgotten(h) == h

Release(h) == [h EXCEPT !.released = @ \/ h.deposited]
Released(w) == [w EXCEPT !.nft = Release(@), !.pay = Release(@)]

(* is_expired *)
SwapExpired(i) == now > swap[i].expiresAt + swapConfig.grace

(* Mutant: on the timestamp alone. *)
ExpiryConfirmedByTime(i) == SwapExpired(i)

(* is_expiry_confirmed: both clocks, under the configuration of today. *)
ExpiryConfirmed(i) ==
    /\ SwapExpired(i)
    /\ ledger >= swap[i].expiresAtLedger + swapConfig.tolerance

(* What the payment holdings of S owe to the holders in `who'. *)
Owed(S, who) ==
    LET due == {i \in S : Live(swap[i].pay) /\ swap[i].pay.holder \in who}
    IN  IF due = {} THEN 0
        ELSE MapThenSumSet(LAMBDA i : swap[i].pay.amount, due)

(* refund_holdings: each live holding of the swaps S goes back to the      *)
(* address that deposited it.                                              *)
RefundHoldings(S) ==
    LET due(t) == {i \in S : Live(swap[i].nft) /\ swap[i].nft.token = t}
    IN  /\ \A t \in Tokens : due(t) # {} => owner[t] = Contract
        /\ owner' = [t \in Tokens |->
              IF due(t) = {} THEN owner[t]
              ELSE swap[CHOOSE i \in due(t) : TRUE].nft.holder]
        /\ balance[Contract] >= Owed(S, Users)
        /\ balance' = [a \in Accounts |->
              IF a = Contract THEN balance[a] - Owed(S, Users)
                              ELSE balance[a] + Owed(S, {a})]

(* Mutants: an executed swap is overwritten; a refunded swap stays open.   *)
FailSwapsAnyState(S) ==
    swap' = [i \in SaleIds |->
               IF i \in S THEN [Released(swap[i]) EXCEPT !.state = "Failed"] ELSE swap[i]]
FailSwapsLeftOpen(S) ==
    swap' = [i \in SaleIds |-> IF i \in S THEN Released(swap[i]) ELSE swap[i]]

(* A refund ends its swap as Failed, unless the swap was executed.         *)
FailSwaps(S) ==
    swap' = [i \in SaleIds |->
               IF i \in S
               THEN [Released(swap[i]) EXCEPT
                       !.state = IF @ = "Executed" THEN @ ELSE "Failed"]
               ELSE swap[i]]

-----------------------------------------------------------------------------
(* create_sale: the fee and the royalty split are quoted now and frozen in *)
(* the record; the NFT moves into escrow in the same invocation.           *)
CreateSale(s, t, price, duration) ==
    LET royalty == Percentage(price, Royalty.bps)
        fee == FeeFor(price, s)
        expiresAt == now + duration
        escrowUntil == expiresAt + swapConfig.grace + swapConfig.buffer
    IN  /\ nextSale <= MaxSales
        /\ escrowUntil < MaxTime
        /\ ModuleOpen("sales")
        /\ BlockChecked(s)
        /\ RateCounted(s, "create_sale")
        /\ {"nft", "token"} \subseteq allowed
        /\ duration \in 1..MaxSaleDuration
        /\ duration <= swapConfig.maxDuration
        /\ fee >= 0
        /\ MoveNft(t, s, Contract)
        /\ nextSale' = nextSale + 1
        /\ sale' = [i \in 1..nextSale |-> IF i < nextSale THEN sale[i] ELSE
              [seller |-> s, buyer |-> NoUser, token |-> t, price |-> price,
               state |-> "Pending", createdAt |-> now, expiresAt |-> expiresAt,
               creator |-> Royalty.creator, royalty |-> royalty,
               share |-> price - royalty - fee, fee |-> fee]]
        /\ swap' = [i \in 1..nextSale |-> IF i < nextSale THEN swap[i] ELSE
              [nft |-> [holder |-> s, token |-> t,
                        deposited |-> TRUE, released |-> FALSE],
               pay |-> [holder |-> s, amount |-> price,
                        deposited |-> FALSE, released |-> FALSE],
               state |-> "SellerFunded", expiresAt |-> expiresAt,
               expiresAtLedger |-> ledger + duration \div LedgerCloseSeconds,
               escrowUntil |-> escrowUntil]]
        /\ UNCHANGED <<swapConfig, balance, feeVars>>
        /\ UNCHANGED <<now, ledger, adminVars>>

(* What execute_sale and execute_sale_swap ask of the sale and its swap.   *)
Executable(i) ==
    /\ sale[i].state = "Pending"
    /\ now < sale[i].expiresAt
    /\ swap[i].state = "SellerFunded"

(* execute_sale: payment in, NFT out, royalties and the seller's share     *)
(* paid from the frozen split, the platform fee booked.  The payment       *)
(* holding is stamped released but never marked deposited.                 *)
ExecuteSale(i, b) ==
    /\ i \in SaleIds
    /\ ModuleOpen("sales")
    /\ BlockChecked(b)
    /\ Executable(i)
    /\ MoveNft(swap[i].nft.token, Contract, b)
    /\ PayInThenOut(b, swap[i].pay.amount,
                    sale[i].creator, sale[i].royalty,
                    sale[i].seller, sale[i].share)
    /\ CollectFee(sale[i].fee, b)
    /\ sale' = [sale EXCEPT ![i].buyer = b, ![i].state = "Executed"]
    /\ swap' = [swap EXCEPT ![i].nft.released = TRUE,
                            ![i].pay.holder = b, ![i].pay.released = TRUE,
                            ![i].state = "Executed"]
    /\ UNCHANGED <<now, ledger, adminVars, rate>>
    /\ UNCHANGED <<feeConfig, nextSale, swapConfig>>

(* What an escrow-only entrypoint leaves alone. *)
EscrowFrame == UNCHANGED <<clockVars, accessVars, feeVars, nextSale, swapConfig>>

(* cancel_transaction("sale"): the seller, before or after the deadline. *)
CancelSale(i) ==
    /\ i \in SaleIds
    /\ GloballyOpen
    /\ sale[i].state = "Pending"
    /\ swap[i].state \notin TerminalSwap
    /\ RefundHoldings({i})
    /\ FailSwaps({i})
    /\ sale' = [sale EXCEPT ![i].state = "Cancelled"]
    /\ EscrowFrame

(* expire_swap: anyone, once both clocks agree.  The sale record keeps its *)
(* state.                                                                  *)
ExpireSwap(i) ==
    /\ i \in SaleIds
    /\ GloballyOpen
    /\ swap[i].state \notin TerminalSwap
    /\ ExpiryConfirmed(i)
    /\ RefundHoldings({i})
    /\ FailSwaps({i})
    /\ UNCHANGED sale
    /\ EscrowFrame

(* cleanup_expired_swaps: the first `limit' confirmed swaps, by id. *)
CleanupExpiredSwaps(limit) ==
    LET max == IF limit = 0 THEN DefaultCleanupLimit ELSE limit
        due == {i \in SaleIds : swap[i].state \notin TerminalSwap
                                /\ ExpiryConfirmed(i)}
        swept == {i \in due : Cardinality({j \in due : j < i}) < max}
    IN  /\ GloballyOpen
        /\ swept # {}
        /\ RefundHoldings(swept)
        /\ FailSwaps(swept)
        /\ UNCHANGED sale
        /\ EscrowFrame

(* Mutant: gated by the circuit breaker like expire_swap. *)
ReclaimWhenOpen(i) ==
    /\ i \in SaleIds
    /\ GloballyOpen
    /\ now > swap[i].escrowUntil
    /\ Live(swap[i].nft) \/ Live(swap[i].pay)
    /\ RefundHoldings({i})
    /\ FailSwaps({i})
    /\ UNCHANGED sale
    /\ EscrowFrame

(* reclaim_expired_escrow: anyone, paused or not, whatever the swap state, *)
(* on the timestamp alone.                                                 *)
ReclaimExpiredEscrow(i) ==
    /\ i \in SaleIds
    /\ now > swap[i].escrowUntil
    /\ Live(swap[i].nft) \/ Live(swap[i].pay)
    /\ RefundHoldings({i})
    /\ FailSwaps({i})
    /\ UNCHANGED sale
    /\ EscrowFrame

(* emergency_withdraw: the admin, at any time, paused or not. *)
EmergencyWithdraw(i) ==
    /\ i \in SaleIds
    /\ RefundHoldings({i})
    /\ FailSwaps({i})
    /\ UNCHANGED sale
    /\ EscrowFrame

(* update_swap_timeout_config: deadlines already frozen in swaps stay,     *)
(* the grace and tolerance read by ExpiryConfirmed change at once.         *)
UpdateSwapTimeoutConfig(c) ==
    /\ ValidSwapConfig(c)
    /\ swapConfig' = c
    /\ UNCHANGED <<clockVars, assetVars, accessVars, feeVars, nextSale, sale, swap>>

SaleNext ==
    \/ \E s \in Users, t \in Tokens, p \in Prices, d \in Durations :
          CreateSale(s, t, p, d)
    \/ \E i \in 1..MaxSales, b \in Users : ExecuteSale(i, b)
    \/ \E i \in 1..MaxSales : CancelSale(i)
    \/ \E i \in 1..MaxSales : ExpireSwap(i)
    \/ \E n \in CleanupLimits : CleanupExpiredSwaps(n)
    \/ \E i \in 1..MaxSales : ReclaimExpiredEscrow(i)
    \/ \E i \in 1..MaxSales : EmergencyWithdraw(i)
    \/ \E c \in SwapConfigs : UpdateSwapTimeoutConfig(c)
=============================================================================
