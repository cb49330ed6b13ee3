----------------------------- MODULE SaleMarket -----------------------------
(***************************************************************************)
(* The sale side of the settlement contract as one system: sales and their *)
(* escrow (SaleEscrow), the fee ledger (FeeManager), the access policy     *)
(* (AccessPolicy) and the ledger they run on (MarketLedger).               *)
(***************************************************************************)
EXTENDS SaleEscrow

vars == <<ledgerVars, accessVars, feeVars, saleVars>>

Init == LedgerInit /\ AccessInit /\ FeeInit /\ SaleInit

LedgerStep == LedgerNext /\ UNCHANGED <<accessVars, feeVars, saleVars>>
AccessStep == AccessNext /\ UNCHANGED <<ledgerVars, feeVars, saleVars>>
FeeStep == FeeNext /\ UNCHANGED <<clockVars, accessVars, saleVars>>

Next == SaleNext \/ LedgerStep \/ AccessStep \/ FeeStep

Spec == Init /\ [][Next]_vars

(* Ledgers keep closing, and somebody - the depositor has every reason to  *)
(* - calls the permissionless reclaim_expired_escrow when it would pay.    *)
(* Nothing is assumed of sellers, buyers or the admin, who may keep the    *)
(* contract paused for ever.                                               *)
Fairness ==
    /\ WF_vars(CloseLedger /\ UNCHANGED <<accessVars, feeVars, saleVars>>)
    /\ \A i \in 1..MaxSales : WF_vars(ReclaimExpiredEscrow(i))

FairSpec == Spec /\ Fairness

-----------------------------------------------------------------------------
(* Variables hold values of their types. *)
TypeOK == LedgerTypeOK /\ AccessTypeOK /\ FeeTypeOK /\ SaleTypeOK

Claims(t) == {i \in SaleIds : Live(swap[i].nft) /\ swap[i].nft.token = t}

(* Custody: the contract holds a token exactly when one swap has it in     *)
(* escrow, and never on behalf of two.  A token that comes back from a     *)
(* failed sale and is listed again must not be within reach of the first   *)
(* sale's refund paths (released_at in refund_holding_vec).                *)
Custody ==
    /\ \A i, j \in SaleIds :
          Live(swap[i].nft) /\ Live(swap[j].nft)
          /\ swap[i].nft.token = swap[j].nft.token => i = j
    /\ \A t \in Tokens : owner[t] = Contract <=> Claims(t) # {}

(* A swap is terminal exactly when its escrow is empty: no path ends a     *)
(* swap and leaves the NFT behind, and none empties it and leaves the swap *)
(* able to execute.                                                        *)
TerminalMeansEmpty ==
    \A i \in SaleIds : swap[i].state \in TerminalSwap <=> ~Live(swap[i].nft)

(* The sale record and its swap agree on how the sale ended, although the  *)
(* refund paths write only one of the two.                                 *)
SaleAgreesWithSwap ==
    \A i \in SaleIds :
        /\ sale[i].state = "Executed" <=> swap[i].state = "Executed"
        /\ sale[i].state = "Cancelled" => swap[i].state = "Failed"

(* Escrow, swap and sale record, which the sale and refund paths write     *)
(* separately, agree on whether and how a sale has ended.                  *)
EndingsAgree == TerminalMeansEmpty /\ SaleAgreesWithSwap

(* Between invocations the contract's payment balance is the platform's    *)
(* booked fees, to the unit: sales neither leave dust behind nor pay       *)
(* royalties out of somebody's fees, whatever fee configuration was in     *)
(* force when each was quoted.                                             *)
BalanceIsFees == balance[Contract] = accumulated

(* Nothing a sequence of invocations does creates or destroys payment      *)
(* tokens.                                                                 *)
MoneyConserved == SupplyOf(balance) = Cardinality(Users) * StartBalance

(* Outcomes are final: an executed or failed swap, and an executed or      *)
(* cancelled sale, never changes again, and deadlines never move.          *)
FinalityStep ==
    \A i \in SaleIds :
        /\ swap[i].state \in TerminalSwap => swap'[i] = swap[i]
        /\ sale[i].state # "Pending" => sale'[i] = sale[i]
        /\ swap'[i].escrowUntil = swap[i].escrowUntil
        /\ swap'[i].expiresAt = swap[i].expiresAt
Finality == [][FinalityStep]_vars

(* While a buyer can still execute a sale, nobody but its buyer, its       *)
(* seller or the admin takes the NFT out of escrow: a refund anyone may    *)
(* trigger waits until the sale has expired, and then until a ledger has   *)
(* closed past the projected expiry ledger or the backstop has passed -    *)
(* also when the admin shortens grace or tolerance while the swap is open. *)
AnyonesRefund(i) ==
    \/ ExpireSwap(i)
    \/ ReclaimExpiredEscrow(i)
    \/ \E n \in CleanupLimits : CleanupExpiredSwaps(n)

LateRefundStep ==
    \A i \in SaleIds :
        Live(swap[i].nft) /\ ~Live(swap'[i].nft) /\ AnyonesRefund(i) =>
            /\ now > sale[i].expiresAt
            /\ ledger > swap[i].expiresAtLedger \/ now > swap[i].escrowUntil
LateRefund == [][LateRefundStep]_vars

(* A refund gives the NFT to the seller who deposited it, a sale to the    *)
(* buyer recorded in it, who is not blocked and buys while sales are open. *)
ReleaseStep ==
    \A i \in SaleIds :
        Live(swap[i].nft) /\ ~Live(swap'[i].nft) =>
            IF swap'[i].state = "Executed"
            THEN /\ owner'[sale[i].token] = sale'[i].buyer
                 /\ ~BlockLive(sale'[i].buyer)
                 /\ ModuleOpen("sales")
            ELSE owner'[sale[i].token] = sale[i].seller
ReleasedToTheRightParty == [][ReleaseStep]_vars

(* The fixed rate window admits a burst at each of its ends, but never     *)
(* more: a seller creates at most 2 * limit - 1 sales within any stretch   *)
(* of time as long as a window, wherever it starts, also when the admin    *)
(* changes limit and window underneath, and although window state is kept  *)
(* per caller and reset lazily.  (For the largest limit and the smallest   *)
(* window in use.)                                                         *)
RateBound ==
    LET configs == LimitChoices \union {DefaultLimit["create_sale"]}
        most == CHOOSE c \in configs : \A d \in configs : c.limit >= d.limit
        least == CHOOSE c \in configs : \A d \in configs : c.window <= d.window
    IN  \A i \in SaleIds :
            Cardinality({j \in SaleIds :
                /\ sale[j].seller = sale[i].seller
                /\ sale[i].createdAt <= sale[j].createdAt
                /\ sale[j].createdAt < sale[i].createdAt + least.window})
            <= 2 * most.limit - 1

(* A scheduled pause is a promise with a timelock: until it takes effect - *)
(* as announced, and no earlier than the minimum delay after it was        *)
(* announced - it can be cancelled but not replaced, and pausing and       *)
(* unpausing at once do not disturb it.                                    *)
TimelockStep ==
    scheduled.active =>
        \/ scheduled' = scheduled
        \/ /\ ~scheduled'.active
           /\ \/ pause' = pause
              \/ /\ now >= scheduled.since + MinPauseDelay
                 /\ pause' = [paused |-> TRUE, modules |-> scheduled.modules]
PauseTimelock == [][TimelockStep]_vars

(* Escrow can never be locked indefinitely: every NFT taken into escrow    *)
(* leaves it again, even if the contract stays paused and no party acts.   *)
EscrowReturned ==
    \A i \in 1..MaxSales :
        (i \in SaleIds /\ Live(swap[i].nft)) ~> (i \in SaleIds /\ ~Live(swap[i].nft))

=============================================================================
