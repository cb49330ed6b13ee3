---------------------------- MODULE MarketLedger ----------------------------
(***************************************************************************)
(* The world the settlement contract runs in: the Stellar ledger (a close  *)
(* time and a sequence number), the one NFT contract it trades and the one *)
(* payment token it settles in.  None of them is part of the contract; it  *)
(* reaches them through utils/asset_utils.rs and env.ledger().             *)
(*                                                                         *)
(* A Soroban invocation is atomic: an entrypoint that returns Err, or      *)
(* whose cross-contract call fails, leaves no trace.  Every action of the  *)
(* modules built on this one is therefore one whole successful invocation, *)
(* and each failure path of the code is a conjunct that disables it.       *)
(***************************************************************************)
EXTENDS Integers, FiniteSets, FiniteSetsExt

CONSTANTS
    Users,          \* addresses that are not the settlement contract
    Contract,       \* env.current_contract_address()
    Tokens,         \* token ids of the allowlisted NFT contract
    StartOwner,     \* [Tokens -> Users], who holds each token at first
    StartBalance,   \* payment tokens each user holds at first
    TradedOutside,  \* tokens that also change hands outside the marketplace
    CloseIntervals, \* seconds one ledger close may take
    MaxTime         \* bound: ledgers close up to this timestamp

ASSUME LedgerAssumption ==
    /\ Contract \notin Users
    /\ StartOwner \in [Tokens -> Users]
    /\ StartBalance \in Nat
    /\ TradedOutside \subseteq Tokens
    /\ CloseIntervals \subseteq Nat \ {0}
    /\ MaxTime \in Nat

Accounts == Users \union {Contract}

VARIABLES
    now,      \* env.ledger().timestamp()
    ledger,   \* env.ledger().sequence()
    owner,    \* owner_of each NFT
    balance   \* payment token balance of each account

clockVars == <<now, ledger>>
assetVars == <<owner, balance>>
ledgerVars == <<now, ledger, owner, balance>>

LedgerTypeOK ==
    /\ now \in Nat
    /\ ledger \in Nat
    /\ owner \in [Tokens -> Accounts]
    /\ balance \in [Accounts -> Nat]

LedgerInit ==
    /\ now = 1
    /\ ledger = 1
    /\ owner = StartOwner
    /\ balance = [a \in Accounts |-> IF a = Contract THEN 0 ELSE StartBalance]

-----------------------------------------------------------------------------
(* transfer_tokens: a negative amount is InvalidAmount, and the token      *)
(* contract refuses to overdraw the sender.  Every invocation here pays    *)
(* out to at most two recipients, r with x and s with y; when they are the *)
(* same address the code adds the two amounts up before it transfers.      *)
(* Mutant: the second amount overwrites the first instead of adding to it. *)
ReceivedOnce(a, r, x, s, y) ==
    IF a = s THEN y ELSE IF a = r THEN x ELSE 0

Received(a, r, x, s, y) ==
    (IF a = r THEN x ELSE 0) + (IF a = s THEN y ELSE 0)

Payable(r, x, s, y) == IF r = s THEN x + y >= 0 ELSE x >= 0 /\ y >= 0

PayOut(r, x, s, y) ==
    /\ Payable(r, x, s, y)
    /\ balance[Contract] >= x + y
    /\ balance' = [a \in Accounts |->
          IF a = Contract THEN balance[a] - (x + y)
                          ELSE balance[a] + Received(a, r, x, s, y)]

(* `from' pays the contract `amount', and the contract pays out, in one    *)
(* invocation: the payment arrives before anything leaves.                 *)
PayInThenOut(from, amount, r, x, s, y) ==
    /\ 0 <= amount /\ amount <= balance[from]
    /\ Payable(r, x, s, y)
    /\ balance[Contract] + amount >= x + y
    /\ balance' = [a \in Accounts |->
          IF a = Contract THEN balance[a] + amount - (x + y)
          ELSE balance[a] - (IF a = from THEN amount ELSE 0)
                          + Received(a, r, x, s, y)]

(* transfer_nft: the NFT contract refuses a sender that is not the owner. *)
MoveNft(t, from, to) ==
    /\ owner[t] = from
    /\ owner' = [owner EXCEPT ![t] = to]

-----------------------------------------------------------------------------
(* A ledger closes: the sequence grows by one, the close time by however  *)
(* long consensus took.                                                    *)
CloseLedger ==
    /\ \E d \in CloseIntervals :
          /\ now + d <= MaxTime
          /\ now' = now + d
    /\ ledger' = ledger + 1
    /\ UNCHANGED assetVars

(* Owners trade outside the marketplace too. *)
TransferOutside(t, u, v) ==
    /\ u # v
    /\ MoveNft(t, u, v)
    /\ UNCHANGED <<now, ledger, balance>>

LedgerNext ==
    \/ CloseLedger
    \/ \E t \in TradedOutside, u, v \in Users : TransferOutside(t, u, v)

(* Payment tokens are only ever moved, by any sequence of invocations. *)
SupplyOf(b) == SumFunctionOnSet(b, Accounts)
=============================================================================
