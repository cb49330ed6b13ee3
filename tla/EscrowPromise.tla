---------------------------- MODULE EscrowPromise ----------------------------
(***************************************************************************)
(* What marketplace_settlement promises whoever hands it an NFT or bids    *)
(* for one, without sales, swaps, auctions, disputes, fees or clocks.  A   *)
(* thing given into keeping carries a claim: who gave it, the least to be  *)
(* paid for it, what of that is sure to reach the depositor, and the       *)
(* pledge made for it so far.  It comes out once: to its depositor,        *)
(* whereby the pledge goes back to the unit, or to the one who pays.       *)
(* Nobody's money ever falls but that of a party who pledges or pays.      *)
(***************************************************************************)
EXTENDS Integers

CONSTANTS
    Things,   \* what is kept
    Parties,  \* who deposit, pledge and pay
    Keeper,   \* who keeps
    NoParty,  \* nobody
    Amounts   \* prices asked and amounts pledged

VARIABLES
    holder,   \* of each thing
    claim,    \* on each thing
    purse     \* the money of each party

vars == <<holder, claim, purse>>

Unclaimed ==
    [depositor |-> NoParty, ask |-> 0, due |-> 0, pledger |-> NoParty, pledge |-> 0]

Init ==
    /\ holder \in [Things -> Parties]
    /\ claim = [t \in Things |-> Unclaimed]
    /\ purse \in [Parties -> Nat]

Kept == {t \in Things : holder[t] = Keeper}

NobodyLoses(others) == \A p \in others : purse'[p] >= purse[p]

Deposit(t, p, ask, due) ==
    /\ holder[t] = p
    /\ holder' = [holder EXCEPT ![t] = Keeper]
    /\ claim' = [claim EXCEPT ![t] = [depositor |-> p, ask |-> ask, due |-> due,
                                      pledger |-> NoParty, pledge |-> 0]]
    /\ UNCHANGED purse

(* A higher pledge takes the place of the standing one, which goes back. *)
Pledge(t, p, amount) ==
    /\ t \in Kept
    /\ amount >= claim[t].ask /\ amount > claim[t].pledge
    /\ claim' = [claim EXCEPT ![t].pledger = p, ![t].pledge = amount]
    /\ purse' = [q \in Parties |->
          purse[q] - (IF q = p THEN amount ELSE 0)
                   + (IF q = claim[t].pledger THEN claim[t].pledge ELSE 0)]
    /\ UNCHANGED holder

(* Things for which nobody has pledged go back to their depositors. *)
Return(S) ==
    /\ \A t \in S : claim[t].pledger = NoParty
    /\ holder' = [t \in Things |-> IF t \in S THEN claim[t].depositor ELSE holder[t]]
    /\ claim' = [t \in Things |-> IF t \in S THEN Unclaimed ELSE claim[t]]
    /\ UNCHANGED purse

Leaves(t, p) ==
    /\ t \in Kept
    /\ holder' = [holder EXCEPT ![t] = p]
    /\ claim' = [claim EXCEPT ![t] = Unclaimed]

(* Thing and pledge go back. *)
CallOff(t) ==
    /\ Leaves(t, claim[t].depositor)
    /\ claim[t].pledger # NoParty
    /\ purse' = [purse EXCEPT ![claim[t].pledger] = @ + claim[t].pledge]

(* The pledger gets the thing; of the pledge the depositor gets what fees  *)
(* and royalties leave.                                                    *)
Award(t) ==
    LET seller == claim[t].depositor
    IN  /\ Leaves(t, claim[t].pledger)
        /\ claim[t].pledger # NoParty
        /\ NobodyLoses(Parties)
        /\ purse'[seller] <= purse[seller] + claim[t].pledge

(* A buyer pays what is asked and not more, and the depositor gets at      *)
(* least what was due to be paid when the thing was deposited.             *)
Sell(t, b) ==
    LET seller == claim[t].depositor
    IN  /\ Leaves(t, b)
        /\ claim[t].pledger = NoParty
        /\ NobodyLoses(Parties \ {b})
        /\ purse'[b] >= purse[b] - claim[t].ask
        /\ b # seller => /\ purse'[seller] >= purse[seller] + claim[t].due
                         /\ purse'[seller] <= purse[seller] + claim[t].ask

(* What is not kept changes hands, and money comes in from elsewhere. *)
Elsewhere ==
    /\ holder' \in [Things -> Parties \union {Keeper}]
    /\ \A t \in Things : holder'[t] = Keeper <=> t \in Kept
    /\ UNCHANGED claim
    /\ NobodyLoses(Parties)

Next ==
    \/ \E t \in Things, p \in Parties, ask \in Amounts :
          \/ \E due \in 0..ask : Deposit(t, p, ask, due)
          \/ Pledge(t, p, ask)
    \/ \E S \in SUBSET Kept : Return(S)
    \/ \E t \in Things : CallOff(t) \/ Award(t) \/ \E b \in Parties : Sell(t, b)
    \/ Elsewhere

Spec == Init /\ [][Next]_vars
=============================================================================
