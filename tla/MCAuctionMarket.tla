--------------------------- MODULE MCAuctionMarket ---------------------------
(* Small instances of AuctionMarket for TLC. *)
EXTENDS AuctionMarket, TLC

CONSTANTS alice, bob, carol, t1, t2

MCStartOwner == [t \in Tokens |-> alice]

(* 2.5% with a floor of 1, and 10% of which the admin may withdraw. *)
FlatFee(bps, minFee, recipient) ==
    [bps |-> bps, minFee |-> minFee, maxFee |-> 0, dynamic |-> FALSE,
     tiers |-> <<>>, vip |-> {}, recipient |-> recipient]
MCFee == FlatFee(250, 1, bob)
MCFeeConfigs == {FlatFee(1000, 0, alice)}
MCHighFloor == {FlatFee(0, 12, bob)}

MCNoLimits == [f \in RatedCalls |-> [limit |-> 10, window |-> 60]]
MCRoyalty == [creator |-> alice, bps |-> 1000]
MCPauseAll == {{"all"}}
MCNone == {}
=============================================================================
