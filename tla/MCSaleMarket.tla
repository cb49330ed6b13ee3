---------------------------- MODULE MCSaleMarket ----------------------------
(* Small instances of SaleMarket for TLC. *)
EXTENDS SaleMarket, TLC

CONSTANTS alice, bob, t1, t2, t3

MCStartOwner == [t \in Tokens |-> alice]

FlatFee(bps, minFee, maxFee) ==
    [bps |-> bps, minFee |-> minFee, maxFee |-> maxFee, dynamic |-> FALSE,
     tiers |-> <<>>, vip |-> {}, recipient |-> alice]

(* 2.5% with a floor of 1, and a dynamic 10% with one discount tier. *)
MCFlatFee == FlatFee(250, 1, 0)
MCDynamicFee ==
    [bps |-> 1000, minFee |-> 0, maxFee |-> 3, dynamic |-> TRUE,
     tiers |-> <<[minVolume |-> 1, discount |-> 500]>>, vip |-> {},
     recipient |-> alice]
MCFeeConfigs == {MCFlatFee, MCDynamicFee}

MCNoLimits == [f \in RatedCalls |-> [limit |-> 10, window |-> 60]]
MCTightLimits == [f \in RatedCalls |-> [limit |-> 2, window |-> 2]]
MCLooserLimits == {[limit |-> 2, window |-> 3]}

Timeouts(grace, tolerance, buffer) ==
    [maxDuration |-> 4, defaultDuration |-> 2, grace |-> grace,
     tolerance |-> tolerance, buffer |-> buffer]
MCSwapConfig == Timeouts(1, 1, 1)
MCSwiftConfig == Timeouts(0, 1, 0)
MCSwapConfigs == {Timeouts(0, 2, 1)}

MCRoyalty == [creator |-> IF bob \in Users THEN bob ELSE alice, bps |-> 1000]

MCPauseAll == {{"all"}}
MCPauses == {{"sales"}, {"auctions"}}
MCNone == {}
=============================================================================
