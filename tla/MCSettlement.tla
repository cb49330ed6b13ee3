----------------------------- MODULE MCSettlement -----------------------------
(* Small instances of Settlement for TLC. *)
EXTENDS Settlement, TLC

CONSTANTS alice, bob, t1, t2

MCStartOwner == [t \in Tokens |-> alice]
MCFee ==
    [bps |-> 250, minFee |-> 1, maxFee |-> 0, dynamic |-> FALSE,
     tiers |-> <<>>, vip |-> {}, recipient |-> alice]
MCNoLimits == [f \in RatedCalls |-> [limit |-> 10, window |-> 60]]
MCRoyalty == [creator |-> bob, bps |-> 1000]
MCSwapConfig == [maxDuration |-> 4, defaultDuration |-> 2, grace |-> 1,
                 tolerance |-> 1, buffer |-> 1]
MCPauseDisputes == {{"disputes"}}
MCNone == {}

Dispute(quorum, most, timeout) ==
    [quorum |-> quorum, most |-> most, minReputation |-> 50,
     timeout |-> timeout, splitBps |-> 5000, default |-> "RefundBuyer"]
MCOneJudge == Dispute(1, 2, 2)
MCTwoJudges == Dispute(2, 2, 2)
MCBadMark == {-60}
MCChanges == {Dispute(1, 1, 1)}
=============================================================================
