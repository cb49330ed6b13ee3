----------------------------- MODULE FeeManager -----------------------------
(***************************************************************************)
(* Platform fees (fee_manager.rs), the creators' royalties                 *)
(* (royalty_distributor.rs) and the percentage arithmetic of               *)
(* utils/math_utils.rs.  The key of a royalty record is empty, so all NFTs *)
(* share one record, and no entrypoint writes it: Royalty is a constant.   *)
(* (A contract without the record creates no sale and settles no auction.) *)
(* Amounts are small integers; i128 overflow is an error return there and  *)
(* out of the range of the amounts here.                                   *)
(***************************************************************************)
EXTENDS AccessPolicy, Sequences

CONSTANTS
    StartFeeConfig, \* the FeeConfig handed to initialize
    FeeConfigs,     \* FeeConfigs an admin may submit to update_fee_config
    Admin,          \* admin_cfg.admin
    NoUser,         \* an Option<Address> that is None
    Royalty         \* the record in ROYALTY_CONFIGS: [creator, bps]

VARIABLES
    feeConfig,    \* FEE_CONFIG
    accumulated,  \* ACCUMULATED_FEES of the payment token
    volume        \* USER_VOLUMES

feeVars == <<feeConfig, accumulated, volume>>

-----------------------------------------------------------------------------
(* calculate_percentage: round half up, for a non-negative amount. *)
Percentage(amount, bps) == (amount * bps + 5000) \div 10000

AtLeast(x, lo) == IF x < lo THEN lo ELSE x
AtMost(x, hi) == IF hi > 0 /\ x > hi THEN hi ELSE x

(* math_utils::calculate_fee: the floor first, then the cap (0: no cap). *)
BoundedFee(amount, bps, minFee, maxFee) ==
    AtMost(AtLeast(Percentage(amount, bps), minFee), maxFee)

(* calculate_volume_discount: the first tier the volume reaches. *)
VolumeDiscount(v, tiers) ==
    LET reached == {k \in DOMAIN tiers : v >= tiers[k].minVolume}
        first == CHOOSE k \in reached : \A j \in reached : k <= j
    IN  IF reached = {} THEN 0 ELSE tiers[first].discount

(* FeeManager::calculate_fee *)
FeeFor(amount, user) ==
    LET c == feeConfig
        bps == IF c.dynamic
               THEN AtLeast(c.bps - VolumeDiscount(volume[user], c.tiers), 0)
               ELSE c.bps
    IN  IF c.dynamic /\ user \in c.vip
        THEN 0
        ELSE BoundedFee(amount, bps, c.minFee, c.maxFee)

(* validate_fee_config *)
ValidFeeConfig(c) ==
    /\ c.bps <= 10000
    /\ c.maxFee > 0 => c.minFee < c.maxFee
    /\ \A k \in DOMAIN c.tiers :
          /\ c.tiers[k].minVolume > (IF k = 1 THEN 0 ELSE c.tiers[k - 1].minVolume)
          /\ c.tiers[k].discount <= c.bps

VolumeTiers == [minVolume : Int, discount : Nat]
FeeConfigType == [bps : Nat, minFee : Int, maxFee : Int, dynamic : BOOLEAN,
                  tiers : Seq(VolumeTiers), vip : SUBSET Users, recipient : Users]

ASSUME FeeAssumption ==
    /\ FeeConfigs \subseteq FeeConfigType
    /\ StartFeeConfig \in FeeConfigType
    /\ ValidFeeConfig(StartFeeConfig)
    /\ Admin \in Users
    /\ NoUser \notin Users
    /\ Royalty \in [creator : Users, bps : Nat]
    /\ Royalty.bps <= 5000

FeeTypeOK ==
    /\ feeConfig \in FeeConfigType
    /\ accumulated \in Nat
    /\ volume \in [Users -> Nat]

FeeInit ==
    /\ feeConfig = StartFeeConfig
    /\ accumulated = 0
    /\ volume = [u \in Users |-> 0]

-----------------------------------------------------------------------------
(* Mutant: the fee is booked with the wrong sign. *)
CollectFeeNegated(amount, user) ==
    /\ accumulated' = accumulated - amount
    /\ volume' = [volume EXCEPT ![user] = @ + amount]

(* collect_platform_fee: the fee is already in the contract; it is booked, *)
(* and the buyer's volume grows by the fee.                                *)
CollectFee(amount, user) ==
    /\ accumulated' = accumulated + amount
    /\ volume' = [volume EXCEPT ![user] = @ + amount]

UpdateFeeConfig(c) ==
    /\ ValidFeeConfig(c)
    /\ feeConfig' = c
    /\ UNCHANGED <<accumulated, volume>>
    /\ UNCHANGED assetVars

(* Mutant: the balance due is paid out and not reset. *)
WithdrawPlatformFeesAgain(to) ==
    /\ feeConfig.recipient = Admin
    /\ accumulated > 0
    /\ PayOut(to, accumulated, to, 0)
    /\ UNCHANGED <<owner, feeConfig, accumulated, volume>>

(* withdraw_platform_fees wants the admin to be the fee recipient too. *)
WithdrawPlatformFees(to) ==
    /\ feeConfig.recipient = Admin
    /\ accumulated > 0
    /\ PayOut(to, accumulated, to, 0)
    /\ accumulated' = 0
    /\ UNCHANGED <<owner, feeConfig, volume>>

FeeNext ==
    \/ \E c \in FeeConfigs : UpdateFeeConfig(c)
    \/ \E to \in Users : WithdrawPlatformFees(to)
=============================================================================
