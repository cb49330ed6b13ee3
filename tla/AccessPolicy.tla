---------------------------- MODULE AccessPolicy ----------------------------
(***************************************************************************)
(* Who may call what, and when: the pause circuit breaker                  *)
(* (pause_manager.rs), the blocklist (storage/blocklist_store.rs), the     *)
(* allowlists (storage/allowlist_store.rs) and the per-caller rate limits  *)
(* (security/rate_limiter.rs).  The admin entrypoints compare the caller   *)
(* with admin_cfg.admin, which initialize writes once.                     *)
(***************************************************************************)
EXTENDS MarketLedger

CONSTANTS
    PauseChoices,    \* sets of module names an admin pauses
    PauseDelays,     \* delay_seconds arguments of schedule_pause
    MinPauseDelay,   \* 3600
    MaxPauseDelay,   \* 604800
    BlockUntil,      \* expires_at arguments of block_address (0: None)
    BlockTargets,    \* addresses an admin blocks
    RatedCalls,      \* rate limited entrypoints of the modules in use
    DefaultLimit,    \* [RatedCalls -> [limit, window]], get_config's defaults
    LimitChoices,    \* [limit, window] arguments of update_rate_limit
    DelistChoices    \* which allowlist entries an admin toggles: "nft", "token"

Modules == {"sales", "auctions", "trades", "bundles", "disputes", "withdrawals"}
RateConfigs == [limit : Nat, window : Nat]

ASSUME AccessAssumption ==
    /\ PauseChoices \subseteq SUBSET (Modules \union {"all"})
    /\ PauseDelays \subseteq Nat
    /\ MinPauseDelay \in Nat
    /\ MaxPauseDelay \in Nat
    /\ BlockUntil \subseteq Nat
    /\ BlockTargets \subseteq Users
    /\ DefaultLimit \in [RatedCalls -> RateConfigs]
    /\ LimitChoices \subseteq RateConfigs
    /\ DelistChoices \subseteq {"nft", "token"}

VARIABLES
    pause,      \* [paused, modules], PauseInfo; removed means not paused
    scheduled,  \* [active, at, modules, since], ScheduledPause
    blocked,    \* [Users -> [on, until]], until = 0 is expires_at None
    allowed,    \* allowlist entries present
    rateConfig, \* [RatedCalls -> [limit, window]]
    rate        \* [Users -> [RatedCalls -> [start, count]]], start 0: no key

pauseVars == <<pause, scheduled>>
adminVars == <<pause, scheduled, allowed, rateConfig>>
accessVars == <<pause, scheduled, blocked, allowed, rateConfig, rate>>

NotPaused == [paused |-> FALSE, modules |-> {}]
NotScheduled == [active |-> FALSE, at |-> 0, modules |-> {}, since |-> 0]
NotBlocked == [on |-> FALSE, until |-> 0]
NoCalls == [start |-> 0, count |-> 0]

AccessTypeOK ==
    /\ pause \in [paused : BOOLEAN, modules : SUBSET (Modules \union {"all"})]
    /\ scheduled \in [active : BOOLEAN, at : Nat, since : Nat,
                      modules : SUBSET (Modules \union {"all"})]
    /\ blocked \in [Users -> [on : BOOLEAN, until : Nat]]
    /\ allowed \in SUBSET {"nft", "token"}
    /\ rateConfig \in [RatedCalls -> RateConfigs]
    /\ rate \in [Users -> [RatedCalls -> [start : Nat, count : Nat]]]

AccessInit ==
    /\ pause = NotPaused
    /\ scheduled = NotScheduled
    /\ blocked = [u \in Users |-> NotBlocked]
    /\ allowed = {"nft", "token"}
    /\ rateConfig = DefaultLimit
    /\ rate = [u \in Users |-> [f \in RatedCalls |-> NoCalls]]

-----------------------------------------------------------------------------
(* The guards other modules use. *)

(* check_not_paused: any pause at all, whichever modules it names. *)
GloballyOpen == ~pause.paused

(* check_module_not_paused *)
ModuleOpen(m) == ~(pause.paused /\ pause.modules \cap {m, "all"} # {})

(* A record whose expires_at has come no longer blocks. *)
BlockLive(u) ==
    blocked[u].on /\ (blocked[u].until = 0 \/ now < blocked[u].until)

(* Mutant: the record is purged without looking at its expiry. *)
BlockPurged(u) == blocked' = [blocked EXCEPT ![u] = NotBlocked]

(* is_blocked also deletes an expired record as it reads it. *)
BlockChecked(u) ==
    /\ ~BlockLive(u)
    /\ blocked' = [blocked EXCEPT ![u] = NotBlocked]

(* Mutant: one call too many in each window. *)
RateCountedLate(u, f) ==
    IF f \notin RatedCalls THEN UNCHANGED rate ELSE
    LET s == rate[u][f]
        expired == now >= s.start + rateConfig[f].window
    IN  /\ expired \/ s.count <= rateConfig[f].limit
        /\ rate' = [rate EXCEPT ![u][f] =
              IF expired THEN [start |-> now, count |-> 1]
                         ELSE [start |-> s.start, count |-> s.count + 1]]

(* check_rate_limit: a fixed window from the first call in it; a function  *)
(* without a configuration is not limited.                                 *)
RateCounted(u, f) ==
    IF f \notin RatedCalls THEN UNCHANGED rate ELSE
    LET s == rate[u][f]
        fresh == s.start = 0
        start == IF fresh THEN now ELSE s.start
        expired == now >= start + rateConfig[f].window
    IN  /\ expired \/ s.count < rateConfig[f].limit
        /\ rate' = [rate EXCEPT ![u][f] =
              IF expired THEN [start |-> now, count |-> 1]
                         ELSE [start |-> start, count |-> s.count + 1]]

-----------------------------------------------------------------------------
(* Admin entrypoints. *)

PauseContract(mods) ==
    /\ pause' = [paused |-> TRUE, modules |-> mods]
    /\ UNCHANGED <<scheduled, blocked, allowed, rateConfig, rate>>

UnpauseContract ==
    /\ pause.paused
    /\ pause' = NotPaused
    /\ UNCHANGED <<scheduled, blocked, allowed, rateConfig, rate>>

SchedulePause(delay, mods) ==
    /\ ~scheduled.active
    /\ delay \in MinPauseDelay..MaxPauseDelay
    /\ scheduled' = [active |-> TRUE, at |-> now + delay, since |-> now,
                     modules |-> mods]
    /\ UNCHANGED <<pause, blocked, allowed, rateConfig, rate>>

CancelScheduledPause ==
    /\ scheduled.active
    /\ scheduled' = NotScheduled
    /\ UNCHANGED <<pause, blocked, allowed, rateConfig, rate>>

(* Mutant: without waiting for the announced time. *)
ExecuteScheduledPauseEarly ==
    /\ scheduled.active
    /\ pause' = [paused |-> TRUE, modules |-> scheduled.modules]
    /\ scheduled' = NotScheduled
    /\ UNCHANGED <<blocked, allowed, rateConfig, rate>>

ExecuteScheduledPause ==
    /\ scheduled.active
    /\ now >= scheduled.at
    /\ pause' = [paused |-> TRUE, modules |-> scheduled.modules]
    /\ scheduled' = NotScheduled
    /\ UNCHANGED <<blocked, allowed, rateConfig, rate>>

BlockAddress(u, until) ==
    /\ blocked' = [blocked EXCEPT ![u] = [on |-> TRUE, until |-> until]]
    /\ UNCHANGED <<pause, scheduled, allowed, rateConfig, rate>>

UnblockAddress(u) ==
    /\ blocked' = [blocked EXCEPT ![u] = NotBlocked]
    /\ UNCHANGED <<pause, scheduled, allowed, rateConfig, rate>>

(* update_block_reason rewrites the expiry of any record still stored, one *)
(* that has lapsed but was not yet purged included.                        *)
UpdateBlock(u, until) ==
    /\ blocked[u].on
    /\ blocked' = [blocked EXCEPT ![u].until = until]
    /\ UNCHANGED <<pause, scheduled, allowed, rateConfig, rate>>

(* add_/remove_allowed_nft_contract and their token counterparts. *)
SetAllowed(entries) ==
    /\ allowed' = entries
    /\ UNCHANGED <<pause, scheduled, blocked, rateConfig, rate>>

UpdateRateLimit(f, config) ==
    /\ rateConfig' = [rateConfig EXCEPT ![f] = config]
    /\ UNCHANGED <<pause, scheduled, blocked, allowed, rate>>

AccessNext ==
    \/ \E mods \in PauseChoices : PauseContract(mods)
    \/ UnpauseContract
    \/ \E d \in PauseDelays, mods \in PauseChoices : SchedulePause(d, mods)
    \/ CancelScheduledPause
    \/ ExecuteScheduledPause
    \/ \E u \in BlockTargets, until \in BlockUntil : BlockAddress(u, until)
    \/ \E u \in BlockTargets : UnblockAddress(u)
    \/ \E u \in BlockTargets, until \in BlockUntil : UpdateBlock(u, until)
    \/ \E e \in DelistChoices : SetAllowed(allowed \ {e}) \/ SetAllowed(allowed \union {e})
    \/ \E f \in RatedCalls, c \in LimitChoices : UpdateRateLimit(f, c)
=============================================================================
