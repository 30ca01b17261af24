------------------------------- MODULE Codec -------------------------------
(***************************************************************************)
(* The forward-compatible binary format of the economy's state             *)
(* (src/types/src/casino/economy.rs). Each struct's Write impl emits its   *)
(* fields in a fixed order as little-endian fixed-width integers; its      *)
(* read_cfg reads them back in order, and reads a trailing field added     *)
(* after the first release only `if reader.remaining() >= size`, otherwise *)
(* taking a documented default. The codec library's decode() then rejects  *)
(* bytes left over (ExtraData), and a required read that finds too few     *)
(* bytes fails (EndOfBuffer).                                              *)
(*                                                                         *)
(* A byte is abstracted to the pair <<field, i>>: the i-th byte of field's *)
(* encoding. A decoded field is the bytes it was read from, or the default *)
(* it took, so a field read from another field's bytes is visible.         *)
(*                                                                         *)
(* State: a struct type, the field count of the release that wrote it (a   *)
(* legacy release wrote a prefix of today's fields), and how many of the   *)
(* written bytes survive; the tail may be lost (spec 7, class 4).          *)
(***************************************************************************)
EXTENDS Naturals, Sequences, SequencesExt

\* Reads of the read_cfg impls: required, or optional with a default.
Req(name, width) == [name |-> name, width |-> width, opt |-> FALSE, dflt |-> "none"]
Opt(name, width, dflt) == [name |-> name, width |-> width, opt |-> TRUE, dflt |-> dflt]

-----------------------------------------------------------------------------
\* HouseState: field byte widths (u64 8, i128/u128 16).
HouseStateFields ==
    [current_epoch |-> 8, epoch_start_ts |-> 8, net_pnl |-> 16,
     total_staked_amount |-> 8, total_voting_power |-> 16,
     accumulated_fees |-> 8, total_burned |-> 8, total_issuance |-> 8,
     total_vusdt_debt |-> 8, stability_fees_accrued |-> 8,
     recovery_pool_vusdt |-> 8, recovery_pool_retired |-> 8,
     three_card_progressive_jackpot |-> 8, uth_progressive_jackpot |-> 8,
     staking_reward_per_voting_power_x18 |-> 16, staking_reward_pool |-> 8,
     staking_reward_carry |-> 8]

HouseStateWrite ==
    <<"current_epoch", "epoch_start_ts", "net_pnl", "total_staked_amount",
      "total_voting_power", "accumulated_fees", "total_burned",
      "total_issuance", "total_vusdt_debt", "stability_fees_accrued",
      "recovery_pool_vusdt", "recovery_pool_retired",
      "three_card_progressive_jackpot", "uth_progressive_jackpot",
      "staking_reward_per_voting_power_x18", "staking_reward_pool",
      "staking_reward_carry">>

\* Mutant: a missing three-card jackpot read as 0 instead of its base.
HouseStateReadJackpotZero ==
    <<Req("current_epoch", 8), Req("epoch_start_ts", 8), Req("net_pnl", 16),
      Req("total_staked_amount", 8), Req("total_voting_power", 16),
      Req("accumulated_fees", 8), Req("total_burned", 8),
      Req("total_issuance", 8),
      Opt("total_vusdt_debt", 8, "zero"), Opt("stability_fees_accrued", 8, "zero"),
      Opt("recovery_pool_vusdt", 8, "zero"), Opt("recovery_pool_retired", 8, "zero"),
      Opt("three_card_progressive_jackpot", 8, "zero"),
      Opt("uth_progressive_jackpot", 8, "uth_base"),
      Opt("staking_reward_per_voting_power_x18", 16, "zero"),
      Opt("staking_reward_pool", 8, "zero"), Opt("staking_reward_carry", 8, "zero")>>

HouseStateRead ==
    <<Req("current_epoch", 8), Req("epoch_start_ts", 8), Req("net_pnl", 16),
      Req("total_staked_amount", 8), Req("total_voting_power", 16),
      Req("accumulated_fees", 8), Req("total_burned", 8),
      Req("total_issuance", 8),
      Opt("total_vusdt_debt", 8, "zero"), Opt("stability_fees_accrued", 8, "zero"),
      Opt("recovery_pool_vusdt", 8, "zero"), Opt("recovery_pool_retired", 8, "zero"),
      Opt("three_card_progressive_jackpot", 8, "three_card_base"),
      Opt("uth_progressive_jackpot", 8, "uth_base"),
      Opt("staking_reward_per_voting_power_x18", 16, "zero"),
      Opt("staking_reward_pool", 8, "zero"), Opt("staking_reward_carry", 8, "zero")>>

HouseStateEncodeSize ==
    <<"current_epoch", "epoch_start_ts", "net_pnl", "total_staked_amount",
      "total_voting_power", "accumulated_fees", "total_burned",
      "total_issuance", "total_vusdt_debt", "stability_fees_accrued",
      "recovery_pool_vusdt", "recovery_pool_retired",
      "three_card_progressive_jackpot", "uth_progressive_jackpot",
      "staking_reward_per_voting_power_x18", "staking_reward_pool",
      "staking_reward_carry">>

-----------------------------------------------------------------------------
StakerFields ==
    [balance |-> 8, unlock_ts |-> 8, last_claim_epoch |-> 8,
     voting_power |-> 16, reward_debt_x18 |-> 16, unclaimed_rewards |-> 8]

StakerWrite ==
    <<"balance", "unlock_ts", "last_claim_epoch", "voting_power",
      "reward_debt_x18", "unclaimed_rewards">>

StakerRead ==
    <<Req("balance", 8), Req("unlock_ts", 8), Req("last_claim_epoch", 8),
      Req("voting_power", 16), Opt("reward_debt_x18", 16, "zero"),
      Opt("unclaimed_rewards", 8, "zero")>>

StakerEncodeSize ==
    <<"balance", "unlock_ts", "last_claim_epoch", "voting_power",
      "reward_debt_x18", "unclaimed_rewards">>

VaultFields == [collateral_rng |-> 8, debt_vusdt |-> 8, last_accrual_ts |-> 8]
VaultWrite == <<"collateral_rng", "debt_vusdt", "last_accrual_ts">>
VaultRead ==
    <<Req("collateral_rng", 8), Req("debt_vusdt", 8), Opt("last_accrual_ts", 8, "zero")>>
VaultEncodeSize ==
    <<"collateral_rng", "debt_vusdt", "last_accrual_ts">>

SavingsPoolFields ==
    [total_deposits |-> 8, reward_per_share_x18 |-> 16, pending_rewards |-> 8,
     total_rewards_accrued |-> 8, total_rewards_paid |-> 8]

SavingsPoolWrite ==
    <<"total_deposits", "reward_per_share_x18", "pending_rewards",
      "total_rewards_accrued", "total_rewards_paid">>

SavingsPoolRead ==
    <<Req("total_deposits", 8), Opt("reward_per_share_x18", 16, "zero"),
      Opt("pending_rewards", 8, "zero"), Opt("total_rewards_accrued", 8, "zero"),
      Opt("total_rewards_paid", 8, "zero")>>

SavingsPoolEncodeSize ==
    <<"total_deposits", "reward_per_share_x18", "pending_rewards",
      "total_rewards_accrued", "total_rewards_paid">>

SavingsBalanceFields ==
    [deposit_balance |-> 8, reward_debt_x18 |-> 16, unclaimed_rewards |-> 8]
SavingsBalanceWrite == <<"deposit_balance", "reward_debt_x18", "unclaimed_rewards">>
SavingsBalanceRead ==
    <<Req("deposit_balance", 8), Opt("reward_debt_x18", 16, "zero"),
      Opt("unclaimed_rewards", 8, "zero")>>
SavingsBalanceEncodeSize ==
    <<"deposit_balance", "reward_debt_x18", "unclaimed_rewards">>

-----------------------------------------------------------------------------
\* u16 fields take 2 bytes.
AmmPoolFields ==
    [reserve_rng |-> 8, reserve_vusdt |-> 8, total_shares |-> 8,
     fee_basis_points |-> 2, sell_tax_basis_points |-> 2,
     bootstrap_price_vusdt_numerator |-> 8, bootstrap_price_rng_denominator |-> 8]

AmmPoolWrite ==
    <<"reserve_rng", "reserve_vusdt", "total_shares", "fee_basis_points",
      "sell_tax_basis_points", "bootstrap_price_vusdt_numerator",
      "bootstrap_price_rng_denominator">>

AmmPoolRead ==
    <<Req("reserve_rng", 8), Req("reserve_vusdt", 8), Req("total_shares", 8),
      Req("fee_basis_points", 2), Req("sell_tax_basis_points", 2),
      Opt("bootstrap_price_vusdt_numerator", 8, "bootstrap_numerator"),
      Opt("bootstrap_price_rng_denominator", 8, "bootstrap_denominator")>>

AmmPoolEncodeSize ==
    <<"reserve_rng", "reserve_vusdt", "total_shares", "fee_basis_points",
      "sell_tax_basis_points", "bootstrap_price_vusdt_numerator",
      "bootstrap_price_rng_denominator">>

\* PolicyState: nineteen u16 basis-point fields, then two u64 durations.
PolicyStateWrite ==
    <<"sell_tax_min_bps", "sell_tax_mid_bps", "sell_tax_max_bps",
      "sell_tax_outflow_low_bps", "sell_tax_outflow_mid_bps",
      "max_daily_sell_bps_balance", "max_daily_sell_bps_pool",
      "max_daily_buy_bps_balance", "max_daily_buy_bps_pool",
      "max_ltv_bps_new", "max_ltv_bps_mature", "liquidation_threshold_bps",
      "liquidation_target_bps", "liquidation_penalty_bps",
      "liquidation_reward_bps", "liquidation_stability_bps",
      "stability_fee_apr_bps", "debt_ceiling_bps", "credit_immediate_bps",
      "credit_vest_secs", "credit_expiry_secs">>

PolicyStateFields ==
    [f \in ToSet(PolicyStateWrite) |->
        IF f \in {"credit_vest_secs", "credit_expiry_secs"} THEN 8 ELSE 2]

PolicyStateRead == [i \in 1..Len(PolicyStateWrite) |->
                       Req(PolicyStateWrite[i], PolicyStateFields[PolicyStateWrite[i]])]

PolicyStateEncodeSize ==
    <<"sell_tax_min_bps", "sell_tax_mid_bps", "sell_tax_max_bps",
      "sell_tax_outflow_low_bps", "sell_tax_outflow_mid_bps",
      "max_daily_sell_bps_balance", "max_daily_sell_bps_pool",
      "max_daily_buy_bps_balance", "max_daily_buy_bps_pool",
      "max_ltv_bps_new", "max_ltv_bps_mature", "liquidation_threshold_bps",
      "liquidation_target_bps", "liquidation_penalty_bps",
      "liquidation_reward_bps", "liquidation_stability_bps",
      "stability_fee_apr_bps", "debt_ceiling_bps", "credit_immediate_bps",
      "credit_vest_secs", "credit_expiry_secs">>

TreasuryStateWrite ==
    <<"auction_allocation_rng", "liquidity_reserve_rng", "bonus_pool_rng",
      "player_allocation_rng", "treasury_allocation_rng", "team_allocation_rng">>
TreasuryStateFields == [f \in ToSet(TreasuryStateWrite) |-> 8]
TreasuryStateRead == [i \in 1..Len(TreasuryStateWrite) |-> Req(TreasuryStateWrite[i], 8)]
TreasuryStateEncodeSize ==
    <<"auction_allocation_rng", "liquidity_reserve_rng", "bonus_pool_rng",
      "player_allocation_rng", "treasury_allocation_rng",
      "team_allocation_rng">>

-----------------------------------------------------------------------------
Types == {"HouseState", "Staker", "Vault", "SavingsPool", "SavingsBalance",
          "AmmPool", "PolicyState", "TreasuryState"}

Layout(t) ==
    CASE t = "HouseState"     -> [fields |-> HouseStateFields, write |-> HouseStateWrite,
                                  read |-> HouseStateRead, size |-> HouseStateEncodeSize]
      [] t = "Staker"         -> [fields |-> StakerFields, write |-> StakerWrite,
                                  read |-> StakerRead, size |-> StakerEncodeSize]
      [] t = "Vault"          -> [fields |-> VaultFields, write |-> VaultWrite,
                                  read |-> VaultRead, size |-> VaultEncodeSize]
      [] t = "SavingsPool"    -> [fields |-> SavingsPoolFields, write |-> SavingsPoolWrite,
                                  read |-> SavingsPoolRead, size |-> SavingsPoolEncodeSize]
      [] t = "SavingsBalance" -> [fields |-> SavingsBalanceFields,
                                  write |-> SavingsBalanceWrite,
                                  read |-> SavingsBalanceRead,
                                  size |-> SavingsBalanceEncodeSize]
      [] t = "AmmPool"        -> [fields |-> AmmPoolFields, write |-> AmmPoolWrite,
                                  read |-> AmmPoolRead, size |-> AmmPoolEncodeSize]
      [] t = "PolicyState"    -> [fields |-> PolicyStateFields, write |-> PolicyStateWrite,
                                  read |-> PolicyStateRead, size |-> PolicyStateEncodeSize]
      [] t = "TreasuryState"  -> [fields |-> TreasuryStateFields,
                                  write |-> TreasuryStateWrite,
                                  read |-> TreasuryStateRead,
                                  size |-> TreasuryStateEncodeSize]

\* The bytes of field f as written: its width in little-endian byte order.
FieldBytes(t, f) == [i \in 1..Layout(t).fields[f] |-> <<f, i>>]

\* write(): the first k fields of the write order, back to back.
Encode(t, k) ==
    FoldLeft(LAMBDA acc, f : acc \o FieldBytes(t, f), <<>>, SubSeq(Layout(t).write, 1, k))

\* encode_size(): the widths of the fields it sums.
EncodeSize(t) == FoldLeft(LAMBDA acc, f : acc + Layout(t).fields[f], 0, Layout(t).size)

(***************************************************************************)
(* read_cfg followed by the library's trailing-bytes check. A read takes   *)
(* `width` bytes if that many remain; an optional read otherwise takes its *)
(* default and consumes nothing; a required one fails.                     *)
(***************************************************************************)
RECURSIVE ReadSteps(_, _, _)
ReadSteps(steps, bytes, acc) ==
    IF steps = <<>>
    THEN IF bytes = <<>> THEN [ok |-> TRUE, val |-> acc] ELSE [ok |-> FALSE, val |-> acc]
    ELSE LET s == Head(steps) IN
         IF Len(bytes) >= s.width
         THEN ReadSteps(Tail(steps), SubSeq(bytes, s.width + 1, Len(bytes)),
                        acc @@ (s.name :> [bytes |-> SubSeq(bytes, 1, s.width), dflt |-> "none"]))
         ELSE IF s.opt
              THEN ReadSteps(Tail(steps), bytes,
                             acc @@ (s.name :> [bytes |-> <<>>, dflt |-> s.dflt]))
              ELSE [ok |-> FALSE, val |-> acc]

Decode(t, bytes) == ReadSteps(Layout(t).read, bytes, <<>>)

\* The releases whose layout today's reader promises to load: every field
\* a release left out is one read_cfg reads as optional.
Releases(t) ==
    {k \in 0..Len(Layout(t).write) :
        \A i \in k + 1..Len(Layout(t).read) : Layout(t).read[i].opt}


-----------------------------------------------------------------------------
VARIABLES
    ty,       \* the struct type stored under a key
    release,  \* how many of today's fields the release that wrote it had
    kept      \* how many of the written bytes are still stored

vars == <<ty, release, kept>>

Stored == SubSeq(Encode(ty, release), 1, kept)

TypeOK ==
    /\ ty \in Types
    /\ release \in 0..Len(Layout(ty).write)
    /\ kept \in 0..Len(Encode(ty, release))

\* A value written by some release whose layout today's reader accepts.
Init ==
    /\ ty \in Types
    /\ release \in Releases(ty)
    /\ kept = Len(Encode(ty, release))

\* The stored bytes lose their tail (spec 7, class 4).
Truncate ==
    /\ kept > 0
    /\ kept' \in 0..kept - 1
    /\ UNCHANGED <<ty, release>>

(***************************************************************************)
(* Today's build loads the value (decode() succeeds) and stores it again:  *)
(* write() emits every current field, so the value is now in the current   *)
(* layout, whatever it was read as.                                        *)
(***************************************************************************)
Rewrite ==
    /\ Decode(ty, Stored).ok
    /\ release < Len(Layout(ty).write) \/ kept < Len(Encode(ty, release))
    /\ release' = Len(Layout(ty).write)
    /\ kept' = Len(Encode(ty, release'))
    /\ UNCHANGED ty

Next == Truncate \/ Rewrite

Spec == Init /\ [][Next]_vars

-----------------------------------------------------------------------------
Jackpots == {"three_card_progressive_jackpot", "uth_progressive_jackpot"}

JackpotBase(f) ==
    IF f = "three_card_progressive_jackpot" THEN "three_card_base" ELSE "uth_base"

\* The value a release-k encoding stands for: its fields as written; a field
\* it lacks is defaulted.
WrittenAsIs(t, k, val) ==
    \A i \in 1..Len(Layout(t).write) :
        LET f == Layout(t).write[i] IN
        /\ f \in DOMAIN val
        /\ i <= k => val[f] = [bytes |-> FieldBytes(t, f), dflt |-> "none"]
        /\ i > k  => val[f].bytes = <<>> /\ val[f].dflt # "none"

(***************************************************************************)
(* Loading an intact value written by any accepted release, today's        *)
(* included, succeeds and gives back every field the release wrote, each   *)
(* from its own bytes; a field added later takes a default, and a missing  *)
(* progressive jackpot restarts at its configured base, never at zero      *)
(* (spec 6.3 and invariant 3.3.2). write() emits exactly encode_size()     *)
(* bytes.                                                                  *)
(***************************************************************************)
LegacyDecode ==
    /\ Len(Encode(ty, Len(Layout(ty).write))) = EncodeSize(ty)
    /\ kept = Len(Encode(ty, release)) =>
           LET d == Decode(ty, Stored) IN
           /\ d.ok
           /\ WrittenAsIs(ty, release, d.val)
           /\ \A f \in Jackpots \cap DOMAIN d.val :
                  d.val[f].dflt # "none" => d.val[f].dflt = JackpotBase(f)

(***************************************************************************)
(* A load never reads a field from another field's bytes: whatever tail of *)
(* the stored value was lost, a decode that succeeds returns every field   *)
(* either as written or as its default (spec 7, class 4: tail truncation   *)
(* is tolerated).                                                          *)
(***************************************************************************)
NoMisread ==
    LET d == Decode(ty, Stored) IN
    d.ok => \A f \in DOMAIN d.val :
                d.val[f] \in {[bytes |-> FieldBytes(ty, f), dflt |-> "none"]}
                             \cup {[bytes |-> <<>>, dflt |-> x] :
                                     x \in {"zero", "three_card_base", "uth_base",
                                            "bootstrap_numerator", "bootstrap_denominator"}}

(***************************************************************************)
(* Spec 6.3: a field missing from an older stored value defaults to its    *)
(* configured base for the progressive jackpots and to zero otherwise.     *)
(***************************************************************************)
DefaultsAsDocumented ==
    LET d == Decode(ty, Stored) IN
    kept = Len(Encode(ty, release)) =>
        \A f \in DOMAIN d.val :
            d.val[f].dflt # "none" =>
                d.val[f].dflt = IF f \in Jackpots THEN JackpotBase(f) ELSE "zero"

=============================================================================
