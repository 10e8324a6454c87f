---------------------------- MODULE FeePolicies ----------------------------
(***************************************************************************)
(* The arithmetic the offline stages do with money: the fee tiers of a     *)
(* jetton (dispatcher/assetFeePolicyResolver.ts and the fee part of        *)
(* dispatcherDryRunTransitionPlan.ts), the safety margin of gas            *)
(* (gasSafetyMarginPolicy.ts) and the allocation of amounts                *)
(* (amountAllocator.ts).  Decimal texts are numbers; Malformed stands for  *)
(* a text that is none.  A seeded choice is any value it can give.         *)
(***************************************************************************)
EXTENDS Refusals

Malformed == -1
Given(text) == text # Malformed

-----------------------------------------------------------------------------
(* Fee tiers *)

MaxTierCount == 1024

\* isValidPolicyRecord
ValidPolicyRecord(p) ==
  /\ p.base > 0 /\ p.max > 0 /\ p.step >= 0
  /\ p.tiers \in 1 .. MaxTierCount

\* The fee of the tier the seed selects.
TierFee(p, offset) == p.base + offset * p.step

\* maxPossibleFee
DearestFee(p) == TierFee(p, p.tiers - 1)

\* Jetton masters are compared trimmed: p.master is the trimmed key.
Matching(master, policies) == {i \in DOMAIN policies : policies[i].master = master}

ResolveRefusal(campaign, master, policies) ==
  LET hit == Matching(master, policies)
  IN FirstRefusal(<<
       <<campaign = "", "invalid_campaign_id">>,
       <<master = "", "invalid_jetton_master_canonical_key">>,
       <<policies = <<>>, "invalid_policy_registry">>,
       <<\E i \in DOMAIN policies : ~ValidPolicyRecord(policies[i]), "fee_policy_invalid">>,
       <<\E i, j \in DOMAIN policies : i # j /\ policies[i].master = policies[j].master,
         "duplicate_policy_for_jetton_master">>,
       <<hit = {}, "policy_not_found">>,
       <<\E i \in hit : ~policies[i].enabled, "policy_disabled">>,
       <<\E i \in hit : policies[i].base > policies[i].max, "fee_cap_invalid">>,
       <<\E i \in hit : DearestFee(policies[i]) > policies[i].max, "fee_cap_invalid">> >>)

\* The policy that resolveAssetFeePolicy answers with.
Resolved(master, policies) == policies[CHOOSE i \in Matching(master, policies) : TRUE]

-----------------------------------------------------------------------------
(* Safety margin of gas *)

Whole == 10000
CeilDiv(n, d) == (n + d - 1) \div d

\* The margin's mode names the field that holds it; the other must be absent.
Margin(estimate, policy) ==
  IF policy.mode = "fixed_nano" THEN policy.nano
  ELSE CeilDiv(estimate * policy.bps, Whole)

BadMargin(policy) ==
  IF policy.mode = "fixed_nano" THEN policy.nano < 0 \/ Given(policy.bps)
  ELSE policy.bps \notin 0 .. Whole \/ Given(policy.nano)

MarginRefusal(estimate, policy) ==
  FirstRefusal(<<
    <<estimate <= 0, "invalid_gas_estimate">>,
    <<policy.forbidden, "forbidden_execution_context">>,
    <<~policy.named, "invalid_policy">>,
    <<~policy.enabled, "policy_disabled">>,
    <<policy.mode \notin {"fixed_nano", "basis_points"}, "invalid_policy">>,
    <<policy.ceiling <= 0, "invalid_gas_ceiling">>,
    <<estimate > policy.ceiling, "gas_cap_exceeded">>,
    <<BadMargin(policy), "invalid_margin">>,
    <<estimate + Margin(estimate, policy) > policy.ceiling, "gas_cap_exceeded">> >>)

-----------------------------------------------------------------------------
(* Allocation of amounts.  The set of amounts a call may answer with, by its *)
(* seed; it throws when there is none.                                       *)

AllocateFixed(amount) == IF amount > 0 THEN {amount} ELSE {}

\* validatePredefinedConfig; a shuffled list may have any value in any place.
AllocatePredefined(config, index) ==
  LET length == Len(config.values)
      place  == IF config.cycle THEN index % length ELSE index
  IN IF length = 0 \/ \E i \in 1 .. length : config.values[i] <= 0 THEN {}
     ELSE IF place >= length THEN {}
     ELSE IF config.shuffle THEN {config.values[i] : i \in 1 .. length}
     ELSE {config.values[place + 1]}

\* validateRandomRangeConfig; randomBigIntBelow picks one of the slots.
AllocateRandomRange(config) ==
  IF \/ config.min <= 0 \/ config.max <= 0 \/ config.max < config.min
     \/ config.step <= 0 \/ (config.max - config.min) % config.step # 0
  THEN {}
  ELSE {config.min + pick * config.step :
          pick \in 0 .. (config.max - config.min) \div config.step}

Allocations(amount, config, index) ==
  IF index < 0 THEN {}
  ELSE CASE config.mode = "fixed"       -> AllocateFixed(amount)
         [] config.mode = "predefined"  -> AllocatePredefined(config, index)
         [] config.mode = "randomRange" -> AllocateRandomRange(config)
=============================================================================
