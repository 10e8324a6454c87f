---------------------------- MODULE ToolScripts ----------------------------
(***************************************************************************)
(* The tools around a launch: the generator of targets files               *)
(* (scripts/generate-targets.ts), the other composition root               *)
(* (scripts/updateMetadata.ts), the estimators of a transfer's value       *)
(* (scripts/gasEstimator.ts, lib/gas-oracle.ts) and the execution plan of  *)
(* lib/matchingEngine.ts.                                                  *)
(*                                                                         *)
(* Texts and numbers are as in LaunchChecks.  Fees are in nanoTON, prices  *)
(* that have a fraction are in thousandths.                                *)
(***************************************************************************)
EXTENDS LaunchChecks, FeePolicies

-----------------------------------------------------------------------------
(* generate-targets.ts *)

\* parseArgs.  A flag without a value is Odd or OddNumber; zeros: the amount's
\* digits are all zeros, single: there is one of them.
ArgsRefusal(args) ==
  FirstRefusal(<<
    <<args.count < 1, "--count">>,
    <<args.amount < 0, "--amount">>,
    <<args.amount = 0 /\ args.single, "--amount must be greater than 0">>,
    <<Odd \in {args.output, args.campaign, args.tag, args.memo}, "flag requires a value">> >>)

\* generateUniqueAddresses: the first count draws that differ in lower case.  An
\* address is <<its lower-case form, its spelling>>.
FirstOf(draws, i) == \A j \in 1 .. i - 1 : draws[j][1] # draws[i][1]
UniqueAddresses(draws, count) ==
  LET fresh == Selected(draws, {i \in DOMAIN draws : FirstOf(draws, i)})
  IN [i \in 1 .. Min({count, Len(fresh)}) |-> fresh[i]]

\* buildEnvelope and assertOutputIntegrity: the targets file, or none.
GeneratedList(args, draws) ==
  [i \in DOMAIN UniqueAddresses(draws, args.count) |->
     [object |-> TRUE, address |-> UniqueAddresses(draws, args.count)[i][1],
      amount |-> args.amount, parses |-> TRUE]]

IntegrityFault(list, count) ==
  \/ Len(list) # count
  \/ \E i, j \in DOMAIN list : i # j /\ list[i].address = list[j].address

GeneratedFile(args, draws) ==
  IF ArgsRefusal(args) # None \/ IntegrityFault(GeneratedList(args, draws), args.count)
  THEN <<>> ELSE <<GeneratedList(args, draws)>>

-----------------------------------------------------------------------------
(* updateMetadata.ts: what keeps it from serving anyone *)

\* Its own loader looks at each entry's address and that it has some amount.
RawListRefusal(targets) ==
  FirstRefusal(<<
    <<~targets.readable, "targets.json">>,
    <<targets.list = <<>>, "zero recipients">>,
    <<\E i \in DOMAIN targets.list : BadEntry(targets.list[i]), "entry">> >>)

\* run, as far as the plan: the amounts it hands on are texts and numbers of the JSON
\* file, where the planner asks for a bigint.  The state file has been marked running
\* by then.
MetadataRunRefusal(env, targets, operators) ==
  FirstRefusal(<<
    <<env.campaign = "", "CAMPAIGN_ID">>,
    Refused(GateRefusal(env)),
    <<BatchSize(env, operators) < 1, "BATCH_SIZE">>,
    Refused(RawListRefusal(targets)),
    <<TRUE, "planBatches: invalid amount">> >>)

\* buildDispatcherAuditRecorder: an event's row, or none.  key: the parts of its state
\* key between "::", <<>> when it has none.  No row has an amount.
RecordedRecipient(key) ==
  IF Len(key) >= 2 /\ key[2] # "" THEN key[2] ELSE IF key = <<>> THEN "unknown" ELSE "the key"

UpdateAuditRow(event) ==
  IF event.type \notin {"batch_success", "batch_failure"} THEN <<>>
  ELSE <<[object |-> TRUE, timestamp |-> "now", campaign |-> event.campaign,
          batch |-> IF event.batch \in {"", Unset} THEN event.campaign ELSE event.batch,
          recipient |-> RecordedRecipient(event.key), amount |-> 0,
          status |-> IF event.type = "batch_success" THEN "success" ELSE "failed",
          attempts |-> Max({event.attempt, 0}), optional |-> event.optional]>>

-----------------------------------------------------------------------------
(* gasEstimator.ts *)

Floor == 150000000
Buffer == 50000000
Guardrail == 500000000
StaticModel == [perBit |-> 300, perCell |-> 600000, perDepth |-> 50000]
MasterMintExtraBits == 32

\* resolveFeeModel: the contract's constants when they can be read and are positive,
\* a depth penalty of any sign among them.
FeeModelOf(chain) ==
  IF chain.read /\ chain.perBit > 0 /\ chain.perCell > 0
  THEN [perBit |-> chain.perBit * 1000, perCell |-> chain.perCell, perDepth |-> chain.perDepth]
  ELSE StaticModel

\* computeBitFee: rounded down to a whole nanoTON.
BitFee(bits, model) == (bits * model.perBit) \div 1000

\* measureCellTree.  A cell tree is a function from the paths of its cells to their
\* bits: a cell that two others refer to is visited twice.
TotalBits(tree) == SumFunction(tree)
CellFee(tree, model) ==
  SumFunction([path \in DOMAIN tree |-> model.perCell + Len(path) * model.perDepth])
CellCount(tree) == Cardinality(DOMAIN tree)

Forward(tree, masterMint, chain) ==
  LET model == FeeModelOf(chain)
  IN Floor + Buffer + BitFee(TotalBits(tree), model) + CellFee(tree, model)
       + IF masterMint THEN BitFee(MasterMintExtraBits, model) ELSE 0

ForwardRefusal(tree, masterMint, chain) ==
  FirstRefusal(<<<<Forward(tree, masterMint, chain) > Guardrail, "guardrail">>>>)

-----------------------------------------------------------------------------
(* gas-oracle.ts *)

Fixed == 65536   \* prices on the chain are multiples of 2^-16
TransferGas == 15000
NotifyGas == 10000
PayloadGas == 5000
ForwardBuffer == 3000000

\* computeFeeForGas: the price is rounded down before it is multiplied.
ComputeFee(prices, gas) == prices.flat + (prices.gas \div Fixed) * gas

AttachValue(prices, payload, forward) ==
  ComputeFee(prices, TransferGas) + ComputeFee(prices, NotifyGas)
    + (IF payload THEN ComputeFee(prices, PayloadGas) ELSE 0) + ForwardBuffer + forward

-----------------------------------------------------------------------------
(* matchingEngine.ts *)

Hour == 3600000

ExecutionRefusal(count, maxBatch, perHour) ==
  FirstRefusal(<<
    <<count <= 0, "recipientsCount">>,
    <<maxBatch <= 0, "maxBatchSize">>,
    <<perHour <= 0, "maxTxPerHour">>,
    <<count > maxBatch, "recipientsCount exceeds provider maxBatchSize">> >>)

PacingDelay(perHour) == (Hour + perHour - 1) \div perHour
ExecutionOrder(count) == [i \in 1 .. count |-> i - 1]
=============================================================================
