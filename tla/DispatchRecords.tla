-------------------------- MODULE DispatchRecords --------------------------
(***************************************************************************)
(* What a dispatcher is made and called with, and what it reports          *)
(* (dispatcher/dispatcher.ts), and the times of a retry decision           *)
(* (retryPolicy.ts).  Times are in milliseconds from now.                  *)
(***************************************************************************)
EXTENDS RetryPolicy, LaunchChecks

-----------------------------------------------------------------------------
(* The dispatcher's own checks *)

\* The collaborators and their methods.
Interfaces ==
  [reconciler |-> {"reconcileCampaign", "verifyMetadataPreflight"}, executor |-> {"broadcast"},
   walletPool |-> {"getNextAvailableProvider", "markSuccess", "markFailure"},
   retryPolicy |-> {"classify"}, auditRecorder |-> {"write"},
   matchingEngine |-> {"prepareExecutionPlan"}]

\* validateDispatcherConfig.  A delay that is not given is NoNumber.
ConfigRefusal(config) ==
  FirstRefusal(<<
    <<config.stateDir = "", "stateDir">>,
    <<\E name \in DOMAIN Interfaces : ~(Interfaces[name] \subseteq config.methods[name]),
      "interface">>,
    <<config.dry \notin {"true", "false"}, "dryRun">>,
    <<config.force \notin {Unset, "true", "false"}, "forceExecutorInDryRun">>,
    <<config.entryDelay = OddNumber, "entryDelayMs">>,
    <<config.batchDelay = OddNumber, "batchDelayMs">> >>)

\* validateCampaignConfig
CampaignRefusal(campaign) ==
  FirstRefusal(<<
    <<campaign.id = "", "campaignId">>,
    <<campaign.metadata = "", "metadataFilePath">>,
    <<campaign.recipients = <<>>, "recipients">>,
    <<campaign.size < 1, "batchSize">> >>)

\* What launchStageA makes of an environment it accepts.
ConfigOfLaunch(env) ==
  [stateDir |-> "dir", methods |-> Interfaces, dry |-> "true",
   force |-> IF env.fault.enabled THEN "true" ELSE "false",
   entryDelay |-> env.delay, batchDelay |-> env.delay]
CampaignOfLaunch(env, targets, operators) ==
  [id |-> env.campaign, metadata |-> "file", recipients |-> targets.list,
   size |-> BatchSize(env, operators)]

\* validateConfig of reconciler.ts.  A timeout that is not given is NoNumber.
ReconcilerRefusal(config) ==
  FirstRefusal(<<
    <<config.stateDir = "", "stateDir">>,
    <<"readTerminalEntries" \notin config.methods, "auditWriter">>,
    <<config.timeout = OddNumber \/ config.timeout = 0, "zombieTimeoutMs">> >>)
ReconcilerOfLaunch(stateDir) ==
  [stateDir |-> stateDir, methods |-> {"readTerminalEntries"}, timeout |-> NoNumber]

-----------------------------------------------------------------------------
(* The report *)

Column(summaries, name) ==
  FoldLeft(LAMBDA n, s : n + s[name], 0, summaries)

Report(summaries, total) ==
  LET succeeded == Column(summaries, "succeeded")
      failed    == Column(summaries, "failed")
      cooldown  == Column(summaries, "cooldown")
  IN [succeeded |-> succeeded, failed |-> failed, cooldown |-> cooldown,
      skipped |-> Max({0, total - succeeded - failed - cooldown})]

-----------------------------------------------------------------------------
(* Retry decisions *)

NoWindow == -1
FailedWindow == 900000   \* INSUFFICIENT_TON_FAILED_WINDOW_MS

\* By category, the base and the cap of its delay.
BackoffOf ==
  [rate_limited |-> <<2000, 30000>>, transient_rpc |-> <<1500, 20000>>,
   timeout |-> <<2500, 45000>>, seqno_desync |-> <<1000, 10000>>,
   uncertain_submission |-> <<4000, 60000>>]

Power[n \in 0 .. MaxAttempts] == IF n = 0 THEN 1 ELSE 2 * Power[n - 1]
Backoff(attempt, base, cap) == Min({base * Power[attempt - 1], cap})

\* buildRetryDecision, buildRotateDecision and buildTerminalDecision.
RetryDecision(category, attempt) ==
  LET retried == category \in RetrySameIdentity /\ attempt < MaxAttempts
      delay   == IF retried
                 THEN Backoff(attempt, BackoffOf[category][1], BackoffOf[category][2]) ELSE 0
      rotates == category = "insufficient_ton"
  IN [retry |-> retried, delay |-> delay, disposition |-> disposition(category, attempt),
      code |-> category, pauses |-> rotates, failsOver |-> rotates,
      cooldown |-> IF delay > 0 THEN delay ELSE NoWindow,
      failed |-> IF rotates THEN FailedWindow ELSE NoWindow]

\* classify; the input's texts are not blank.
ClassifyRefusal(input) ==
  FirstRefusal(<<
    <<input.attempt < 1, "attemptNumber">>,
    <<~input.texts, "empty text">>,
    <<~ValidContext(input.attempt), "maxAttempts">> >>)
=============================================================================
