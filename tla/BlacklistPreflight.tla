------------------------- MODULE BlacklistPreflight -------------------------
(***************************************************************************)
(* The preflight of the signed blacklist: watcher/blacklistPreflight-      *)
(* Orchestrator.ts and the validators it calls.  Hashes and signatures are *)
(* external: a checksum is the content it is of, a signature the key and   *)
(* payload it was made with.  A key may be spelled in upper or lower case. *)
(* The registry of used nonces is only read; who accepts an envelope       *)
(* records its replay key.                                                 *)
(***************************************************************************)
EXTENDS Refusals

NotADate == -1
Nothing == "nothing"   \* null, or an empty text
NoConfig == [algorithm |-> Nothing]
NoSignature == [key |-> Nothing, payload |-> <<>>]

\* computeSha256Hex
Sha256(content) == content

\* blacklistSignedEnvelope.ts
EnvelopeRefusal(envelope, now) ==
  FirstRefusal(<<
    <<~envelope.object, "envelope_envelope_not_object">>,
    <<envelope.version # "blacklist-envelope-v1", "envelope_invalid_envelope_version">>,
    <<envelope.kind # "blacklist-integrity", "envelope_invalid_payload_kind">>,
    <<envelope.sha = Nothing, "envelope_invalid_blacklist_checksum">>,
    <<envelope.validUntil = NotADate \/ now = NotADate, "envelope_invalid_valid_until">>,
    <<now > envelope.validUntil, "envelope_envelope_expired">>,
    <<envelope.nonce.text = Nothing, "envelope_missing_nonce">>,
    <<~envelope.nonce.sane, "envelope_invalid_nonce">> >>)

\* canonicalizeBlacklistSignedEnvelopePayload
Canonical(envelope) ==
  <<envelope.version, envelope.kind, envelope.sha, envelope.validUntil, envelope.nonce>>

\* blacklistIntegrity.ts, with required: true.
IntegrityRefusal(content, expected) ==
  FirstRefusal(<<
    <<content = Nothing, "integrity_blacklist_missing">>,
    <<Sha256(content) # expected, "integrity_checksum_mismatch">> >>)

\* createPublicKey and verify of node:crypto
Verifies(config, payload) ==
  config.signature = [key |-> config.key.of, payload |-> payload]

\* blacklistSignature.ts: without a configuration it is skipped.
SignatureRefusal(config, payload) ==
  IF config = NoConfig THEN None
  ELSE FirstRefusal(<<
         <<config.algorithm # "ed25519", "signature_unsupported_signature_algorithm">>,
         <<config.key.of = Nothing, "signature_public_key_missing">>,
         <<~config.key.hex, "signature_invalid_public_key_hex">>,
         <<config.signature = NoSignature, "signature_signature_missing">>,
         <<~Verifies(config, payload), "signature_signature_invalid">> >>)

\* blacklistEnvelopeFreshnessPolicy.ts
EnvelopeFreshnessRefusal(validUntil, now, maxFuture) ==
  FirstRefusal(<<
    <<now = NotADate, "freshness_invalid_now">>,
    <<validUntil = NotADate, "freshness_invalid_valid_until">>,
    <<maxFuture < 0, "freshness_invalid_max_future_validity_ms">>,
    <<now > validUntil, "freshness_envelope_expired">>,
    <<validUntil - now > maxFuture, "freshness_envelope_valid_too_far_in_future">> >>)

\* trim().toLowerCase() of the signer's key.
Normalized(key) == [key EXCEPT !.upper = FALSE]

\* buildReplayKey
ReplayKey(key, nonce) == <<Normalized(key), nonce.text>>

\* blacklistReplayNonce.ts: stricter than the envelope, lower-case hex of 32 bytes
\* (nonce.strict).
NonceRefusal(key, nonce, registry) ==
  FirstRefusal(<<
    <<~key.hex, "replay_nonce_invalid_signer">>,
    <<nonce.text = Nothing, "replay_nonce_missing_nonce">>,
    <<~nonce.strict, "replay_nonce_invalid_nonce">>,
    <<registry.broken, "replay_nonce_invalid_registry">>,
    <<ReplayKey(key, nonce) \in registry.used, "replay_nonce_duplicate_nonce">> >>)

\* The signer's checks of a call that has no signer.
SignerRefusal(config, nonce, registry) ==
  IF config = NoConfig THEN "signature_config_missing_for_nonce"
  ELSE NonceRefusal(config.key, nonce, registry)

\* runBlacklistPreflight
PreflightRefusal(p) ==
  IF p.halt # "off"
  THEN IF p.halt = "on" THEN "administrative_halt" ELSE "invalid_input"
  ELSE IF ~p.traceable THEN "invalid_traceability"
  ELSE IF EnvelopeRefusal(p.envelope, p.now) # None THEN EnvelopeRefusal(p.envelope, p.now)
  ELSE FirstRefusal(<<
         Refused(IntegrityRefusal(p.content, p.envelope.sha)),
         Refused(SignatureRefusal(p.config, Canonical(p.envelope))),
         Refused(EnvelopeFreshnessRefusal(p.envelope.validUntil, p.now, p.maxFuture)),
         Refused(SignerRefusal(p.config, p.envelope.nonce, p.registry)),
         Refused(EnvelopeFreshnessRefusal(p.envelope.validUntil, p.now, p.maxFuture)) >>)

Accepted(p) == PreflightRefusal(p) = None

\* What the caller records once a preflight accepted.
Recorded(p) == [p.registry EXCEPT !.used = @ \cup {ReplayKey(p.config.key, p.envelope.nonce)}]

\* blacklistSignatureConfig.ts: three variables, all set or none.
ConfigFromEnv(env) ==
  LET set == {v \in DOMAIN env : env[v] # Nothing}
  IN IF set = {} THEN "skipped_optional"
     ELSE FirstRefusal(<<
            <<set # DOMAIN env, "partial_signature_config">>,
            <<env.algorithm # "ed25519", "unsupported_signature_algorithm">>,
            <<env.key = "odd", "invalid_public_key_hex">>,
            <<env.signature = "odd", "invalid_signature_hex">> >>)
=============================================================================
