---------------------------- MODULE RetryPolicy ----------------------------
(***************************************************************************)
(* The retry classifier of lib/dispatcher/retryPolicy.ts: an error message *)
(* is sorted into a category by keyword, and the category and the attempt  *)
(* number decide what the dispatcher does with the entry.                  *)
(*                                                                         *)
(* A message is the set of keyword groups it hits.  The classifier tests   *)
(* the groups in a fixed order and the first hit wins, so a message that   *)
(* hits several groups is classified by the earliest of them, whatever     *)
(* else it says.                                                           *)
(***************************************************************************)
EXTENDS Naturals, Sequences

CONSTANT MaxAttempts  \* DEFAULT_MAX_ATTEMPTS (3 in the code)

ASSUME MaxAttemptsAssumption == MaxAttempts \in Nat \ {0}

\* The keyword groups, in the order classifyMessage tests them.
KeywordOrder ==
  <<"rate_limited", "transient_rpc", "timeout", "seqno_desync",
    "insufficient_ton", "uncertain_submission", "invalid_input",
    "contract_rejection", "fatal">>

Keyword == {KeywordOrder[i] : i \in 1..9}

RetryCategory == Keyword \cup {"unknown"}

RetryDisposition ==
  {"retry_same_identity", "rotate_identity", "fail_batch", "stop_campaign"}

\* The category of a message that hits the keyword groups of "message".
classifyMessage(message) ==
  IF message = {} THEN "unknown"
  ELSE CHOOSE c \in message :
         \E i \in 1..9 : /\ KeywordOrder[i] = c
                         /\ \A j \in 1..(i - 1) : KeywordOrder[j] \notin message

\* Categories that are worth another attempt by the same operator.
RetrySameIdentity ==
  {"rate_limited", "transient_rpc", "timeout", "seqno_desync",
   "uncertain_submission"}

\* The disposition of an error of category c at attempt n.  "uncertain_submission"
\* keeps its reason code whatever the disposition: the dispatcher overrides it.
disposition(c, n) ==
  CASE c \in RetrySameIdentity ->
         IF n < MaxAttempts THEN "retry_same_identity" ELSE "fail_batch"
    [] c = "insufficient_ton" -> "rotate_identity"
    [] c = "fatal"            -> "stop_campaign"
    [] OTHER                  -> "fail_batch"

ValidContextAlways(n) == n >= 1  \* mutant: no maximum

\* validateContext: an attempt beyond the maximum is refused with a throw.
ValidContext(n) == n >= 1 /\ n <= MaxAttempts
=============================================================================
