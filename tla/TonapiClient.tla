---------------------------- MODULE TonapiClient ----------------------------
(***************************************************************************)
(* The client of the TonAPI provider, watcher/tonapiClient.ts: account     *)
(* profiles read one by one or in bulk and transfer histories, by readers  *)
(* that await at the same time.  They share a cache of profiles, a map of  *)
(* the single reads in flight and a rate limiter.  A provider answers late,*)
(* with an error, or not at all.                                           *)
(*                                                                         *)
(* A reader's steps between two awaits are one action; those that wait for *)
(* a read in flight are answered in the step that settles it (their        *)
(* continuations run before any other event).  Time is in ticks.           *)
(***************************************************************************)
EXTENDS Integers, Sequences, SequencesExt, FiniteSets

CONSTANTS
  Reader,
  Account,          \* canonical account ids
  BulkReads,        \* lists of accounts asked for in bulk
  BulkAnswers,      \* lists of accounts a bulk response may hold
  CacheTtl, CacheMax,        \* profileCacheTtlMs, profileCacheMaxEntries
  Window, MaxPerWindow,      \* WINDOW_MS, maxRequestsPerMinute
  MaxAttempts, BatchSize,    \* maxAttempts, profileBatchSize
  MaxTime, MaxCalls          \* bounds: ticks, reads

ASSUME ClientAssumption ==
  /\ CacheTtl \in Nat \ {0} /\ CacheMax \in Nat \ {0} /\ Window \in Nat \ {0}
  /\ MaxPerWindow \in Nat \ {0} /\ MaxAttempts \in Nat \ {0} /\ BatchSize \in Nat \ {0}
  /\ MaxTime \in Nat /\ MaxCalls \in Nat
  /\ BulkReads \subseteq Seq(Account) /\ BulkAnswers \subseteq Seq(Account)

VARIABLES
  now,
  cache,       \* profiles, in the order they were inserted
  inFlight,    \* accounts with a single read in flight
  windowStart, count,  \* the rate limiter
  requests,    \* when the provider was asked, as its log would show it
  reader,      \* what each reader is at
  credentials, \* whether the API key is in the environment
  calls

limiter == <<windowStart, count, requests>>
vars == <<now, cache, inFlight, limiter, reader, credentials, calls>>

Profile == [id : Account, at : 0 .. MaxTime, used : 0 .. MaxTime]

Idle == [step |-> "idle"]

Init ==
  /\ now = 0 /\ cache = <<>> /\ inFlight = {}
  /\ windowStart = 0 /\ count = 0 /\ requests = <<>>
  /\ reader = [r \in Reader |-> Idle]
  /\ credentials = TRUE /\ calls = 0

-----------------------------------------------------------------------------
(* ProfileCache *)

PlaceOf(c, id) == {i \in DOMAIN c : c[i].id = id}

\* delete
Without(c, id) ==
  LET place == PlaceOf(c, id)
  IN IF place = {} THEN c ELSE RemoveAt(c, CHOOSE i \in place : TRUE)

IsFresh(p) == now - p.at <= CacheTtl

Hit(c, id) == \E i \in PlaceOf(c, id) : IsFresh(c[i])

\* get: touches a hit and drops an expired profile.
Got(c, id) ==
  IF Hit(c, id) THEN [i \in DOMAIN c |-> IF c[i].id = id THEN [c[i] EXCEPT !.used = now] ELSE c[i]]
  ELSE Without(c, id)

\* The profile used least recently; the first inserted of those.
LeastUsed(c) ==
  CHOOSE i \in DOMAIN c :
    \A j \in DOMAIN c : c[i].used < c[j].used \/ (c[i].used = c[j].used /\ i <= j)

\* Mutant: nothing is evicted.
CacheSetUnbounded(c, id) == Append(Without(c, id), [id |-> id, at |-> now, used |-> now])

\* set: replaces the profile, or evicts one when the cache is full.
CacheSet(c, id) ==
  LET rest == Without(c, id)
      room == IF Len(rest) >= CacheMax THEN RemoveAt(rest, LeastUsed(rest)) ELSE rest
  IN Append(room, [id |-> id, at |-> now, used |-> now])

-----------------------------------------------------------------------------
(* TonapiRateLimiter and the attempts of callWithRetry *)

WindowOver == now - windowStart >= Window
Allowed == WindowOver \/ count < MaxPerWindow

\* Mutant: the request that opens a window is not counted in it.
CountedFromZero ==
  /\ windowStart' = IF WindowOver THEN now ELSE windowStart
  /\ count' = IF WindowOver THEN 0 ELSE IF Allowed THEN count + 1 ELSE count

\* isAllowed: what it leaves behind.
Counted ==
  /\ windowStart' = IF WindowOver THEN now ELSE windowStart
  /\ count' = IF WindowOver THEN 1 ELSE IF Allowed THEN count + 1 ELSE count

\* The readers that wait for reader r's answer: itself, and for a single read all
\* that joined it.
Waiting(r, read) ==
  {r} \cup {q \in Reader : /\ read.kind = "profile" /\ reader[q].step = "joined"
                           /\ reader[q].read.id = read.id}

Settled(read) == inFlight' = IF read.kind = "profile" THEN inFlight \ {read.id} ELSE inFlight

Answer(read, reason) == [step |-> "answered", read |-> read, reason |-> reason]

Finish(r, read, reason) ==
  /\ reader' = [q \in Reader |->
       IF q \in Waiting(r, read) THEN Answer(reader[q].read, reason) ELSE reader[q]]
  /\ Settled(read)

\* An attempt, the first or a retry: asks the limiter, then the provider.
Attempt(r, read, n) ==
  /\ Counted
  /\ requests' = IF Allowed THEN Append(requests, now) ELSE requests
  /\ IF Allowed
     THEN /\ reader' = [reader EXCEPT ![r] = [step |-> "asking", read |-> read, attempt |-> n]]
          /\ inFlight' = IF read.kind = "profile" THEN inFlight \cup {read.id} ELSE inFlight
     ELSE IF n = 0
     THEN /\ reader' = [reader EXCEPT ![r] = Answer(read, "rate_limit_exceeded")]
          /\ UNCHANGED inFlight
     ELSE Finish(r, read, "rate_limit_exceeded")

\* hasCredentials is asked once, before the first attempt.
Request(r, read) ==
  IF credentials THEN Attempt(r, read, 0)
  ELSE /\ reader' = [reader EXCEPT ![r] = Answer(read, "missing_credentials")]
       /\ UNCHANGED <<inFlight, limiter>>

-----------------------------------------------------------------------------
(* The reads *)

Calls(r) ==
  /\ reader[r] = Idle /\ calls < MaxCalls
  /\ calls' = calls + 1
  /\ UNCHANGED <<now, credentials>>

\* Mutant: no read is collapsed into one in flight.
CollapsesNever(id) == FALSE

Collapses(id) == id \in inFlight

AnsweredAtOnce(r, read) ==
  /\ reader' = [reader EXCEPT ![r] = Answer(read, "ok")]
  /\ UNCHANGED <<inFlight, limiter>>

\* readAccountProfile: the cache, a read in flight, or a request.
ReadProfile(r, id) ==
  LET read == [kind |-> "profile", id |-> id]
  IN /\ Calls(r)
     /\ cache' = Got(cache, id)
     /\ IF Hit(cache, id) THEN AnsweredAtOnce(r, read)
        ELSE IF Collapses(id)
        THEN /\ reader' = [reader EXCEPT ![r] = [step |-> "joined", read |-> read]]
             /\ UNCHANGED <<inFlight, limiter>>
        ELSE Request(r, read)

\* The accounts of a list that are in S, in their order.
Of(list, S) == SelectSeq(list, LAMBDA id : id \in S)

\* readAccountProfilesBulk: only what the cache lacks is asked for, and not more
\* than a batch; the hits are kept for the answer.
ReadBulk(r, ids) ==
  LET misses == Of(ids, {id \in Account : ~Hit(cache, id)})
      read   == [kind |-> "bulk", asked |-> misses]
  IN /\ Calls(r)
     /\ cache' = FoldLeft(Got, cache, ids)
     /\ IF misses = <<>> THEN AnsweredAtOnce(r, read)
        ELSE IF Len(misses) > BatchSize
        THEN /\ reader' = [reader EXCEPT ![r] = Answer(read, "invalid_request")]
             /\ UNCHANGED <<inFlight, limiter>>
        ELSE Request(r, read)

\* readTransferHistory
ReadHistory(r) ==
  /\ Calls(r) /\ Request(r, [kind |-> "history"]) /\ UNCHANGED cache

-----------------------------------------------------------------------------
(* The provider *)

Asking(r) == reader[r].step = "asking"

\* A response that was accepted.  A bulk response puts every account it holds into
\* the cache, asked for or not; a history leaves the cache alone.
Responds(r) ==
  LET read == reader[r].read
  IN /\ Asking(r)
     /\ CASE read.kind = "profile" -> cache' = CacheSet(cache, read.id)
          [] read.kind = "bulk"    -> \E ids \in BulkAnswers : cache' = FoldLeft(CacheSet, cache, ids)
          [] read.kind = "history" -> UNCHANGED cache
     /\ Finish(r, read, "ok")
     /\ UNCHANGED <<now, limiter, credentials, calls>>

\* An envelope that is wrong, or a status that is not retried, ends the read.
Refuses(r, reason) ==
  /\ Asking(r)
  /\ Finish(r, reader[r].read, reason)
  /\ UNCHANGED <<now, cache, limiter, credentials, calls>>

\* An error that is retried after a wait; the last one ends the read.
FailsAs(r, reason) ==
  LET read == reader[r].read
  IN /\ Asking(r)
     /\ IF reader[r].attempt + 1 < MaxAttempts
        THEN /\ reader' = [reader EXCEPT ![r].step = "waiting"]
             /\ UNCHANGED inFlight
        ELSE Finish(r, read, reason)
     /\ UNCHANGED <<now, cache, limiter, credentials, calls>>

\* Status 429 or 5xx, or a network error.
Fails(r) == FailsAs(r, "max_attempts_exceeded")

\* Mutant: the timer is armed for the first attempt only.
TimesOutOnce(r) == Asking(r) /\ reader[r].attempt = 0 /\ FailsAs(r, "request_timeout")

\* The request timer aborts the call.
TimesOut(r) == FailsAs(r, "request_timeout")

\* The wait before the next attempt is over.
Retries(r) ==
  /\ reader[r].step = "waiting"
  /\ Attempt(r, reader[r].read, reader[r].attempt + 1)
  /\ UNCHANGED <<now, cache, credentials, calls>>

Returns(r) ==
  /\ reader[r].step = "answered"
  /\ reader' = [reader EXCEPT ![r] = Idle]
  /\ UNCHANGED <<now, cache, inFlight, limiter, credentials, calls>>

Tick ==
  /\ now < MaxTime /\ now' = now + 1
  /\ UNCHANGED <<cache, inFlight, limiter, reader, credentials, calls>>

LosesCredentials ==
  /\ credentials /\ credentials' = FALSE
  /\ UNCHANGED <<now, cache, inFlight, limiter, reader, calls>>

Next ==
  \/ \E r \in Reader :
       \/ \E id \in Account : ReadProfile(r, id)
       \/ \E ids \in BulkReads : ReadBulk(r, ids)
       \/ ReadHistory(r)
       \/ Responds(r)
       \/ \E reason \in {"malformed_response", "http_error"} : Refuses(r, reason)
       \/ Fails(r)
       \/ TimesOut(r)
       \/ Retries(r)
       \/ Returns(r)
  \/ Tick
  \/ LosesCredentials

Spec == Init /\ [][Next]_vars

\* Timers fire: the request timer, and the wait of a retry.  The provider need not
\* answer.
FairSpec == Spec /\ \A r \in Reader : WF_vars(TimesOut(r)) /\ WF_vars(Retries(r))

-----------------------------------------------------------------------------
(* Properties *)

Read ==
  [kind : {"profile"}, id : Account]
    \cup [kind : {"bulk"}, asked : {Of(s, ids) : s \in BulkReads, ids \in SUBSET Account}]
    \cup [kind : {"history"}]
Reasons == {"ok", "missing_credentials", "rate_limit_exceeded", "max_attempts_exceeded",
            "request_timeout", "http_error", "malformed_response", "invalid_request"}

\* Type invariant; the cache is no larger than configured and holds an account once.
TypeOK ==
  /\ now \in 0 .. MaxTime /\ credentials \in BOOLEAN /\ calls \in 0 .. MaxCalls
  /\ cache \in Seq(Profile) /\ Len(cache) <= CacheMax
  /\ \A i, j \in DOMAIN cache : cache[i].id = cache[j].id => i = j
  /\ inFlight \subseteq Account
  /\ windowStart \in 0 .. now /\ count \in 0 .. MaxPerWindow /\ requests \in Seq(0 .. now)
  /\ reader \in [Reader ->
       {Idle}
         \cup [step : {"joined"}, read : Read]
         \cup [step : {"asking", "waiting"}, read : Read, attempt : 0 .. MaxAttempts - 1]
         \cup [step : {"answered"}, read : Read, reason : Reasons]]

Fetching(r, id) ==
  reader[r].step \in {"asking", "waiting"} /\ reader[r].read = [kind |-> "profile", id |-> id]

\* An account has at most one single read that goes to the provider, and the reads
\* that joined it always have one to wait for, however it fails.
OneFetchPerAccount ==
  \A id \in Account :
    /\ Cardinality({r \in Reader : Fetching(r, id)}) = (IF id \in inFlight THEN 1 ELSE 0)
    /\ (\E r \in Reader : reader[r].step = "joined" /\ reader[r].read.id = id) => id \in inFlight

\* The window of the limiter opens with a request, not with the minute: two bursts may
\* meet where one ends.  But whatever readers and their retries ask for, no more than
\* twice the maximum of requests reach the provider within a window's length.
BurstsAreBounded ==
  \A i \in DOMAIN requests :
    i + 2 * MaxPerWindow \in DOMAIN requests =>
      requests[i + 2 * MaxPerWindow] - requests[i] > Window

\* Every read is answered although the provider may stay silent.
EveryReadAnswered ==
  \A r \in Reader :
    reader[r].step \in {"joined", "asking", "waiting"} ~> reader[r].step = "answered"
=============================================================================
