------------------------- MODULE CandidateIngestion -------------------------
(***************************************************************************)
(* The offline candidate ingestion of lib/watcher:                         *)
(* offlineCandidateIngestionOrchestrator.ts over candidateStore.ts,        *)
(* eventFilter.ts and commanderState.ts.  One process, restarted at will,  *)
(* ingests pages of provider events: it appends new candidates to one      *)
(* JSONL file and notices to another, keeps the candidates it has seen in  *)
(* memory, and saves a cursor when a page is done.                         *)
(*                                                                         *)
(* A JSONL file is the sequence of its lines and whether the last one lacks *)
(* its newline, which is what a failed append can leave: the next append    *)
(* continues that line, and then neither record can be parsed.              *)
(***************************************************************************)
EXTENDS Naturals, Sequences, CommanderState

CONSTANTS
  Event,         \* provider events
  CandidateId,
  KeyOf,         \* the candidate an event is an observation of (buildCandidateRecord)
  Rejected,      \* events that filterAndNormalize rejects
  Undated,       \* events whose receivedAt is not a date
  Page,          \* the pages a caller may hand over: sequences of events
  CommanderFiles,\* contents of the Commander's file
  Tear,          \* what a failed append leaves: "nothing", "part", "unterminated"
  MaxPerMinute,
  MaxCalls,      \* bound: calls of ingestOfflineCandidateEvents
  MaxFaults,     \* bound: failed file operations and crashes
  NoEvent, NoCandidate

ASSUME IngestionAssumption ==
  /\ KeyOf \in [Event -> CandidateId]
  /\ Rejected \subseteq Event /\ Undated \subseteq Event
  /\ Page \subseteq Seq(Event)
  /\ CommanderFiles \subseteq CommanderFile
  /\ Tear \subseteq {"nothing", "part", "unterminated"}
  /\ MaxPerMinute \in Nat \ {0} /\ MaxCalls \in Nat /\ MaxFaults \in Nat
  /\ NoEvent \notin Event /\ NoCandidate \notin CandidateId

VARIABLES
  candidates,  \* <campaign>-candidates.jsonl: its lines, and whether the last is open
  notices,     \* <campaign>-candidate-events.jsonl, likewise
  cursor,      \* watcher-cursor.json: its last event
  commander,   \* the Commander's file
  seen,        \* the dedup map
  count,       \* the rate cap's counter,
  elapsed,     \*   and whether its window is over
  pc,          \* where the call is; "down" when no process runs
  page, at,    \* the events of the call, and the index of the present one
  proposed,    \* the cursor local of the call
  blocked,     \* events of the call the Commander kept out
  afterStop,   \* candidates written since the Commander stopped permitting them
  calls, faults

files == <<candidates, notices, cursor>>
session == <<seen, count, elapsed>>
call == <<page, at, proposed, blocked>>
vars == <<files, commander, session, pc, call, afterStop, calls, faults>>

Running == {"next", "duplicate", "safety", "loss", "append"}
GarbledRecord == [id |-> NoCandidate, current |-> FALSE]
GarbledNotice == [type |-> "garbled", event |-> NoEvent]

\* A record is current while loadDedupStore takes it: it parses, has a date, within the TTL.
Record == [id : CandidateId, current : BOOLEAN] \cup {GarbledRecord}
Notice == [type : {"duplicate_observation", "rate_cap_data_loss"}, event : Event]
            \cup {GarbledNotice}

-----------------------------------------------------------------------------
(* The JSONL files *)

EmptyFile == [lines |-> <<>>, open |-> FALSE]

\* appendFile of a line and its newline.
Appended(file, line, garbled) ==
  [lines |-> IF file.open THEN [file.lines EXCEPT ![Len(file.lines)] = garbled]
             ELSE Append(file.lines, line),
   open |-> FALSE]

\* An append that fails after writing a part of the line, or all but the newline.
Torn(file, line, garbled, tear) ==
  IF tear = "nothing" THEN file
  ELSE [Appended(file, IF tear = "part" THEN garbled ELSE line, garbled)
          EXCEPT !.open = TRUE]

\* loadDedupStore: the records that parse, have a date and are within the TTL.
Loaded(file) ==
  {file.lines[i].id : i \in {j \in DOMAIN file.lines : file.lines[j].current}}

Readable(file) == {file.lines[i].id : i \in DOMAIN file.lines} \ {NoCandidate}

-----------------------------------------------------------------------------
Init ==
  /\ candidates = EmptyFile /\ notices = EmptyFile
  /\ cursor = NoEvent
  /\ commander \in CommanderFiles
  /\ seen = {} /\ count = 0 /\ elapsed = FALSE
  /\ pc = "down"
  /\ page = <<>> /\ at = 1 /\ proposed = NoEvent /\ blocked = {}
  /\ afterStop = 0 /\ calls = 0 /\ faults = 0

\* Mutant: the dedup map starts empty.
StartProcessEmpty ==
  /\ pc = "down"
  /\ pc' = "idle"
  /\ seen' = {}
  /\ count' = 0 /\ elapsed' = FALSE
  /\ UNCHANGED <<files, commander, call, afterStop, calls, faults>>

\* A process starts: loadDedupStore and createRateCap.
StartProcess ==
  /\ pc = "down"
  /\ pc' = "idle"
  /\ seen' = Loaded(candidates)
  /\ count' = 0 /\ elapsed' = FALSE
  /\ UNCHANGED <<files, commander, call, afterStop, calls, faults>>

\* ingestOfflineCandidateEvents is called with a page.
Ingest(events) ==
  /\ pc = "idle" /\ calls < MaxCalls
  /\ calls' = calls + 1
  /\ page' = events /\ at' = 1 /\ proposed' = NoEvent /\ blocked' = {}
  /\ pc' = "next"
  /\ UNCHANGED <<files, commander, session, afterStop, faults>>

Present == page[at]
NextEvent == at' = at + 1 /\ pc' = "next"

RejectEvent ==
  /\ pc = "next" /\ at <= Len(page)
  /\ Present \in Rejected
  /\ NextEvent
  /\ UNCHANGED <<files, commander, session, page, proposed, blocked, afterStop, calls, faults>>

\* The cursor moves before the outcome of the event is known.
ObserveEvent ==
  /\ pc = "next" /\ at <= Len(page)
  /\ Present \notin Rejected
  /\ proposed' = Present
  /\ pc' = IF KeyOf[Present] \in seen THEN "duplicate" ELSE "safety"
  /\ UNCHANGED <<files, commander, session, page, at, blocked, afterStop, calls, faults>>

NoteDuplicate ==
  /\ pc = "duplicate"
  /\ notices' = Appended(notices, [type |-> "duplicate_observation", event |-> Present],
                         GarbledNotice)
  /\ NextEvent
  /\ UNCHANGED <<candidates, cursor, commander, session, page, proposed, blocked,
                 afterStop, calls, faults>>

\* The Commander's file does not allow it: the event is counted and left out.
BlockedByCommander ==
  /\ pc = "safety"
  /\ ~isCandidateWriteAllowed(readSafetyState(commander))
  /\ blocked' = blocked \cup {Present}
  /\ NextEvent
  /\ UNCHANGED <<files, commander, session, page, proposed, afterStop, calls, faults>>

\* Mutant: the counter is compared after the event is let through.
CheckRateCapLate ==
  /\ pc = "safety"
  /\ isCandidateWriteAllowed(readSafetyState(commander))
  /\ LET used == IF elapsed THEN 0 ELSE count IN
       IF used > MaxPerMinute THEN count' = used /\ pc' = "loss"
       ELSE count' = used + 1 /\ pc' = "append"
  /\ elapsed' = FALSE
  /\ UNCHANGED <<files, commander, seen, call, afterStop, calls, faults>>

\* rateCap.isAllowed: a new window when a minute has passed; a true answer counts.
CheckRateCap ==
  /\ pc = "safety"
  /\ isCandidateWriteAllowed(readSafetyState(commander))
  /\ LET used == IF elapsed THEN 0 ELSE count IN
       IF used >= MaxPerMinute THEN count' = used /\ pc' = "loss"
       ELSE count' = used + 1 /\ pc' = "append"
  /\ elapsed' = FALSE
  /\ UNCHANGED <<files, commander, seen, call, afterStop, calls, faults>>

NoteLoss ==
  /\ pc = "loss"
  /\ notices' = Appended(notices, [type |-> "rate_cap_data_loss", event |-> Present],
                         GarbledNotice)
  /\ NextEvent
  /\ UNCHANGED <<candidates, cursor, commander, session, page, proposed, blocked,
                 afterStop, calls, faults>>

NewRecord == [id |-> KeyOf[Present], current |-> Present \notin Undated]

\* appendCandidate, then markSeen; an invalid date throws between the two.
WriteCandidate ==
  /\ pc = "append"
  /\ candidates' = Appended(candidates, NewRecord, GarbledRecord)
  /\ afterStop' = IF Permits(commander) THEN afterStop ELSE afterStop + 1
  /\ IF Present \in Undated
     THEN pc' = "idle" /\ UNCHANGED <<seen, at>>
     ELSE seen' = seen \cup {KeyOf[Present]} /\ NextEvent
  /\ UNCHANGED <<notices, cursor, commander, count, elapsed, page, proposed, blocked,
                 calls, faults>>

\* Mutant: the candidate is marked as seen although its append failed.
AppendFailsMarked(tear) ==
  /\ pc \in {"append", "duplicate", "loss"}
  /\ faults < MaxFaults /\ faults' = faults + 1
  /\ candidates' = IF pc = "append" THEN Torn(candidates, NewRecord, GarbledRecord, tear)
                   ELSE candidates
  /\ seen' = seen \cup {KeyOf[Present]}
  /\ pc' = "idle"
  /\ UNCHANGED <<notices, cursor, commander, count, elapsed, call, afterStop, calls>>

\* An append rejects, and with it the call.
AppendFails(tear) ==
  /\ pc \in {"append", "duplicate", "loss"}
  /\ faults < MaxFaults /\ faults' = faults + 1
  /\ IF pc = "append"
     THEN candidates' = Torn(candidates, NewRecord, GarbledRecord, tear) /\ UNCHANGED notices
     ELSE /\ notices' = Torn(notices,
                [type |-> IF pc = "loss" THEN "rate_cap_data_loss" ELSE "duplicate_observation",
                 event |-> Present], GarbledNotice, tear)
          /\ UNCHANGED candidates
  /\ pc' = "idle"
  /\ UNCHANGED <<cursor, commander, session, call, afterStop, calls>>

\* saveCursor, when an event passed the filter; temp file and rename.
FinishPage ==
  /\ pc = "next" /\ at > Len(page)
  /\ cursor' = IF proposed = NoEvent THEN cursor ELSE proposed
  /\ pc' = "idle"
  /\ UNCHANGED <<candidates, notices, commander, session, call, afterStop, calls, faults>>

\* The write or the rename fails: the old cursor stays.
SaveCursorFails ==
  /\ pc = "next" /\ at > Len(page) /\ proposed # NoEvent
  /\ faults < MaxFaults /\ faults' = faults + 1
  /\ pc' = "idle"
  /\ UNCHANGED <<files, commander, session, call, afterStop, calls>>

\* The process dies.
Crash ==
  /\ pc # "down" /\ faults < MaxFaults /\ faults' = faults + 1
  /\ pc' = "down"
  /\ seen' = {} /\ UNCHANGED <<files, commander, count, elapsed, call, afterStop, calls>>

-----------------------------------------------------------------------------
(* The surroundings *)

\* The Commander writes its file, or the file grows stale.
CommanderChanges(file) ==
  /\ file # commander
  /\ commander' = file
  /\ afterStop' = IF Permits(commander) \/ Permits(file) THEN 0 ELSE afterStop
  /\ UNCHANGED <<files, session, pc, call, calls, faults>>

MinutePasses ==
  /\ ~elapsed
  /\ elapsed' = TRUE
  /\ UNCHANGED <<files, commander, seen, count, pc, call, afterStop, calls, faults>>

\* The dedup TTL of a record passes.
Expire(i) ==
  /\ candidates.lines[i].current
  /\ candidates' = [candidates EXCEPT !.lines[i].current = FALSE]
  /\ UNCHANGED <<notices, cursor, commander, session, pc, call, afterStop, calls, faults>>

Next ==
  \/ StartProcess
  \/ \E events \in Page : Ingest(events)
  \/ RejectEvent \/ ObserveEvent \/ NoteDuplicate
  \/ BlockedByCommander \/ CheckRateCap \/ NoteLoss \/ WriteCandidate
  \/ \E tear \in Tear : AppendFails(tear)
  \/ FinishPage \/ SaveCursorFails \/ Crash
  \/ \E file \in CommanderFiles : CommanderChanges(file)
  \/ MinutePasses
  \/ \E i \in DOMAIN candidates.lines : Expire(i)

Spec == Init /\ [][Next]_vars

-----------------------------------------------------------------------------
(* Properties *)

File(Line) == {file \in [lines : Seq(Line), open : BOOLEAN] : file.open => file.lines # <<>>}

\* Every variable has its type: only a line can be open, the rate cap's counter stays
\* within its window's maximum, and a call that awaits has a present event.
TypeOK ==
  /\ candidates \in File(Record) /\ notices \in File(Notice)
  /\ cursor \in Event \cup {NoEvent} /\ proposed \in Event \cup {NoEvent}
  /\ commander \in CommanderFiles
  /\ seen \subseteq CandidateId
  /\ count \in 0 .. MaxPerMinute /\ elapsed \in BOOLEAN
  /\ pc \in {"down", "idle"} \cup Running
  /\ page \in Page \cup {<<>>} /\ at \in 1 .. Len(page) + 1
  /\ pc \in Running \ {"next"} => at <= Len(page)
  /\ blocked \subseteq Event
  /\ afterStop \in Nat /\ calls \in 0 .. MaxCalls /\ faults \in 0 .. MaxFaults

\* A candidate has at most one current record, whatever appends failed, tore a line or
\* were followed by a crash (isSeen, markSeen, loadDedupStore).
OneCurrentRecord ==
  \A i, j \in DOMAIN candidates.lines :
    /\ candidates.lines[i].current /\ candidates.lines[j].current
    /\ candidates.lines[i].id = candidates.lines[j].id
    => i = j

\* The map knows every current record except the one a failed append left open.
MapCovers ==
  pc # "down" =>
    \A i \in DOMAIN candidates.lines :
      candidates.lines[i].current =>
        \/ candidates.lines[i].id \in seen
        \/ candidates.open /\ i = Len(candidates.lines)

NotSeenYet == pc \in {"safety", "append", "loss"} => KeyOf[Present] \notin seen

\* The dedup map and restarts together keep one current record per candidate; the
\* conjuncts are what makes it inductive.
DedupInv == OneCurrentRecord /\ MapCovers /\ NotSeenYet

\* A Commander that stops is obeyed at the next event: at most the candidate in flight
\* is written after its file ceases to permit writes (readSafetyState before each one).
AtMostOneAfterStop == afterStop <= 1

Whole == ~candidates.open /\ ~notices.open
         /\ NoCandidate \notin {candidates.lines[i].id : i \in DOMAIN candidates.lines}
         /\ GarbledNotice \notin {notices.lines[i] : i \in DOMAIN notices.lines}

\* What became of an event: a candidate on file, a notice of its loss, or the Commander's veto.
Accounted(e) ==
  \/ KeyOf[e] \in Readable(candidates)
  \/ [type |-> "rate_cap_data_loss", event |-> e] \in {notices.lines[i] : i \in DOMAIN notices.lines}
  \/ e \in blocked

\* The cursor only moves past events that left a trace, also after failed appends,
\* crashes and repeated pages, as long as no line was torn (saveCursor comes last).
NoSilentLoss ==
  [][ pc = "next" /\ cursor' # cursor /\ Whole =>
        \A i \in DOMAIN page : page[i] \in Rejected \/ Accounted(page[i]) ]_vars
=============================================================================
