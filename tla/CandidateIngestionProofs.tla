---------------------- MODULE CandidateIngestionProofs ----------------------
(***************************************************************************)
(* Proofs about CandidateIngestion: typing, one current record per         *)
(* candidate, at most one candidate after the Commander stops, and a       *)
(* cursor that passes no event without a trace, for any events, pages,     *)
(* tears and bounds.                                                       *)
(***************************************************************************)
EXTENDS CandidateIngestion, SequenceTheorems, TLAPS

-----------------------------------------------------------------------------
(* The JSONL files *)

\* An append to an open file spoils its last line.
LEMMA AppendedToOpen ==
  ASSUME NEW Line, NEW file \in File(Line), NEW line \in Line, NEW garbled \in Line, file.open
  PROVE  /\ Appended(file, line, garbled).lines \in Seq(Line)
         /\ Len(Appended(file, line, garbled).lines) = Len(file.lines)
         /\ \A i \in 1 .. Len(file.lines) : i # Len(file.lines) =>
              Appended(file, line, garbled).lines[i] = file.lines[i]
         /\ Appended(file, line, garbled).lines[Len(file.lines)] = garbled
<1>1. file.lines \in Seq(Line) /\ Len(file.lines) \in 1 .. Len(file.lines)
  BY EmptySeq DEF File
<1>2. Appended(file, line, garbled).lines = [file.lines EXCEPT ![Len(file.lines)] = garbled]
  BY DEF Appended
<1>3. /\ [file.lines EXCEPT ![Len(file.lines)] = garbled] \in Seq(Line)
      /\ Len([file.lines EXCEPT ![Len(file.lines)] = garbled]) = Len(file.lines)
      /\ \A j \in 1 .. Len(file.lines) :
           [file.lines EXCEPT ![Len(file.lines)] = garbled][j]
             = IF j = Len(file.lines) THEN garbled ELSE file.lines[j]
  BY <1>1, ExceptSeq
<1> QED
  BY <1>1, <1>2, <1>3

\* An append to a closed file adds a line.
LEMMA AppendedToClosed ==
  ASSUME NEW Line, NEW file \in File(Line), NEW line \in Line, NEW garbled \in Line, ~file.open
  PROVE  /\ Appended(file, line, garbled).lines \in Seq(Line)
         /\ Len(Appended(file, line, garbled).lines) = Len(file.lines) + 1
         /\ \A i \in 1 .. Len(file.lines) :
              Appended(file, line, garbled).lines[i] = file.lines[i]
         /\ Appended(file, line, garbled).lines[Len(file.lines) + 1] = line
<1>1. file.lines \in Seq(Line)
  BY DEF File
<1>2. Appended(file, line, garbled).lines = Append(file.lines, line)
  BY DEF Appended
<1> QED
  BY <1>1, <1>2, AppendProperties

LEMMA AppendedLine ==
  ASSUME NEW Line, NEW file \in File(Line), NEW line \in Line, NEW garbled \in Line
  PROVE  /\ Appended(file, line, garbled) \in [lines : Seq(Line), open : BOOLEAN]
         /\ Appended(file, line, garbled).lines # <<>>
<1>0. file.lines \in Seq(Line) /\ file.open \in BOOLEAN /\ Len(file.lines) \in Nat
      /\ (file.open => Len(file.lines) > 0)
  BY EmptySeq DEF File
<1>1. /\ Appended(file, line, garbled).lines \in Seq(Line)
      /\ Len(Appended(file, line, garbled).lines) > 0
  <2>1. CASE file.open
    BY <1>0, <2>1, AppendedToOpen
  <2>2. CASE ~file.open
    BY <1>0, <2>2, AppendedToClosed
  <2> QED
    BY <1>0, <2>1, <2>2
<1>2. Appended(file, line, garbled).lines # <<>>
  BY <1>1, EmptySeq
<1>3. Appended(file, line, garbled) = [lines |-> Appended(file, line, garbled).lines, open |-> FALSE]
  BY DEF Appended
<1>4. Appended(file, line, garbled) \in [lines : Seq(Line), open : BOOLEAN]
  <2> DEFINE lines == Appended(file, line, garbled).lines
  <2>1. lines \in Seq(Line) /\ Appended(file, line, garbled) = [lines |-> lines, open |-> FALSE]
    BY <1>1, <1>3
  <2> HIDE DEF lines
  <2> QED
    BY <2>1
<1> QED
  BY <1>2, <1>4

LEMMA AppendedType ==
  ASSUME NEW Line, NEW file \in File(Line), NEW line \in Line, NEW garbled \in Line
  PROVE  Appended(file, line, garbled) \in File(Line)
BY AppendedLine DEF File

\* A failed append leaves the file as it was, or an open line.
LEMMA TornOpen ==
  ASSUME NEW Line, NEW file \in File(Line), NEW written \in Line, NEW garbled \in Line,
         NEW T, T = [Appended(file, written, garbled) EXCEPT !.open = TRUE]
  PROVE  /\ T \in File(Line)
         /\ T.lines = Appended(file, written, garbled).lines /\ T.open = TRUE
<1> DEFINE A == Appended(file, written, garbled)
<1>1. A \in [lines : Seq(Line), open : BOOLEAN] /\ A.lines # <<>>
  BY AppendedLine
<1>2. T = [A EXCEPT !.open = TRUE]
  OBVIOUS
<1> HIDE DEF A
<1>3. T \in File(Line) /\ T.lines = A.lines /\ T.open = TRUE
  BY <1>1, <1>2 DEF File
<1> QED
  BY <1>3 DEF A

LEMMA TornType ==
  ASSUME NEW Line, NEW file \in File(Line), NEW line \in Line, NEW garbled \in Line,
         NEW tear \in {"nothing", "part", "unterminated"}
  PROVE  Torn(file, line, garbled, tear) \in File(Line)
<1>1. CASE tear = "nothing"
  BY <1>1 DEF Torn
<1>2. CASE tear = "part"
  <2>1. Torn(file, line, garbled, tear) = [Appended(file, garbled, garbled) EXCEPT !.open = TRUE]
    BY <1>2 DEF Torn
  <2> QED
    BY <2>1, TornOpen
<1>3. CASE tear = "unterminated"
  <2>1. Torn(file, line, garbled, tear) = [Appended(file, line, garbled) EXCEPT !.open = TRUE]
    BY <1>3 DEF Torn
  <2> QED
    BY <2>1, TornOpen
<1> QED
  BY <1>1, <1>2, <1>3

LEMMA Garbled == GarbledRecord \in Record /\ GarbledNotice \in Notice
BY DEF GarbledRecord, GarbledNotice, Record, Notice

-----------------------------------------------------------------------------
(* Typing *)

\* Where a call has a present event, the event is one of Event and has a candidate.
LEMMA PresentEvent ==
  ASSUME TypeOK, at <= Len(page)
  PROVE  Present \in Event /\ KeyOf[Present] \in CandidateId
<1>1. page \in Seq(Event)
  BY IngestionAssumption DEF TypeOK
<1>2. at \in 1 .. Len(page)
  BY <1>1 DEF TypeOK
<1> QED
  BY <1>1, <1>2, IngestionAssumption DEF Present

LEMMA NewRecordType ==
  ASSUME TypeOK, at <= Len(page)
  PROVE  NewRecord \in Record
BY PresentEvent DEF NewRecord, Record

\* Expiry takes the currency from one line.
LEMMA ExpiredFile ==
  ASSUME NEW file \in File(Record), NEW i \in DOMAIN file.lines, file.lines[i].current
  PROVE  LET E == [file EXCEPT !.lines[i].current = FALSE] IN
    /\ E \in File(Record)
    /\ E.open = file.open /\ Len(E.lines) = Len(file.lines)
    /\ \A j \in 1 .. Len(file.lines) :
         E.lines[j] = IF j = i THEN [file.lines[i] EXCEPT !.current = FALSE] ELSE file.lines[j]
<1> DEFINE record == [file.lines[i] EXCEPT !.current = FALSE]
<1> DEFINE lines == [file.lines EXCEPT ![i] = record]
<1>1. file.lines \in Seq(Record) /\ file \in [lines : Seq(Record), open : BOOLEAN]
  BY DEF File
<1>2. i \in 1 .. Len(file.lines) /\ Len(file.lines) \in Nat
  BY <1>1
<1>3. record \in Record
  <2>1. file.lines[i] \in [id : CandidateId, current : BOOLEAN]
    BY <1>1, <1>2 DEF Record, GarbledRecord
  <2> QED
    BY <2>1 DEF Record
<1>4. [file EXCEPT !.lines[i].current = FALSE] = [file EXCEPT !.lines = lines]
  BY <1>1, <1>2
<1> HIDE DEF record
<1>5. /\ lines \in Seq(Record) /\ Len(lines) = Len(file.lines)
      /\ \A j \in 1 .. Len(file.lines) : lines[j] = IF j = i THEN record ELSE file.lines[j]
  BY <1>1, <1>2, <1>3, ExceptSeq
<1> HIDE DEF lines
<1>6. [file EXCEPT !.lines = lines] \in File(Record)
      /\ [file EXCEPT !.lines = lines].open = file.open
      /\ [file EXCEPT !.lines = lines].lines = lines
  BY <1>1, <1>2, <1>5, EmptySeq DEF File
<1> QED
  BY <1>4, <1>5, <1>6 DEF record

\* Every variable keeps its type (all of ingestOfflineCandidateEvents and its store).
THEOREM IngestionTyping == Spec => []TypeOK
<1> USE IngestionAssumption
<1>0. <<>> \in Seq(Event) /\ Len(<<>>) = 0
  OBVIOUS
<1>1. Init => TypeOK
  <2> SUFFICES ASSUME Init PROVE TypeOK
    OBVIOUS
  <2>1. candidates \in File(Record) /\ notices \in File(Notice)
    BY DEF Init, EmptyFile, File
  <2>2. page \in Page \cup {<<>>} /\ at \in 1 .. Len(page) + 1
    BY <1>0 DEF Init
  <2>3. count \in 0 .. MaxPerMinute /\ calls \in 0 .. MaxCalls /\ faults \in 0 .. MaxFaults
    BY DEF Init
  <2> QED
    BY <2>1, <2>2, <2>3 DEF Init, TypeOK, Running
<1>2. TypeOK /\ [Next]_vars => TypeOK'
  <2> SUFFICES ASSUME TypeOK, [Next]_vars PROVE TypeOK'
    OBVIOUS
  <2>0. page \in Seq(Event) /\ Len(page) \in Nat /\ at \in Nat
    <3>1. page \in Seq(Event)
      BY <1>0 DEF TypeOK
    <3> QED
      BY <3>1 DEF TypeOK
  <2>1. CASE StartProcess
    <3>1. Loaded(candidates) \subseteq CandidateId
      <4>1. candidates.lines \in Seq(Record)
        BY DEF TypeOK, File
      <4> QED
        BY <4>1 DEF Loaded, Record, GarbledRecord
    <3> QED
      <4>1. seen' \subseteq CandidateId /\ count' \in 0 .. MaxPerMinute /\ pc' = "idle"
        BY <2>1, <3>1 DEF StartProcess
      <4> QED
        BY <2>1, <4>1 DEF StartProcess, TypeOK, files, call, Running
  <2>2. ASSUME NEW events \in Page, Ingest(events) PROVE TypeOK'
    <3>1. Len(events) \in Nat
      BY <2>2
    <3>2. at' \in 1 .. Len(page') + 1
      BY <2>2, <3>1 DEF Ingest
    <3>3. calls' \in 0 .. MaxCalls
      BY <2>2 DEF Ingest, TypeOK
    <3> QED
      BY <2>2, <3>2, <3>3 DEF Ingest, TypeOK, files, session, Running
  <2>3. CASE RejectEvent
    BY <2>0, <2>3 DEF RejectEvent, NextEvent, TypeOK, files, session, Running
  <2>4. CASE ObserveEvent
    BY <2>0, <2>4, PresentEvent DEF ObserveEvent, TypeOK, files, session, Running
  <2>5. CASE NoteDuplicate
    <3>1. notices' \in File(Notice)
      BY <2>5, PresentEvent, AppendedType, Garbled
      DEF NoteDuplicate, TypeOK, Running, Notice
    <3> QED
      BY <2>0, <2>5, <3>1 DEF NoteDuplicate, NextEvent, TypeOK, session, Running
  <2>6. CASE BlockedByCommander
    BY <2>0, <2>6, PresentEvent DEF BlockedByCommander, NextEvent, TypeOK, files, session, Running
  <2>7. CASE CheckRateCap
    <3>1. count' \in 0 .. MaxPerMinute /\ pc' \in {"loss", "append"}
      BY <2>7 DEF CheckRateCap, TypeOK
    <3> QED
      BY <2>0, <2>7, <3>1 DEF CheckRateCap, TypeOK, files, call, Running
  <2>8. CASE NoteLoss
    <3>1. notices' \in File(Notice)
      BY <2>8, PresentEvent, AppendedType, Garbled
      DEF NoteLoss, TypeOK, Running, Notice
    <3> QED
      BY <2>0, <2>8, <3>1 DEF NoteLoss, NextEvent, TypeOK, session, Running
  <2>9. CASE WriteCandidate
    <3>1. candidates' \in File(Record)
      BY <2>9, PresentEvent, AppendedType, Garbled, NewRecordType
      DEF WriteCandidate, TypeOK, Running
    <3> QED
      BY <2>0, <2>9, <3>1, PresentEvent DEF WriteCandidate, NextEvent, TypeOK, Running
  <2>10. ASSUME NEW tear \in Tear, AppendFails(tear) PROVE TypeOK'
    <3>1. candidates' \in File(Record)
      <4>1. CASE pc = "append"
        <5>1. candidates' = Torn(candidates, NewRecord, GarbledRecord, tear)
          BY <2>10, <4>1 DEF AppendFails
        <5>2. NewRecord \in Record
          BY <4>1, NewRecordType DEF TypeOK, Running
        <5> QED
          BY <5>1, <5>2, TornType, Garbled DEF TypeOK
      <4> QED
        BY <2>10, <4>1 DEF AppendFails, TypeOK
    <3>2. notices' \in File(Notice)
      <4>1. CASE pc = "append"
        BY <2>10, <4>1 DEF AppendFails, TypeOK
      <4>2. CASE pc # "append"
        <5> DEFINE n == [type |-> IF pc = "loss" THEN "rate_cap_data_loss"
                                  ELSE "duplicate_observation", event |-> Present]
        <5>1. n \in Notice
          BY <2>10, <4>2, PresentEvent DEF AppendFails, TypeOK, Running, Notice
        <5>2. notices' = Torn(notices, n, GarbledNotice, tear)
          BY <2>10, <4>2 DEF AppendFails
        <5> HIDE DEF n
        <5> QED
          BY <5>1, <5>2, TornType, Garbled DEF TypeOK
      <4> QED
        BY <4>1, <4>2
    <3> QED
      BY <2>0, <2>10, <3>1, <3>2 DEF AppendFails, TypeOK, session, call, Running
  <2>11. CASE FinishPage
    BY <2>11 DEF FinishPage, TypeOK, session, call, Running
  <2>12. CASE SaveCursorFails
    BY <2>12 DEF SaveCursorFails, TypeOK, files, session, call, Running
  <2>13. CASE Crash
    BY <2>13 DEF Crash, TypeOK, files, call, Running
  <2>14. ASSUME NEW file \in CommanderFiles, CommanderChanges(file) PROVE TypeOK'
    BY <2>14 DEF CommanderChanges, TypeOK, files, session, call
  <2>15. CASE MinutePasses
    BY <2>15 DEF MinutePasses, TypeOK, files, call
  <2>16. ASSUME NEW i \in DOMAIN candidates.lines, Expire(i) PROVE TypeOK'
    <3>1. candidates' \in File(Record)
      BY <2>16, ExpiredFile DEF Expire, TypeOK
    <3> QED
      BY <2>16, <3>1 DEF Expire, TypeOK, session, call
  <2>17. CASE UNCHANGED vars
    BY <2>17 DEF vars, files, session, call, TypeOK
  <2> QED
    BY <2>1, <2>2, <2>3, <2>4, <2>5, <2>6, <2>7, <2>8, <2>9, <2>10, <2>11, <2>12, <2>13,
       <2>14, <2>15, <2>16, <2>17 DEF Next
<1> QED
  BY <1>1, <1>2, PTL DEF Spec

-----------------------------------------------------------------------------
(* One current record per candidate *)

Unique(lines) ==
  \A i, j \in DOMAIN lines :
    lines[i].current /\ lines[j].current /\ lines[i].id = lines[j].id => i = j

Covered(file, S) ==
  \A i \in DOMAIN file.lines :
    file.lines[i].current => file.lines[i].id \in S \/ (file.open /\ i = Len(file.lines))

\* All current records are in S, but for the given one at the end.
Known(lines, S, line) ==
  \A i \in DOMAIN lines :
    lines[i].current => lines[i].id \in S \/ (i = Len(lines) /\ lines[i] = line)

\* A record that is not known yet is added, on a line of its own or to an open one.
LEMMA RecordAdded ==
  ASSUME NEW file \in File(Record), NEW line \in Record, NEW S,
         Unique(file.lines), Covered(file, S), line = GarbledRecord \/ line.id \notin S,
         NEW lines, lines = Appended(file, line, GarbledRecord).lines
  PROVE  Unique(lines) /\ Known(lines, S, line)
<1>0. file.lines \in Seq(Record) /\ Len(file.lines) \in Nat
  BY DEF File
<1>1. ASSUME file.open
      PROVE  /\ lines \in Seq(Record)
             /\ Len(lines) = Len(file.lines)
             /\ \A i \in 1 .. Len(file.lines) : i # Len(file.lines) => lines[i] = file.lines[i]
             /\ lines[Len(file.lines)] = GarbledRecord
  BY <1>1, AppendedToOpen, Garbled
<1>2. ASSUME ~file.open
      PROVE  /\ lines \in Seq(Record)
             /\ Len(lines) = Len(file.lines) + 1
             /\ \A i \in 1 .. Len(file.lines) : lines[i] = file.lines[i]
             /\ lines[Len(file.lines) + 1] = line
  BY <1>2, AppendedToClosed, Garbled
<1>3. GarbledRecord.current = FALSE
  BY DEF GarbledRecord
<1>4. ASSUME NEW i \in DOMAIN lines, lines[i].current
      PROVE  \/ i \in DOMAIN file.lines /\ lines[i] = file.lines[i]
                /\ (file.open => i # Len(file.lines))
             \/ i = Len(lines) /\ lines[i] = line /\ ~file.open
  <2>1. CASE file.open
    BY ONLY <1>0, <1>1, <1>3, <1>4, <2>1
  <2>2. CASE ~file.open
    BY ONLY <1>0, <1>2, <1>4, <2>2
  <2> QED
    BY <2>1, <2>2
<1>5. ASSUME NEW i \in DOMAIN lines, lines[i].current
      PROVE  lines[i].id \in S \/ (i = Len(lines) /\ lines[i] = line)
  BY <1>4, <1>5 DEF Covered
<1>6. ASSUME NEW i \in DOMAIN lines, NEW j \in DOMAIN lines,
             lines[i].current, lines[j].current, lines[i].id = lines[j].id
      PROVE  i = j
  <2>1. CASE i \in DOMAIN file.lines /\ lines[i] = file.lines[i]
             /\ (file.open => i # Len(file.lines))
    BY <1>3, <1>4, <1>6, <2>1 DEF Unique, Covered
  <2>2. CASE i = Len(lines) /\ lines[i] = line /\ ~file.open
    BY <1>3, <1>4, <1>6, <2>2 DEF Covered
  <2> QED
    BY <1>4, <1>6, <2>1, <2>2
<1> QED
  BY <1>5, <1>6 DEF Unique, Known

\* Restarts, retries and torn lines never give a candidate a second current record.
THEOREM DedupHolds == Spec => []DedupInv
<1> USE IngestionAssumption
<1>1. Init => DedupInv
  BY DEF Init, DedupInv, OneCurrentRecord, MapCovers, NotSeenYet, EmptyFile
<1>2. TypeOK /\ DedupInv /\ [Next]_vars => DedupInv'
  <2> SUFFICES ASSUME TypeOK, DedupInv, [Next]_vars PROVE DedupInv'
    OBVIOUS
  <2>0. candidates \in File(Record) /\ candidates.lines \in Seq(Record)
    BY DEF TypeOK, File
  <2>b. Unique(candidates.lines) /\ (pc # "down" => Covered(candidates, seen))
    BY DEF DedupInv, OneCurrentRecord, MapCovers, Unique, Covered
  \* Every step that leaves the file and the map alone, and the present event while it awaits.
  <2>a. ASSUME UNCHANGED <<candidates, seen>>, pc = "down" => pc' = "down",
               pc' \in {"safety", "append", "loss"} => KeyOf[Present'] \notin seen
        PROVE  DedupInv'
    BY <2>a DEF DedupInv, OneCurrentRecord, MapCovers, NotSeenYet
  <2>1. CASE StartProcess
    BY <2>1 DEF StartProcess, files, DedupInv, OneCurrentRecord, MapCovers, NotSeenYet, Loaded
  <2>2. ASSUME NEW events \in Page, Ingest(events) PROVE DedupInv'
    BY <2>2, <2>a DEF Ingest, files, session
  <2>3. CASE RejectEvent
    BY <2>3, <2>a DEF RejectEvent, NextEvent, files, session
  <2>4. CASE ObserveEvent
    BY <2>4, <2>a DEF ObserveEvent, files, session, Present
  <2>5. CASE NoteDuplicate
    BY <2>5, <2>a DEF NoteDuplicate, NextEvent, session
  <2>6. CASE BlockedByCommander
    BY <2>6, <2>a DEF BlockedByCommander, NextEvent, files, session
  <2>7. CASE CheckRateCap
    BY <2>7, <2>a DEF CheckRateCap, files, call, DedupInv, NotSeenYet, Present
  <2>8. CASE NoteLoss
    BY <2>8, <2>a DEF NoteLoss, NextEvent, session
  <2>9. CASE WriteCandidate
    <3>1. NewRecord \in Record /\ NewRecord.id = KeyOf[Present]
          /\ NewRecord.current = (Present \notin Undated)
      BY <2>9, NewRecordType DEF WriteCandidate, TypeOK, Running, NewRecord
    <3>2. KeyOf[Present] \notin seen /\ pc # "down"
      BY <2>9 DEF WriteCandidate, DedupInv, NotSeenYet
    <3>3. Unique(candidates'.lines) /\ Known(candidates'.lines, seen, NewRecord)
      <4>1. candidates'.lines = Appended(candidates, NewRecord, GarbledRecord).lines
        BY <2>9 DEF WriteCandidate
      <4>2. NewRecord.id \notin seen
        BY <3>1, <3>2
      <4> QED
        BY <2>0, <2>b, <3>1, <3>2, <4>1, <4>2, RecordAdded
    <3>4. CASE Present \in Undated
      BY <2>9, <3>1, <3>3, <3>4
      DEF WriteCandidate, Unique, Known, DedupInv, OneCurrentRecord, MapCovers, NotSeenYet
    <3>5. CASE Present \notin Undated
      BY <2>9, <3>1, <3>3, <3>5
      DEF WriteCandidate, NextEvent, Unique, Known, DedupInv, OneCurrentRecord, MapCovers, NotSeenYet
    <3> QED
      BY <3>4, <3>5
  <2>10. ASSUME NEW tear \in Tear, AppendFails(tear) PROVE DedupInv'
    <3>0. pc # "down" /\ seen' = seen /\ pc' = "idle"
      BY <2>10 DEF AppendFails, session
    <3>1. CASE candidates' = candidates
      BY <3>0, <3>1, <2>a
    <3>2. CASE candidates' # candidates
      <4> DEFINE written == IF tear = "part" THEN GarbledRecord ELSE NewRecord
      <4>1. pc = "append" /\ candidates' = Torn(candidates, NewRecord, GarbledRecord, tear)
        BY <2>10, <3>2 DEF AppendFails
      <4>2. NewRecord \in Record /\ NewRecord.id = KeyOf[Present]
        BY <4>1, NewRecordType DEF TypeOK, Running, NewRecord
      <4>3. /\ candidates'.lines = Appended(candidates, written, GarbledRecord).lines
            /\ candidates'.open = TRUE
        <5>1. tear \in {"nothing", "part", "unterminated"}
          OBVIOUS
        <5>2. candidates' = [Appended(candidates, written, GarbledRecord) EXCEPT !.open = TRUE]
          BY <3>2, <4>1, <5>1 DEF Torn
        <5>3. written \in Record
          BY <4>2, Garbled
        <5> HIDE DEF written
        <5> QED
          BY <2>0, <5>2, <5>3, TornOpen, Garbled
      <4>4. written \in Record /\ (written = GarbledRecord \/ written.id \notin seen)
        BY <4>1, <4>2, Garbled DEF DedupInv, NotSeenYet
      <4> HIDE DEF written
      <4>5. Unique(candidates'.lines) /\ Known(candidates'.lines, seen, written)
        BY <2>0, <2>b, <3>0, <4>3, <4>4, RecordAdded
      <4> QED
        BY <3>0, <4>3, <4>5 DEF Unique, Known, DedupInv, OneCurrentRecord, MapCovers, NotSeenYet
    <3> QED
      BY <3>1, <3>2
  <2>11. CASE FinishPage
    BY <2>11, <2>a DEF FinishPage, session
  <2>12. CASE SaveCursorFails
    BY <2>12, <2>a DEF SaveCursorFails, files, session
  <2>13. CASE Crash
    BY <2>13 DEF Crash, files, DedupInv, OneCurrentRecord, MapCovers, NotSeenYet
  <2>14. ASSUME NEW file \in CommanderFiles, CommanderChanges(file) PROVE DedupInv'
    BY <2>14, <2>a DEF CommanderChanges, files, session, call, DedupInv, NotSeenYet, Present
  <2>15. CASE MinutePasses
    BY <2>15, <2>a DEF MinutePasses, files, call, DedupInv, NotSeenYet, Present
  <2>16. ASSUME NEW i \in DOMAIN candidates.lines, Expire(i) PROVE DedupInv'
    <3>1. /\ candidates'.open = candidates.open /\ Len(candidates'.lines) = Len(candidates.lines)
          /\ \A j \in 1 .. Len(candidates.lines) :
               candidates'.lines[j] = IF j = i THEN [candidates.lines[i] EXCEPT !.current = FALSE]
                                      ELSE candidates.lines[j]
          /\ candidates'.lines \in Seq(Record)
      BY <2>0, <2>16, ExpiredFile DEF Expire, File
    <3>2. DOMAIN candidates'.lines = DOMAIN candidates.lines
          /\ DOMAIN candidates.lines = 1 .. Len(candidates.lines)
      BY <2>0, <3>1
    <3>3. candidates.lines[i] \in Record
      BY <2>0
    <3>4. \A j \in DOMAIN candidates.lines :
            candidates'.lines[j].current => j # i /\ candidates'.lines[j] = candidates.lines[j]
      BY <2>16, <3>1, <3>2, <3>3 DEF Record, GarbledRecord
    <3> QED
      <4>1. OneCurrentRecord'
        BY <3>2, <3>4 DEF DedupInv, OneCurrentRecord
      <4>2. MapCovers'
        BY <2>16, <3>1, <3>2, <3>4 DEF Expire, session, DedupInv, MapCovers
      <4>3. NotSeenYet'
        BY <2>16 DEF Expire, session, call, DedupInv, NotSeenYet, Present
      <4> QED
        BY <4>1, <4>2, <4>3 DEF DedupInv
  <2>17. CASE UNCHANGED vars
    BY <2>17, <2>a DEF vars, files, session, call, DedupInv, NotSeenYet, Present
  <2> QED
    BY <2>1, <2>2, <2>3, <2>4, <2>5, <2>6, <2>7, <2>8, <2>9, <2>10, <2>11, <2>12, <2>13,
       <2>14, <2>15, <2>16, <2>17 DEF Next
<1> QED
  BY <1>1, <1>2, IngestionTyping, PTL DEF Spec

-----------------------------------------------------------------------------
(* The Commander's stop *)

StopInv ==
  /\ afterStop \in {0, 1}
  /\ afterStop = 1 => ~Permits(commander) /\ pc # "append"

\* The gate the code evaluates allows no more than the Commander's file means.
LEMMA GateFailsClosed ==
  ASSUME NEW file, isCandidateWriteAllowed(readSafetyState(file))
  PROVE  Permits(file)
BY DEF isCandidateWriteAllowed, readSafetyState, makePassiveState, Permits

\* After the Commander's file ceases to permit writes, at most the candidate in flight is written.
THEOREM StopObeyed == Spec => []AtMostOneAfterStop
<1>1. Init => StopInv
  BY DEF Init, StopInv
<1>2. StopInv /\ [Next]_vars => StopInv'
  <2> SUFFICES ASSUME StopInv, [Next]_vars PROVE StopInv'
    OBVIOUS
  <2> USE DEF StopInv
  <2>1. CASE StartProcess
    BY <2>1 DEF StartProcess
  <2>2. ASSUME NEW events \in Page, Ingest(events) PROVE StopInv'
    BY <2>2 DEF Ingest
  <2>3. CASE RejectEvent
    BY <2>3 DEF RejectEvent, NextEvent
  <2>4. CASE ObserveEvent
    BY <2>4 DEF ObserveEvent
  <2>5. CASE NoteDuplicate
    BY <2>5 DEF NoteDuplicate, NextEvent
  <2>6. CASE BlockedByCommander
    BY <2>6 DEF BlockedByCommander, NextEvent
  <2>7. CASE CheckRateCap
    BY <2>7, GateFailsClosed DEF CheckRateCap
  <2>8. CASE NoteLoss
    BY <2>8 DEF NoteLoss, NextEvent
  <2>9. CASE WriteCandidate
    BY <2>9 DEF WriteCandidate, NextEvent
  <2>10. ASSUME NEW tear \in Tear, AppendFails(tear) PROVE StopInv'
    BY <2>10 DEF AppendFails
  <2>11. CASE FinishPage
    BY <2>11 DEF FinishPage
  <2>12. CASE SaveCursorFails
    BY <2>12 DEF SaveCursorFails
  <2>13. CASE Crash
    BY <2>13 DEF Crash
  <2>14. ASSUME NEW file \in CommanderFiles, CommanderChanges(file) PROVE StopInv'
    BY <2>14 DEF CommanderChanges
  <2>15. CASE MinutePasses
    BY <2>15 DEF MinutePasses
  <2>16. ASSUME NEW i \in DOMAIN candidates.lines, Expire(i) PROVE StopInv'
    BY <2>16 DEF Expire
  <2>17. CASE UNCHANGED vars
    BY <2>17 DEF vars
  <2> QED
    BY <2>1, <2>2, <2>3, <2>4, <2>5, <2>6, <2>7, <2>8, <2>9, <2>10, <2>11, <2>12, <2>13,
       <2>14, <2>15, <2>16, <2>17 DEF Next
<1>3. StopInv => AtMostOneAfterStop
  BY DEF StopInv, AtMostOneAfterStop
<1> QED
  BY <1>1, <1>2, <1>3, PTL DEF Spec

-----------------------------------------------------------------------------
(* The cursor and what became of the events behind it *)

LinesOf(file) == {file.lines[i] : i \in DOMAIN file.lines}

\* An event is accounted for by what the files and the call hold.
Traced(e, records, told, kept) ==
  \/ KeyOf[e] \in Readable(records)
  \/ [type |-> "rate_cap_data_loss", event |-> e] \in LinesOf(told)
  \/ e \in kept

\* While no line is torn: the map knows only candidates on file, and every event of the
\* page before the present one is rejected or accounted for.
LossInv ==
  /\ pc = "duplicate" => KeyOf[Present] \in seen
  /\ Whole => /\ seen \subseteq Readable(candidates)
              /\ pc \in Running =>
                   \A i \in 1 .. at - 1 :
                     page[i] \in Rejected \/ Traced(page[i], candidates, notices, blocked)

\* An append that leaves no garbled line found a closed file and kept its lines.
LEMMA AppendKeeps ==
  ASSUME NEW Line, NEW file \in File(Line), NEW line \in Line, NEW garbled \in Line,
         NEW file2, file2 = Appended(file, line, garbled), garbled \notin LinesOf(file2)
  PROVE  ~file.open /\ LinesOf(file) \subseteq LinesOf(file2) /\ line \in LinesOf(file2)
<1>0. file.lines \in Seq(Line) /\ Len(file.lines) \in Nat /\ file.open \in BOOLEAN
      /\ (file.open => file.lines # <<>>)
  BY DEF File
<1>1. CASE file.open
  <2>1. /\ file2.lines \in Seq(Line) /\ Len(file2.lines) = Len(file.lines)
        /\ file2.lines[Len(file.lines)] = garbled
    BY <1>1, AppendedToOpen
  <2>2. Len(file.lines) \in DOMAIN file2.lines
    BY <1>0, <1>1, <2>1, EmptySeq
  <2> QED
    BY <2>1, <2>2 DEF LinesOf
<1>2. CASE ~file.open
  <2>1. /\ file2.lines \in Seq(Line) /\ Len(file2.lines) = Len(file.lines) + 1
        /\ \A i \in 1 .. Len(file.lines) : file2.lines[i] = file.lines[i]
        /\ file2.lines[Len(file.lines) + 1] = line
    BY <1>2, AppendedToClosed
  <2>2. DOMAIN file.lines = 1 .. Len(file.lines) /\ DOMAIN file2.lines = 1 .. Len(file.lines) + 1
    BY <1>0, <2>1
  <2> QED
    BY <1>0, <1>2, <2>1, <2>2 DEF LinesOf
<1> QED
  BY <1>1, <1>2

\* A failed append that leaves the file closed wrote nothing.
LEMMA TornNothing ==
  ASSUME NEW Line, NEW file \in File(Line), NEW line \in Line, NEW garbled \in Line,
         NEW tear \in {"nothing", "part", "unterminated"}, ~Torn(file, line, garbled, tear).open
  PROVE  Torn(file, line, garbled, tear) = file
<1>1. CASE tear = "nothing"
  BY <1>1 DEF Torn
<1>2. CASE tear = "part"
  <2>1. Torn(file, line, garbled, tear) = [Appended(file, garbled, garbled) EXCEPT !.open = TRUE]
    BY <1>2 DEF Torn
  <2> QED
    BY <2>1, TornOpen
<1>3. CASE tear = "unterminated"
  <2>1. Torn(file, line, garbled, tear) = [Appended(file, line, garbled) EXCEPT !.open = TRUE]
    BY <1>3 DEF Torn
  <2> QED
    BY <2>1, TornOpen
<1> QED
  BY <1>1, <1>2, <1>3

\* The ids on a file follow from its lines.
LEMMA ReadableLines ==
  ASSUME NEW file, NEW file2, LinesOf(file) \subseteq LinesOf(file2)
  PROVE  /\ Readable(file) \subseteq Readable(file2)
         /\ NoCandidate \notin {file2.lines[i].id : i \in DOMAIN file2.lines}
              => NoCandidate \notin {file.lines[i].id : i \in DOMAIN file.lines}
<1>1. \A i \in DOMAIN file.lines : \E j \in DOMAIN file2.lines : file2.lines[j] = file.lines[i]
  BY DEF LinesOf
<1> QED
  BY <1>1 DEF Readable

\* A torn line stays: while the files are whole they have always been, and have lost nothing.
LEMMA StaysWhole ==
  ASSUME TypeOK, [Next]_vars, Whole'
  PROVE  /\ Whole
         /\ Readable(candidates) \subseteq Readable(candidates')
         /\ LinesOf(notices) \subseteq LinesOf(notices')
<1> USE IngestionAssumption
<1>0. candidates \in File(Record) /\ notices \in File(Notice)
  BY DEF TypeOK
<1>w. /\ ~candidates'.open /\ ~notices'.open
      /\ NoCandidate \notin {candidates'.lines[i].id : i \in DOMAIN candidates'.lines}
      /\ GarbledRecord \notin LinesOf(candidates') /\ GarbledNotice \notin LinesOf(notices')
  BY DEF Whole, LinesOf, GarbledRecord
\* It suffices to follow the lines of the two files.
<1>a. ASSUME ~candidates.open, ~notices.open, LinesOf(candidates) \subseteq LinesOf(candidates'),
             LinesOf(notices) \subseteq LinesOf(notices')
      PROVE  /\ Whole
             /\ Readable(candidates) \subseteq Readable(candidates')
             /\ LinesOf(notices) \subseteq LinesOf(notices')
  <2>1. Readable(candidates) \subseteq Readable(candidates')
        /\ NoCandidate \notin {candidates.lines[i].id : i \in DOMAIN candidates.lines}
    BY <1>w, <1>a, ReadableLines
  <2>2. GarbledNotice \notin {notices.lines[i] : i \in DOMAIN notices.lines}
    BY <1>w, <1>a DEF LinesOf
  <2> QED
    BY <1>a, <2>1, <2>2 DEF Whole
<1>b. ASSUME UNCHANGED <<candidates, notices>>
      PROVE  /\ Whole
             /\ Readable(candidates) \subseteq Readable(candidates')
             /\ LinesOf(notices) \subseteq LinesOf(notices')
  BY <1>a, <1>b, <1>w
<1>1. CASE NoteDuplicate
  <2>1. [type |-> "duplicate_observation", event |-> Present] \in Notice
    BY <1>1, PresentEvent DEF NoteDuplicate, TypeOK, Running, Notice
  <2>2. ~notices.open /\ LinesOf(notices) \subseteq LinesOf(notices')
    BY <1>0, <1>1, <1>w, <2>1, Garbled, AppendKeeps DEF NoteDuplicate
  <2> QED
    BY <1>1, <1>w, <2>2, <1>a DEF NoteDuplicate
<1>2. CASE NoteLoss
  <2>1. [type |-> "rate_cap_data_loss", event |-> Present] \in Notice
    BY <1>2, PresentEvent DEF NoteLoss, TypeOK, Running, Notice
  <2>2. ~notices.open /\ LinesOf(notices) \subseteq LinesOf(notices')
    BY <1>0, <1>2, <1>w, <2>1, Garbled, AppendKeeps DEF NoteLoss
  <2> QED
    BY <1>2, <1>w, <2>2, <1>a DEF NoteLoss
<1>3. CASE WriteCandidate
  <2>1. NewRecord \in Record
    BY <1>3, NewRecordType DEF WriteCandidate, TypeOK, Running
  <2>2. ~candidates.open /\ LinesOf(candidates) \subseteq LinesOf(candidates')
    BY <1>0, <1>3, <1>w, <2>1, Garbled, AppendKeeps DEF WriteCandidate
  <2> QED
    BY <1>3, <1>w, <2>2, <1>a DEF WriteCandidate
<1>4. ASSUME NEW tear \in Tear, AppendFails(tear) PROVE UNCHANGED <<candidates, notices>>
  <2>0. tear \in {"nothing", "part", "unterminated"}
    OBVIOUS
  <2>1. CASE pc = "append"
    <3>1. NewRecord \in Record
      BY <2>1, NewRecordType DEF TypeOK, Running
    <3>2. candidates' = Torn(candidates, NewRecord, GarbledRecord, tear) /\ notices' = notices
      BY <1>4, <2>1 DEF AppendFails
    <3> QED
      BY <1>0, <1>w, <2>0, <3>1, <3>2, Garbled, TornNothing
  <2>2. CASE pc # "append"
    <3> DEFINE n == [type |-> IF pc = "loss" THEN "rate_cap_data_loss"
                              ELSE "duplicate_observation", event |-> Present]
    <3>1. n \in Notice
      BY <1>4, <2>2, PresentEvent DEF AppendFails, TypeOK, Running, Notice
    <3>2. notices' = Torn(notices, n, GarbledNotice, tear) /\ candidates' = candidates
      BY <1>4, <2>2 DEF AppendFails
    <3> HIDE DEF n
    <3> QED
      BY <1>0, <1>w, <2>0, <3>1, <3>2, Garbled, TornNothing
  <2> QED
    BY <2>1, <2>2
<1>5. ASSUME NEW i \in DOMAIN candidates.lines, Expire(i)
      PROVE  /\ Whole
             /\ Readable(candidates) \subseteq Readable(candidates')
             /\ LinesOf(notices) \subseteq LinesOf(notices')
  <2>1. /\ candidates'.open = candidates.open /\ Len(candidates'.lines) = Len(candidates.lines)
        /\ \A j \in 1 .. Len(candidates.lines) :
             candidates'.lines[j] = IF j = i THEN [candidates.lines[i] EXCEPT !.current = FALSE]
                                    ELSE candidates.lines[j]
        /\ candidates'.lines \in Seq(Record) /\ candidates.lines \in Seq(Record)
    <3>1. candidates' = [candidates EXCEPT !.lines[i].current = FALSE]
      BY <1>5 DEF Expire
    <3>2. candidates.lines[i].current
      BY <1>5 DEF Expire
    <3> QED
      BY <1>0, <3>1, <3>2, ExpiredFile DEF File
  <2>2. DOMAIN candidates'.lines = DOMAIN candidates.lines
        /\ DOMAIN candidates.lines = 1 .. Len(candidates.lines)
    BY <2>1
  <2>3. candidates.lines[i] \in [id : CandidateId, current : BOOLEAN]
    <3>1. candidates.lines[i].current /\ candidates.lines[i] \in Record
      BY <1>5, <2>1 DEF Expire
    <3> QED
      BY <3>1 DEF Record, GarbledRecord
  <2>4. \A j \in DOMAIN candidates.lines : candidates'.lines[j].id = candidates.lines[j].id
    <3>1. [candidates.lines[i] EXCEPT !.current = FALSE].id = candidates.lines[i].id
      BY <2>3
    <3> QED
      BY <2>1, <2>2, <3>1
  <2>5. notices' = notices
    BY <1>5 DEF Expire
  <2>6. {candidates'.lines[j].id : j \in DOMAIN candidates'.lines}
          = {candidates.lines[j].id : j \in DOMAIN candidates.lines}
    BY <2>2, <2>4
  <2>7. Whole
    BY <1>w, <2>1, <2>5, <2>6 DEF Whole
  <2>8. Readable(candidates) = Readable(candidates')
    BY <2>2, <2>6 DEF Readable
  <2> QED
    BY <2>5, <2>7, <2>8
<1>6. CASE UNCHANGED vars
  BY <1>6, <1>b DEF vars, files
<1> QED
  BY <1>1, <1>2, <1>3, <1>4, <1>5, <1>6, <1>b
  DEF Next, StartProcess, Ingest, RejectEvent, ObserveEvent, BlockedByCommander, CheckRateCap,
      FinishPage, SaveCursorFails, Crash, CommanderChanges, MinutePasses, files

\* The cursor only moves past events with a trace: on file, noted as lost, or kept out.
THEOREM LossIsNoticed == Spec => NoSilentLoss
<1> USE IngestionAssumption
<1>1. Init => LossInv
  BY DEF Init, LossInv, Running
<1>2. TypeOK /\ LossInv /\ [Next]_vars => LossInv'
  <2> SUFFICES ASSUME TypeOK, LossInv, [Next]_vars PROVE LossInv'
    OBVIOUS
  <2>0. at \in Nat /\ Len(page) \in Nat
    <3>1. page \in Seq(Event)
      BY EmptySeq DEF TypeOK
    <3> QED
      BY <3>1 DEF TypeOK
  \* What a step can do to the page: end the call, wait at its event, or pass to the next.
  <2>a. ASSUME pc' \notin Running, Whole' => seen' \subseteq Readable(candidates')
        PROVE  LossInv'
    BY <2>a DEF LossInv, Running
  <2>b. ASSUME UNCHANGED <<seen, page, at, blocked>>, pc \in Running \/ pc' \notin Running,
               pc' = "duplicate" => KeyOf[Present'] \in seen
        PROVE  LossInv'
    <3>1. ASSUME Whole', pc' \in Running, NEW i \in 1 .. at' - 1
          PROVE  page'[i] \in Rejected \/ Traced(page'[i], candidates', notices', blocked')
      <4>1. page[i] \in Rejected \/ Traced(page[i], candidates, notices, blocked)
        BY <2>b, <3>1, StaysWhole DEF LossInv
      <4>2. CASE page[i] \in Rejected
        BY <2>b, <4>2
      <4>3. CASE Traced(page[i], candidates, notices, blocked)
        BY <2>b, <3>1, <4>3, StaysWhole DEF Traced
      <4> QED
        BY <4>1, <4>2, <4>3
    <3>2. Whole' => seen' \subseteq Readable(candidates')
      BY <2>b, StaysWhole DEF LossInv
    <3> QED
      BY <2>b, <3>1, <3>2 DEF LossInv
  <2>c. ASSUME NextEvent, pc \in Running, page' = page, blocked \subseteq blocked',
               Whole' => /\ seen' \subseteq Readable(candidates')
                         /\ Present \in Rejected \/ Traced(Present, candidates', notices', blocked')
        PROVE  LossInv'
    <3>1. ASSUME Whole', NEW i \in 1 .. at' - 1
          PROVE  page'[i] \in Rejected \/ Traced(page'[i], candidates', notices', blocked')
      <4>0. at' - 1 = at
        BY <2>0, <2>c DEF NextEvent
      <4>1. CASE i = at
        BY <2>c, <3>1, <4>1 DEF Present
      <4>2. CASE i \in 1 .. at - 1
        <5>1. page[i] \in Rejected \/ Traced(page[i], candidates, notices, blocked)
          BY <2>c, <3>1, <4>2, StaysWhole DEF LossInv
        <5> QED
          BY <2>c, <3>1, <5>1, StaysWhole DEF Traced
      <4> QED
        BY <2>0, <3>1, <4>0, <4>1, <4>2
    <3> QED
      BY <2>c, <3>1 DEF NextEvent, LossInv
  <2>d. Whole' => seen \subseteq Readable(candidates')
    BY StaysWhole DEF LossInv
  <2>1. CASE StartProcess
    <3>1. Whole' => Loaded(candidates) \subseteq Readable(candidates)
      BY StaysWhole DEF Loaded, Readable, Whole
    <3> QED
      BY <2>1, <2>a, <3>1, StaysWhole DEF StartProcess, Running
  <2>2. ASSUME NEW events \in Page, Ingest(events) PROVE LossInv'
    <3>1. at' = 1 /\ pc' = "next" /\ seen' = seen
      BY <2>2 DEF Ingest, session
    <3> QED
      BY <2>d, <3>1 DEF LossInv
  <2>3. CASE RejectEvent
    BY <2>3, <2>c, <2>d DEF RejectEvent, session, Running
  <2>4. CASE ObserveEvent
    BY <2>4, <2>b DEF ObserveEvent, session, Running, Present
  <2>5. CASE NoteDuplicate
    <3>1. Whole' => Traced(Present, candidates', notices', blocked')
      <4>1. KeyOf[Present] \in seen
        BY <2>5 DEF NoteDuplicate, LossInv
      <4> QED
        BY <2>d, <4>1 DEF Traced
    <3> QED
      BY <2>5, <2>c, <2>d, <3>1 DEF NoteDuplicate, session, Running
  <2>6. CASE BlockedByCommander
    <3>1. Traced(Present, candidates', notices', blocked')
      BY <2>6 DEF BlockedByCommander, Traced
    <3> QED
      BY <2>6, <2>c, <2>d, <3>1 DEF BlockedByCommander, session, Running
  <2>7. CASE CheckRateCap
    BY <2>7, <2>b DEF CheckRateCap, call, Running
  <2>8. CASE NoteLoss
    <3>1. Whole' => Traced(Present, candidates', notices', blocked')
      <4> DEFINE n == [type |-> "rate_cap_data_loss", event |-> Present]
      <4>1. n \in Notice /\ notices \in File(Notice)
        BY <2>8, PresentEvent DEF NoteLoss, TypeOK, Running, Notice
      <4>2. Whole' => n \in LinesOf(notices')
        <5>1. notices' = Appended(notices, n, GarbledNotice)
          BY <2>8 DEF NoteLoss
        <5>2. Whole' => GarbledNotice \notin LinesOf(notices')
          BY DEF Whole, LinesOf
        <5> HIDE DEF n
        <5> QED
          BY <4>1, <5>1, <5>2, Garbled, AppendKeeps
      <4> QED
        BY <4>2 DEF Traced
    <3> QED
      BY <2>8, <2>c, <2>d, <3>1 DEF NoteLoss, session, Running
  <2>9. CASE WriteCandidate
    <3>1. NewRecord \in Record /\ NewRecord.id = KeyOf[Present] /\ KeyOf[Present] \in CandidateId
      BY <2>9, PresentEvent, NewRecordType DEF WriteCandidate, TypeOK, Running, NewRecord
    <3>2. Whole' => KeyOf[Present] \in Readable(candidates')
      <4>1. candidates' = Appended(candidates, NewRecord, GarbledRecord)
        BY <2>9 DEF WriteCandidate
      <4>2. Whole' => GarbledRecord \notin LinesOf(candidates')
        BY DEF Whole, LinesOf, GarbledRecord
      <4>3. Whole' => NewRecord \in LinesOf(candidates')
        BY <3>1, <4>1, <4>2, Garbled, AppendKeeps DEF TypeOK
      <4> QED
        BY <3>1, <4>3 DEF LinesOf, Readable
    <3>3. CASE Present \in Undated
      BY <2>9, <2>a, <2>d, <3>3 DEF WriteCandidate, Running
    <3>4. CASE Present \notin Undated
      <4>1. Whole' => Traced(Present, candidates', notices', blocked') /\ seen' \subseteq Readable(candidates')
        BY <2>9, <2>d, <3>2, <3>4 DEF WriteCandidate, Traced
      <4> QED
        BY <2>9, <2>c, <3>4, <4>1 DEF WriteCandidate, Running
    <3> QED
      BY <3>3, <3>4
  <2>10. ASSUME NEW tear \in Tear, AppendFails(tear) PROVE LossInv'
    BY <2>10, <2>a, <2>d DEF AppendFails, session, Running
  <2>11. CASE FinishPage
    BY <2>11, <2>a, <2>d DEF FinishPage, session, Running
  <2>12. CASE SaveCursorFails
    BY <2>12, <2>a, <2>d DEF SaveCursorFails, session, Running
  <2>13. CASE Crash
    BY <2>13, <2>a DEF Crash, Running
  <2>14. ASSUME NEW file \in CommanderFiles, CommanderChanges(file) PROVE LossInv'
    BY <2>14, <2>b DEF CommanderChanges, session, call, LossInv, Present
  <2>15. CASE MinutePasses
    BY <2>15, <2>b DEF MinutePasses, call, LossInv, Present
  <2>16. ASSUME NEW i \in DOMAIN candidates.lines, Expire(i) PROVE LossInv'
    BY <2>16, <2>b DEF Expire, session, call, LossInv, Present
  <2>17. CASE UNCHANGED vars
    BY <2>17, <2>b DEF vars, session, call, LossInv, Present
  <2> QED
    BY <2>1, <2>2, <2>3, <2>4, <2>5, <2>6, <2>7, <2>8, <2>9, <2>10, <2>11, <2>12, <2>13,
       <2>14, <2>15, <2>16, <2>17 DEF Next
\* The cursor moves in one step only, behind the last event.
<1>3. TypeOK /\ LossInv /\ [Next]_vars =>
        [ pc = "next" /\ cursor' # cursor /\ Whole =>
            \A i \in DOMAIN page : page[i] \in Rejected \/ Accounted(page[i]) ]_vars
  <2> SUFFICES ASSUME TypeOK, LossInv, Next, cursor' # cursor, Whole, NEW i \in DOMAIN page
               PROVE  page[i] \in Rejected \/ Accounted(page[i])
    OBVIOUS
  <2>1. FinishPage
    BY DEF Next, StartProcess, Ingest, RejectEvent, ObserveEvent, NoteDuplicate,
           BlockedByCommander, CheckRateCap, NoteLoss, WriteCandidate, AppendFails,
           SaveCursorFails, Crash, CommanderChanges, MinutePasses, Expire, files
  <2>2. page \in Seq(Event) /\ at \in 1 .. Len(page) + 1
    BY EmptySeq DEF TypeOK
  <2>3. i \in 1 .. at - 1
    BY <2>1, <2>2 DEF FinishPage
  <2> QED
    BY <2>1, <2>3 DEF FinishPage, LossInv, Running, Traced, Accounted, LinesOf
<1> QED
  BY <1>1, <1>2, <1>3, IngestionTyping, PTL DEF Spec, NoSilentLoss
=============================================================================
