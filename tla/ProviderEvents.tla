--------------------------- MODULE ProviderEvents ---------------------------
(***************************************************************************)
(* From a provider's page to a candidate's identity.  Two readers turn     *)
(* transfer actions into events: the client (watcher/tonapiClient.ts),     *)
(* which skips what lacks a field, and the offline extractor               *)
(* (tonapiExtractor.ts), which passes it on.  The filter (eventFilter.ts)  *)
(* normalizes an event; its identity (candidateId.ts) is a hash of what is *)
(* left, taken to be injective.                                            *)
(*                                                                         *)
(* A text is a member of a set; three functions say what the conversions   *)
(* make of it.  A wire field that is no text is NotText, as is null.       *)
(***************************************************************************)
EXTENDS Refusals, SequencesExt

CONSTANTS
  Trim,        \* Trim[t]: the text without the spaces around it
  Decimal,     \* Decimal[t]: the number a trimmed text spells, or NotDecimal
  RawAddress,  \* RawAddress[t]: the canonical key of an address, or NotAddress
  LastDate     \* the greatest number of seconds that is a date

NotText == "not a text"
NotDecimal == -1
NotAddress == "not an address"
NoIndex == -1
NoTime == -1

IsPresent(t) == t \notin {NotText, ""}

\* optionalString and requiredString
Optional(t) == IF IsPresent(t) THEN t ELSE NotText
Required(t) == IF t = NotText THEN "" ELSE t

\* optionalNonNegativeInteger
Index(i) == IF i >= 0 THEN i ELSE NoIndex

\* unixSecondsToIso throws on a number that is no date.
Throws(seconds) == seconds > LastDate

\* The transaction's time, or else the event's.
EventTime(a, page) == IF a.utime >= 0 THEN a.utime ELSE page.timestamp

-----------------------------------------------------------------------------
(* The two readers.  A page is one event with its actions. *)

IsTransfer(a) == a.object /\ a.type = "JettonTransfer"

\* The seven fields the client insists on.
Complete(a) ==
  /\ a.transfer
  /\ \A t \in {a.hash, a.lt, a.amount, a.trace, a.destination, a.master} : IsPresent(t)
  /\ a.index >= 0

Payload(a, page) ==
  [source |-> Optional(a.source), destination |-> Required(a.destination),
   master |-> Required(a.master), amount |-> Required(a.amount), hash |-> Required(a.hash),
   trace |-> Optional(a.trace), index |-> Index(a.index), message |-> Optional(a.message),
   lt |-> Required(a.lt), time |-> EventTime(a, page), finality |-> page.finality]

\* An action whose transfer is no object has none of its fields.
Emptied(a) ==
  IF a.transfer THEN a
  ELSE [a EXCEPT !.source = NotText, !.destination = NotText, !.master = NotText,
                 !.amount = NotText]

\* normalizeTransferHistory, when the page has a list of actions.
CompleteAt(page) ==
  {i \in DOMAIN page.actions : IsTransfer(page.actions[i]) /\ Complete(page.actions[i])}
HandedOn(page) == Selected(page.actions, CompleteAt(page))

Skipped(page) ==
  Cardinality({i \in DOMAIN page.actions :
                 \/ ~page.actions[i].object
                 \/ IsTransfer(page.actions[i]) /\ ~Complete(page.actions[i])})

History(page) ==
  IF ~page.list THEN [throws |-> FALSE, events |-> <<>>, skipped |-> 1]
  ELSE [throws |-> Throws(page.timestamp)
                     \/ \E i \in DOMAIN HandedOn(page) : Throws(HandedOn(page)[i].utime),
        events |-> [i \in DOMAIN HandedOn(page) |-> Payload(HandedOn(page)[i], page)],
        skipped |-> Skipped(page)]

\* extractNextCursor
Cursor(next) ==
  IF next.kind = "integer" /\ next.value > 0 THEN next.value
  ELSE IF next.kind = "text" /\ next.value # "" THEN next.value ELSE NotText

\* extractTonapiRawProviderEvents
TransfersAt(page) == {i \in DOMAIN page.actions : IsTransfer(page.actions[i])}
Extracted(page) ==
  IF ~page.list THEN [throws |-> FALSE, events |-> <<>>]
  ELSE LET transfers == Selected(page.actions, TransfersAt(page))
       IN [throws |-> \E i \in DOMAIN transfers : Throws(EventTime(transfers[i], page)),
           events |-> [i \in DOMAIN transfers |-> Payload(Emptied(transfers[i]), page)]]

\* normalizeBulkProfiles: of the accounts asked for, those without a profile.
FailedAddresses(asked, accounts) ==
  SelectSeq(asked, LAMBDA id :
    ~\E i \in DOMAIN accounts : accounts[i].object /\ IsPresent(id) /\ accounts[i].address = id)

-----------------------------------------------------------------------------
(* The filter and the identity *)

IsBlank(t) == t = NotText \/ Trim[t] = ""

\* deriveCanonicalKey, an injective reading of an address.
CanonicalKey(t) == IF IsBlank(t) THEN NotAddress ELSE RawAddress[t]

\* extractSource
BadSource(t) == ~IsBlank(t) /\ CanonicalKey(t) = NotAddress

FilterRefusal(p, configuredMaster) ==
  FirstRefusal(<<
    <<CanonicalKey(p.master) = NotAddress, "INVALID_ADDRESS">>,
    <<CanonicalKey(p.master) # configuredMaster, "MASTER_MISMATCH">>,
    <<IsBlank(p.destination), "MISSING_DESTINATION">>,
    <<CanonicalKey(p.destination) = NotAddress, "INVALID_ADDRESS">>,
    <<BadSource(p.source), "INVALID_ADDRESS">>,
    <<IsBlank(p.hash), "MISSING_TX_HASH">>,
    <<IsBlank(p.lt) \/ Decimal[Trim[p.lt]] = NotDecimal, "MISSING_LT">>,
    <<Decimal[Trim[p.amount]] = NotDecimal, "AMOUNT_NON_INTEGER">>,
    <<Decimal[Trim[p.amount]] = 0, "AMOUNT_NON_POSITIVE">>,
    <<p.finality \notin {"confirmed", "finalized"}, "FINALITY_INVALID">> >>)

TrimmedOr(t, sentinel) == IF IsBlank(t) THEN sentinel ELSE Trim[t]

\* Mutant: the amount goes into the identity as it is spelled.
IdentityAsSpelled(p) ==
  <<TrimmedOr(p.trace, "notrace"), Trim[p.hash], Trim[p.lt], p.index,
    TrimmedOr(p.message, "nomsg"), CanonicalKey(p.master), CanonicalKey(p.destination),
    Trim[p.amount]>>

\* buildCandidateKeyString of the normalized event: addresses by their key, the amount
\* by its number, every other text trimmed.  Source, time and finality are not in it.
Identity(p) ==
  <<TrimmedOr(p.trace, "notrace"), Trim[p.hash], Trim[p.lt], p.index,
    TrimmedOr(p.message, "nomsg"), CanonicalKey(p.master), CanonicalKey(p.destination),
    Decimal[Trim[p.amount]]>>

\* deriveProfileStatus: advisory only.
ProfileStatus(advisory) ==
  IF \E f \in DOMAIN advisory : advisory[f] # NotText THEN "partial" ELSE "unresolved"
=============================================================================
