------------------------------- MODULE Ledger -------------------------------
(***************************************************************************)
(* The durable record of CareerSignal: the tables data/repository.py owns  *)
(* and the write transactions that change them.  Every action below is one *)
(* BEGIN IMMEDIATE ... COMMIT of the repository, so it is atomic here; what*)
(* callers do between transactions is the business of the modules that     *)
(* extend this one.                                                        *)
(*                                                                         *)
(* Data are abstracted to what the record compares.  A review id is the    *)
(* fingerprint of (content, id of the review it supersedes), so the reviews*)
(* of a job form one chain, and the n-th review of job j is <<j, n>>.  A   *)
(* Content stands for everything a review is computed from, its draft      *)
(* wording included; a Sender for the pair (sender, subject) that the      *)
(* addressing digest covers; a Mailbox for (provider, namespace).          *)
(***************************************************************************)
EXTENDS Integers, Sequences, FiniteSets

CONSTANTS
  Job,          \* opportunity keys
  MessageId,    \* keys of messages that may arrive
  Content,      \* what a message can say about a job
  Advancing,    \* the contents whose review advances (eligible, above threshold)
  Sender,       \* whom a draft can be addressed to
  Mailbox,      \* outward destinations
  Receipt,      \* provider receipts
  Status,       \* recruiting.status.STATUSES
  Terminal,     \* recruiting.status.TERMINAL
  Initial,      \* recruiting.status.INITIAL
  MaxRevision,  \* bound: reviews of one job
  MaxEvent,     \* bound: status events in the whole record
  MaxAudit,     \* bound, per audit event: rows of one review
  None          \* SQL NULL, or the empty text where the code compares it as absent

ASSUME LedgerAssumption ==
  /\ IsFiniteSet(Job)
  /\ Advancing \subseteq Content
  /\ Terminal \subseteq Status
  /\ Initial \in Status \ Terminal
  /\ MaxRevision \in Nat /\ MaxEvent \in Nat
  /\ None \notin Content \cup Sender \cup Mailbox \cup Receipt \cup MessageId

VARIABLES
  messages,   \* messages and message_sources: stored id -> what it carried
  content,    \* reviews and opportunities.current_review: job -> its chain
  sources,    \* provenance JOIN message_sources: review -> ids, oldest first
  provenance, \* provenance without the join: job -> the message of its newest row
  history,    \* opportunity_status_history: job -> its events, oldest first
  lastEvent,  \* the newest rowid of that table, over all jobs
  decision,   \* decisions: review -> row
  intent,     \* draft_intents: review -> row
  audit       \* audit: review -> event -> number of rows

ledgerVars ==
  <<messages, content, sources, provenance, history, lastEvent, decision, intent, audit>>

Review == Job \X (1..MaxRevision)

\* What a message carries: at most one content per job, and a sender unless it came in
\* through the structured JSON intake, which stores no message_sources row.
Payload == [jobs : [Job -> Content \cup {None}], sender : Sender \cup {None}]

Event == [id : Nat \ {0}, status : Status]

AuditEvent ==
  {"review_created", "approved", "rejected", "draft_intent", "draft_confirmed",
   "draft_uncertain", "draft_rejected", "draft_refused"}

NoDecision ==
  [verdict |-> "none", content |-> None, to |-> None, event |-> 0, mailbox |-> None]

Decision ==
  [verdict : {"none", "approved", "rejected"}, content : Content \cup {None},
   to : Sender \cup {None}, event : Nat, mailbox : Mailbox \cup {None}]

NoIntent ==
  [state |-> "none", receipt |-> None, event |-> 0, source |-> None, mailbox |-> None]

Intent ==
  [state : {"none", "attempting", "uncertain", "confirmed"},
   receipt : Receipt \cup {None}, event : Nat, source : MessageId \cup {None},
   mailbox : Mailbox \cup {None}]

-----------------------------------------------------------------------------
(* What the transactions read. *)

\* opportunities.current_review names r.
Current(r) == r[2] = Len(content[r[1]])

ContentOf(r) == content[r[1]][r[2]]

\* The newest sourced message of a review, which is the one that addresses its draft.
SourceOf(r) == IF sources[r] = <<>> THEN None ELSE sources[r][Len(sources[r])]

AddressOf(m) == IF m = None THEN None ELSE messages[m].sender

Addressing(r) == AddressOf(SourceOf(r))

\* The latest event of a job; rowid 0 names no event.
LatestEvent(j) ==
  IF history[j] = <<>> THEN [id |-> 0, status |-> Initial]
                       ELSE history[j][Len(history[j])]

\* The four facts an approval binds; the wording is part of the content.
Facts(r) ==
  [content |-> ContentOf(r), to |-> Addressing(r), event |-> LatestEvent(r[1]).id]

Ended(j) == LatestEvent(j).status \in Terminal

\* Append one audit row for r.  audit is append-only, so a count loses only the order.
Log(r, e) ==
  /\ audit[r][e] < MaxAudit[e]
  /\ audit' = [audit EXCEPT ![r][e] = @ + 1]

-----------------------------------------------------------------------------
(* Intake. *)

Named(p) == {j \in Job : p.jobs[j] # None}

\* The jobs of p whose current review says something else: they get a new review.
Revised(p) ==
  {j \in Named(p) : content[j] = <<>> \/ content[j][Len(content[j])] # p.jobs[j]}

\* The jobs of p the record has never seen: they get an opening event.
Opened(p) == {j \in Named(p) : history[j] = <<>>}

\* The number of j's current review once p is stored.
NewestAfter(j, p) == Len(content[j]) + (IF j \in Revised(p) THEN 1 ELSE 0)

\* The opening events of one message take the next rowids, in the order it lists its jobs.
OpeningIds(p) ==
  {f \in [Opened(p) -> (lastEvent + 1)..(lastEvent + Cardinality(Opened(p)))] :
     \A j, k \in Opened(p) : f[j] = f[k] => j = k}

\* Mutant: a message without a message_sources row is joined too.
SourcesUnjoined(m, p) ==
  [r \in Review |-> IF r[1] \in Named(p) /\ r[2] = NewestAfter(r[1], p)
                      THEN Append(sources[r], m) ELSE sources[r]]

\* A message with a message_sources row becomes the newest source of every review it names.
SourcesAfter(m, p) ==
  [r \in Review |->
     IF p.sender # None /\ r[1] \in Named(p) /\ r[2] = NewestAfter(r[1], p)
       THEN Append(sources[r], m) ELSE sources[r]]

\* A message is stored once.  The same id again is a replay that answers from provenance,
\* or a ValueError if its digest differs; neither changes the record.
Ingest(m, p) ==
  /\ m \notin DOMAIN messages
  /\ \A j \in Revised(p) : Len(content[j]) < MaxRevision
  /\ lastEvent + Cardinality(Opened(p)) <= MaxEvent
  /\ messages' = [x \in DOMAIN messages \cup {m} |-> IF x = m THEN p ELSE messages[x]]
  /\ content' = [j \in Job |-> IF j \in Revised(p) THEN Append(content[j], p.jobs[j])
                                                   ELSE content[j]]
  /\ \E id \in OpeningIds(p) :
       history' = [j \in Job |-> IF j \in Opened(p)
                                   THEN <<[id |-> id[j], status |-> Initial]>>
                                   ELSE history[j]]
  /\ lastEvent' = lastEvent + Cardinality(Opened(p))
  /\ sources' = SourcesAfter(m, p)
  /\ provenance' = [j \in Job |-> IF j \in Named(p) THEN m ELSE provenance[j]]
  /\ audit' = [r \in Review |->
       IF r[1] \in Revised(p) /\ r[2] = NewestAfter(r[1], p)
         THEN [audit[r] EXCEPT !["review_created"] = @ + 1] ELSE audit[r]]
  /\ UNCHANGED <<decision, intent>>

-----------------------------------------------------------------------------
(* The operator's writes. *)

\* Compare-and-append: `expected` is the event id the operator read, None for a caller
\* that read nothing.  A StatusConflict writes nothing.
RecordStatus(j, s, expected) ==
  /\ content[j] # <<>>
  /\ expected \in {None, LatestEvent(j).id}
  /\ lastEvent < MaxEvent
  /\ history' = [history EXCEPT ![j] = Append(@, [id |-> lastEvent + 1, status |-> s])]
  /\ lastEvent' = lastEvent + 1
  /\ UNCHANGED <<messages, content, sources, provenance, decision, intent, audit>>

\* Mutant: decide() without the lock that a draft intent puts on the decision.
DecideUnlocked(r, approved, mailbox, expected) ==
  /\ Current(r)
  /\ approved => ContentOf(r) \in Advancing
  /\ expected \in {None, Facts(r)}
  /\ approved => ~Ended(r[1])
  /\ decision' = [decision EXCEPT ![r] =
       [verdict |-> IF approved THEN "approved" ELSE "rejected",
        content |-> Facts(r).content, to |-> Facts(r).to, event |-> Facts(r).event,
        mailbox |-> mailbox]]
  /\ Log(r, IF approved THEN "approved" ELSE "rejected")
  /\ UNCHANGED <<messages, content, sources, provenance, history, lastEvent, intent>>

\* An approval or a rejection.  `expected` is the facts of the packet the operator acted
\* on, or None for a trusted caller; a BindingConflict writes nothing.
Decide(r, approved, mailbox, expected) ==
  /\ Current(r)
  /\ approved => ContentOf(r) \in Advancing
  /\ expected \in {None, Facts(r)}
  /\ approved => ~Ended(r[1])
  /\ intent[r] = NoIntent
  /\ decision' = [decision EXCEPT ![r] =
       [verdict |-> IF approved THEN "approved" ELSE "rejected",
        content |-> Facts(r).content, to |-> Facts(r).to, event |-> Facts(r).event,
        mailbox |-> mailbox]]
  /\ Log(r, IF approved THEN "approved" ELSE "rejected")
  /\ UNCHANGED <<messages, content, sources, provenance, history, lastEvent, intent>>

-----------------------------------------------------------------------------
(* The draft intent: reserve, settle, release. *)

Approved(r) == decision[r].verdict = "approved"

\* Mutant: the recipient is not verified again.
AuthorizedUnaddressed(r, mailbox) ==
  /\ Current(r)
  /\ Approved(r)
  /\ decision[r].content = ContentOf(r)
  /\ ~Ended(r[1])
  /\ decision[r].mailbox = mailbox

\* Everything claim() re-checks inside the transaction that reserves the write.
Authorized(r, mailbox) ==
  /\ Current(r)
  /\ Approved(r)
  /\ decision[r].content = ContentOf(r)
  /\ ~Ended(r[1])
  /\ decision[r].to = Addressing(r)
  /\ decision[r].mailbox = mailbox

Claim(r, mailbox) ==
  /\ Authorized(r, mailbox)
  /\ intent[r] = NoIntent
  /\ intent' = [intent EXCEPT ![r] =
       [state |-> "attempting", receipt |-> None, event |-> LatestEvent(r[1]).id,
        source |-> SourceOf(r), mailbox |-> mailbox]]
  /\ Log(r, "draft_intent")
  /\ UNCHANGED <<messages, content, sources, provenance, history, lastEvent, decision>>

\* finish() raises: no row, a confirmed row with another receipt, or a receipt that the
\* UNIQUE column already holds for another review.
FinishRaises(r, receipt) ==
  \/ intent[r] = NoIntent
  \/ intent[r].state = "confirmed" /\ receipt \notin {None, intent[r].receipt}
  \/ receipt # None /\ \E q \in Review \ {r} : intent[q].receipt = receipt

\* Mutant: finish() lets a late unknown outcome overwrite a receipt.
FinishOverwrites(r, receipt) ==
  /\ ~FinishRaises(r, receipt)
  /\ intent' = [intent EXCEPT ![r].state = IF receipt = None THEN "uncertain" ELSE "confirmed",
                              ![r].receipt = receipt]
  /\ Log(r, IF receipt = None THEN "draft_uncertain" ELSE "draft_confirmed")
  /\ UNCHANGED <<messages, content, sources, provenance, history, lastEvent, decision>>

\* Record what an attempt came to; a confirmed row is never moved again.
Finish(r, receipt) ==
  /\ ~FinishRaises(r, receipt)
  /\ IF intent[r].state = "confirmed"
       THEN UNCHANGED <<intent, audit>>
       ELSE LET state == IF receipt = None THEN "uncertain" ELSE "confirmed" IN
              /\ intent' = [intent EXCEPT ![r].state = state, ![r].receipt = receipt]
              /\ Log(r, IF receipt = None THEN "draft_uncertain" ELSE "draft_confirmed")
  /\ UNCHANGED <<messages, content, sources, provenance, history, lastEvent, decision>>

\* Mutant: reject() deletes the row whatever its state.
RejectUnchecked(r) ==
  /\ intent[r] # NoIntent
  /\ intent' = [intent EXCEPT ![r] = NoIntent]
  /\ Log(r, "draft_rejected")
  /\ UNCHANGED <<messages, content, sources, provenance, history, lastEvent, decision>>

\* Release a reservation the provider proved came to nothing.
Reject(r) ==
  /\ intent[r].state = "attempting"
  /\ intent' = [intent EXCEPT ![r] = NoIntent]
  /\ Log(r, "draft_rejected")
  /\ UNCHANGED <<messages, content, sources, provenance, history, lastEvent, decision>>

\* Record a refusal, unless an attempt became authoritative first.
Refuse(r) ==
  /\ intent[r] = NoIntent
  /\ Log(r, "draft_refused")
  /\ UNCHANGED <<messages, content, sources, provenance, history, lastEvent>>
  /\ UNCHANGED <<decision, intent>>

-----------------------------------------------------------------------------
(* The record by itself: any caller, any order. *)

LedgerInit ==
  /\ messages = << >>
  /\ content = [j \in Job |-> <<>>]
  /\ sources = [r \in Review |-> <<>>]
  /\ provenance = [j \in Job |-> None]
  /\ history = [j \in Job |-> <<>>]
  /\ lastEvent = 0
  /\ decision = [r \in Review |-> NoDecision]
  /\ intent = [r \in Review |-> NoIntent]
  /\ audit = [r \in Review |-> [e \in AuditEvent |-> 0]]

LedgerNext ==
  \/ \E m \in MessageId, p \in Payload : Ingest(m, p)
  \/ \E j \in Job, s \in Status, e \in {None} \cup 1..MaxEvent : RecordStatus(j, s, e)
  \/ \E r \in Review, approved \in BOOLEAN, mailbox \in Mailbox :
       Decide(r, approved, mailbox, None)
  \/ \E r \in Review, mailbox \in Mailbox : Claim(r, mailbox)
  \/ \E r \in Review, receipt \in Receipt \cup {None} : Finish(r, receipt)
  \/ \E r \in Review : Reject(r)
  \/ \E r \in Review : Refuse(r)

LedgerSpec == LedgerInit /\ [][LedgerNext]_ledgerVars

-----------------------------------------------------------------------------
(* What the record promises, whoever calls it. *)

\* Every row has its type, and the foreign keys hold: a source is a stored message that
\* has a sender, and a job has a status history, and a provenance row, exactly when it has a
\* review.
LedgerTypeOK ==
  /\ DOMAIN messages \subseteq MessageId
  /\ messages \in [DOMAIN messages -> Payload]
  /\ content \in [Job -> Seq(Content)]
  /\ sources \in [Review -> Seq(MessageId)]
  /\ \A r \in Review : \A k \in 1..Len(sources[r]) :
       sources[r][k] \in {m \in DOMAIN messages : messages[m].sender # None}
  /\ provenance \in [Job -> DOMAIN messages \cup {None}]
  /\ \A j \in Job : provenance[j] = None <=> content[j] = <<>>
  /\ history \in [Job -> Seq(Event)]
  /\ \A j \in Job : history[j] = <<>> <=> content[j] = <<>>
  /\ lastEvent \in Nat
  /\ decision \in [Review -> Decision]
  /\ intent \in [Review -> Intent]
  /\ audit \in [Review -> [AuditEvent -> Nat]]

\* Whatever happens after a reservation (newer reviews, newer senders, status events,
\* other decisions), the standing decision is still the approval the reservation was made
\* under: same mailbox, the content of that very review, the sender of the message the row
\* names, and a status read no later than the one the reservation observed.  It needs
\* decide()'s lock and claim()'s re-checks together.
AttemptIsApproved ==
  \A r \in Review : intent[r] # NoIntent =>
    /\ Approved(r)
    /\ decision[r].mailbox = intent[r].mailbox
    /\ decision[r].content = ContentOf(r)
    /\ decision[r].to = AddressOf(intent[r].source)
    /\ decision[r].event <= intent[r].event

\* The audit table alone tells what became of every reservation: those not released are
\* exactly the standing row, one confirmation was logged if that row is confirmed, and a
\* draft_intents row is never deleted once the provider may have acted on it.
AttemptAudited ==
  \A r \in Review :
    /\ audit[r]["draft_intent"] =
         audit[r]["draft_rejected"] + (IF intent[r] = NoIntent THEN 0 ELSE 1)
    /\ audit[r]["draft_confirmed"] = (IF intent[r].state = "confirmed" THEN 1 ELSE 0)
    /\ audit[r]["draft_uncertain"] > 0 => intent[r].state \in {"uncertain", "confirmed"}

\* A confirmed row is final: no transaction, in any order, changes it or its receipt.
ReceiptFinal ==
  [][\A r \in Review : intent[r].state = "confirmed" => intent'[r] = intent[r]]_ledgerVars
=============================================================================
