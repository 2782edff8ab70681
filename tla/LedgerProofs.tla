---------------------------- MODULE LedgerProofs ----------------------------
(***************************************************************************)
(* Proofs about the record, for every set of jobs, messages, reviews and   *)
(* callers.                                                                *)
(***************************************************************************)
EXTENDS Ledger, FiniteSetTheorems, TLAPS

USE LedgerAssumption

\* The jobs a message opens are finitely many.
LEMMA OpenedCount ==
  ASSUME NEW p
  PROVE  Cardinality(Opened(p)) \in Nat
<1>1. Opened(p) \subseteq Job
  BY DEF Opened, Named
<1>2. IsFiniteSet(Opened(p))
  BY <1>1, FS_Subset DEF LedgerAssumption
<1> QED
  BY <1>2, FS_CardinalityType

\* The last element of a nonempty sequence.
LEMMA LastElement ==
  ASSUME NEW S, NEW s \in Seq(S), s # <<>>
  PROVE  Len(s) \in 1..Len(s) /\ s[Len(s)] \in S
  OBVIOUS

\* What the transactions read has the type they store.
LEMMA ReadTypes ==
  ASSUME LedgerTypeOK, NEW r \in Review
  PROVE  /\ r[1] \in Job
         /\ SourceOf(r) \in DOMAIN messages \cup {None}
         /\ Addressing(r) \in Sender \cup {None}
         /\ LatestEvent(r[1]) \in [id : Nat, status : Status]
         /\ Current(r) => ContentOf(r) \in Content
<1>1. r[1] \in Job /\ r[2] \in 1..MaxRevision
  BY DEF Review
<1>2. SourceOf(r) \in {m \in DOMAIN messages : messages[m].sender # None} \cup {None}
  <2>1. CASE sources[r] = <<>>
    BY <2>1 DEF SourceOf
  <2>2. CASE sources[r] # <<>>
    <3>1. sources[r] \in Seq(MessageId)
      BY DEF LedgerTypeOK
    <3>2. Len(sources[r]) \in 1..Len(sources[r])
      BY <2>2, <3>1, LastElement
    <3> QED
      BY <2>2, <3>2 DEF LedgerTypeOK, SourceOf
  <2> QED
    BY <2>1, <2>2
<1>3. \A m \in DOMAIN messages : messages[m].sender \in Sender \cup {None}
  BY DEF LedgerTypeOK, Payload
<1>4. Addressing(r) \in Sender \cup {None}
  BY <1>2, <1>3 DEF Addressing, AddressOf
<1>5. LatestEvent(r[1]) \in [id : Nat, status : Status]
  <2>1. CASE history[r[1]] = <<>>
    BY <2>1 DEF LatestEvent, LedgerAssumption
  <2>2. CASE history[r[1]] # <<>>
    <3>1. history[r[1]] \in Seq(Event)
      BY <1>1 DEF LedgerTypeOK
    <3>2. history[r[1]][Len(history[r[1]])] \in Event
      BY <2>2, <3>1, LastElement
    <3> QED
      BY <2>2, <3>2 DEF LatestEvent, Event
  <2> QED
    BY <2>1, <2>2
<1>6. Current(r) => ContentOf(r) \in Content
  BY <1>1 DEF LedgerTypeOK, Current, ContentOf
<1> QED
  BY <1>1, <1>2, <1>4, <1>5, <1>6

LEMMA LogType ==
  ASSUME LedgerTypeOK, NEW r \in Review, NEW e \in AuditEvent, Log(r, e)
  PROVE  audit' \in [Review -> [AuditEvent -> Nat]]
  BY DEF Log, LedgerTypeOK

-----------------------------------------------------------------------------
(* Types. *)

\* A stored message is never replaced by another.
LEMMA IngestKeeps ==
  ASSUME LedgerTypeOK, NEW m \in MessageId, NEW p \in Payload, Ingest(m, p)
  PROVE  /\ DOMAIN messages' = DOMAIN messages \cup {m}
         /\ m \notin DOMAIN messages
         /\ messages'[m] = p
         /\ \A x \in DOMAIN messages : messages'[x] = messages[x]
  BY DEF Ingest

\* It keeps its sender, so what joined message_sources still does.
LEMMA IngestKeepsJoined ==
  ASSUME LedgerTypeOK, NEW m \in MessageId, NEW p \in Payload, Ingest(m, p)
  PROVE  /\ \A x \in {y \in DOMAIN messages : messages[y].sender # None} :
              x \in {y \in DOMAIN messages' : messages'[y].sender # None}
         /\ p.sender # None => m \in {y \in DOMAIN messages' : messages'[y].sender # None}
<1>1. /\ DOMAIN messages' = DOMAIN messages \cup {m}
      /\ messages'[m] = p
      /\ \A x \in DOMAIN messages : messages'[x] = messages[x]
  BY IngestKeeps
<1> QED
  BY <1>1

LEMMA IngestType ==
  ASSUME LedgerTypeOK, NEW m \in MessageId, NEW p \in Payload, Ingest(m, p)
  PROVE  LedgerTypeOK'
<1>1. DOMAIN messages' \subseteq MessageId /\ messages' \in [DOMAIN messages' -> Payload]
  BY IngestKeeps DEF LedgerTypeOK, Ingest
<1>2. content' \in [Job -> Seq(Content)]
  <2>1. \A j \in Revised(p) : p.jobs[j] \in Content
    BY DEF Revised, Named, Payload
  <2> QED
    BY <2>1 DEF LedgerTypeOK, Ingest
<1>3. sources' \in [Review -> Seq(MessageId)]
  BY DEF LedgerTypeOK, Ingest, SourcesAfter
<1>4. \A r \in Review : \A k \in 1..Len(sources'[r]) :
         sources'[r][k] \in {x \in DOMAIN messages' : messages'[x].sender # None}
  <2> TAKE r \in Review
  <2> TAKE k \in 1..Len(sources'[r])
  <2>1. sources[r] \in Seq(MessageId)
    BY DEF LedgerTypeOK
  <2>2. CASE sources'[r] = sources[r]
    BY <2>2, IngestKeepsJoined DEF LedgerTypeOK
  <2>3. CASE p.sender # None /\ sources'[r] = Append(sources[r], m)
    <3>1. k \in 1..Len(sources[r]) => sources'[r][k] = sources[r][k]
      BY <2>1, <2>3
    <3>2. k \notin 1..Len(sources[r]) => sources'[r][k] = m
      BY <2>1, <2>3
    <3>3. k \in 1..Len(sources[r]) =>
            sources[r][k] \in {x \in DOMAIN messages : messages[x].sender # None}
      BY DEF LedgerTypeOK
    <3>4. CASE k \in 1..Len(sources[r])
      BY <3>1, <3>3, <3>4, IngestKeepsJoined
    <3>5. CASE k \notin 1..Len(sources[r])
      BY <2>3, <3>2, <3>5, IngestKeepsJoined
    <3> QED
      BY <3>4, <3>5
  <2>4. \/ sources'[r] = sources[r]
        \/ p.sender # None /\ sources'[r] = Append(sources[r], m)
    BY DEF Ingest, SourcesAfter
  <2> QED
    BY <2>2, <2>3, <2>4
<1>5. history' \in [Job -> Seq(Event)]
  <2>1. PICK id \in OpeningIds(p) :
          history' = [j \in Job |-> IF j \in Opened(p)
                                      THEN <<[id |-> id[j], status |-> Initial]>>
                                      ELSE history[j]]
    BY DEF Ingest
  <2>2. \A j \in Opened(p) : id[j] \in Nat \ {0}
    BY <2>1, OpenedCount DEF OpeningIds, LedgerTypeOK
  <2>3. \A j \in Opened(p) : [id |-> id[j], status |-> Initial] \in Event
    BY <2>2 DEF Event, LedgerAssumption
  <2> QED
    BY <2>1, <2>3 DEF LedgerTypeOK
<1>6. \A j \in Job : history'[j] = <<>> <=> content'[j] = <<>>
  <2> TAKE j \in Job
  <2>1. CASE j \in Opened(p)
    <3>1. content[j] = <<>> /\ j \in Revised(p)
      BY <2>1 DEF Opened, Named, Revised, LedgerTypeOK
    <3>2. content'[j] = Append(content[j], p.jobs[j])
      BY <3>1 DEF Ingest
    <3>3. history'[j] # <<>>
      BY <2>1 DEF Ingest
    <3> QED
      BY <3>1, <3>2, <3>3 DEF LedgerTypeOK
  <2>2. CASE j \notin Opened(p)
    <3>1. history'[j] = history[j]
      BY <2>2 DEF Ingest
    <3>2. CASE j \in Revised(p)
      <4>1. history[j] # <<>>
        BY <2>2, <3>2 DEF Opened, Revised, Named
      <4>2. content'[j] = Append(content[j], p.jobs[j]) /\ content[j] \in Seq(Content)
        BY <3>2 DEF Ingest, LedgerTypeOK
      <4> QED
        BY <3>1, <4>1, <4>2
    <3>3. CASE j \notin Revised(p)
      BY <3>1, <3>3 DEF Ingest, LedgerTypeOK
    <3> QED
      BY <3>2, <3>3
  <2> QED
    BY <2>1, <2>2
<1>7. lastEvent' \in Nat
  BY OpenedCount DEF Ingest, LedgerTypeOK
<1>8. audit' \in [Review -> [AuditEvent -> Nat]]
  BY DEF Ingest, LedgerTypeOK, AuditEvent
<1>9. provenance' \in [Job -> DOMAIN messages' \cup {None}]
  BY IngestKeeps DEF Ingest, LedgerTypeOK
<1>10. \A j \in Job : provenance'[j] = None <=> content'[j] = <<>>
  <2> TAKE j \in Job
  <2>1. content[j] \in Seq(Content) /\ m # None
    BY DEF LedgerTypeOK, LedgerAssumption
  <2>2. CASE j \in Named(p)
    <3>1. provenance'[j] = m
      BY <2>2 DEF Ingest
    <3>2. CASE j \in Revised(p)
      <4>1. content'[j] = Append(content[j], p.jobs[j])
        BY <3>2 DEF Ingest
      <4> QED
        BY <2>1, <3>1, <4>1
    <3>3. CASE j \notin Revised(p)
      BY <2>1, <2>2, <3>1, <3>3 DEF Ingest, Revised
    <3> QED
      BY <3>2, <3>3
  <2>3. CASE j \notin Named(p)
    BY <2>3 DEF Ingest, Revised, LedgerTypeOK
  <2> QED
    BY <2>2, <2>3
<1> QED
  BY <1>1, <1>2, <1>3, <1>4, <1>5, <1>6, <1>7, <1>8, <1>9, <1>10 DEF LedgerTypeOK, Ingest

LEMMA RecordStatusType ==
  ASSUME LedgerTypeOK, NEW j \in Job, NEW s \in Status, NEW e, RecordStatus(j, s, e)
  PROVE  LedgerTypeOK'
<1>1. [id |-> lastEvent + 1, status |-> s] \in Event
  BY DEF Event, LedgerTypeOK
<1>2. /\ history' = [history EXCEPT ![j] = Append(@, [id |-> lastEvent + 1, status |-> s])]
      /\ content[j] # <<>>
  BY DEF RecordStatus
<1>3. history' \in [Job -> Seq(Event)]
  BY <1>1, <1>2 DEF LedgerTypeOK
<1>4. history'[j] # <<>>
  BY <1>2 DEF LedgerTypeOK
<1>5. \A k \in Job : history'[k] = <<>> <=> content[k] = <<>>
  BY <1>2, <1>4 DEF LedgerTypeOK
<1> QED
  BY <1>3, <1>5 DEF RecordStatus, LedgerTypeOK

LEMMA DecideType ==
  ASSUME LedgerTypeOK, NEW r \in Review, NEW approved \in BOOLEAN, NEW mailbox \in Mailbox,
         NEW e, Decide(r, approved, mailbox, e)
  PROVE  LedgerTypeOK'
<1>1. Facts(r).content \in Content /\ Facts(r).to \in Sender \cup {None} /\ Facts(r).event \in Nat
  BY ReadTypes DEF Facts, Decide
<1>2. [verdict |-> IF approved THEN "approved" ELSE "rejected",
       content |-> Facts(r).content, to |-> Facts(r).to, event |-> Facts(r).event,
       mailbox |-> mailbox] \in Decision
  BY <1>1 DEF Decision
<1>3. decision' \in [Review -> Decision]
  BY <1>2 DEF Decide, LedgerTypeOK
<1>4. audit' \in [Review -> [AuditEvent -> Nat]]
  BY LogType DEF Decide, AuditEvent
<1> QED
  BY <1>3, <1>4 DEF Decide, LedgerTypeOK

LEMMA ClaimType ==
  ASSUME LedgerTypeOK, NEW r \in Review, NEW mailbox \in Mailbox, Claim(r, mailbox)
  PROVE  LedgerTypeOK'
<1>1. LatestEvent(r[1]).id \in Nat /\ SourceOf(r) \in MessageId \cup {None}
  BY ReadTypes DEF LedgerTypeOK
<1>2. [state |-> "attempting", receipt |-> None, event |-> LatestEvent(r[1]).id,
       source |-> SourceOf(r), mailbox |-> mailbox] \in Intent
  BY <1>1 DEF Intent
<1>3. intent' \in [Review -> Intent]
  BY <1>2 DEF Claim, LedgerTypeOK
<1>4. audit' \in [Review -> [AuditEvent -> Nat]]
  BY LogType DEF Claim, AuditEvent
<1> QED
  BY <1>3, <1>4 DEF Claim, LedgerTypeOK

LEMMA FinishType ==
  ASSUME LedgerTypeOK, NEW r \in Review, NEW receipt \in Receipt \cup {None},
         Finish(r, receipt)
  PROVE  LedgerTypeOK'
<1>1. CASE UNCHANGED <<intent, audit>>
  BY <1>1 DEF Finish, LedgerTypeOK
<1>2. CASE intent[r].state # "confirmed"
  <2> DEFINE state == IF receipt = None THEN "uncertain" ELSE "confirmed"
  <2>1. intent' \in [Review -> Intent]
    <3>1. intent[r] \in Intent
      BY DEF LedgerTypeOK
    <3>2. intent' = [intent EXCEPT ![r] = [@ EXCEPT !.state = state, !.receipt = receipt]]
      BY <1>2, <3>1 DEF Finish, LedgerTypeOK
    <3>3. [intent[r] EXCEPT !.state = state, !.receipt = receipt] \in Intent
      BY <3>1 DEF Intent
    <3> QED
      BY <3>2, <3>3 DEF LedgerTypeOK
  <2>2. audit' \in [Review -> [AuditEvent -> Nat]]
    BY <1>2, LogType DEF Finish, AuditEvent
  <2> QED
    BY <2>1, <2>2 DEF Finish, LedgerTypeOK
<1> QED
  BY <1>1, <1>2 DEF Finish

LEMMA RejectType ==
  ASSUME LedgerTypeOK, NEW r \in Review, Reject(r)
  PROVE  LedgerTypeOK'
<1>1. audit' \in [Review -> [AuditEvent -> Nat]]
  BY LogType DEF Reject, AuditEvent
<1> QED
  BY <1>1 DEF Reject, LedgerTypeOK, NoIntent, Intent

LEMMA RefuseType ==
  ASSUME LedgerTypeOK, NEW r \in Review, Refuse(r)
  PROVE  LedgerTypeOK'
<1>1. audit' \in [Review -> [AuditEvent -> Nat]]
  BY LogType DEF Refuse, AuditEvent
<1> QED
  BY <1>1 DEF Refuse, LedgerTypeOK

LEMMA LedgerTypeInit == LedgerInit => LedgerTypeOK
  BY DEF LedgerInit, LedgerTypeOK, NoDecision, NoIntent, Decision, Intent

LEMMA LedgerTypeStep == LedgerTypeOK /\ [LedgerNext]_ledgerVars => LedgerTypeOK'
<1> SUFFICES ASSUME LedgerTypeOK, [LedgerNext]_ledgerVars
             PROVE  LedgerTypeOK'
  OBVIOUS
<1>1. CASE UNCHANGED ledgerVars
  BY <1>1 DEF ledgerVars, LedgerTypeOK
<1>2. ASSUME NEW m \in MessageId, NEW p \in Payload, Ingest(m, p)
      PROVE  LedgerTypeOK'
  BY <1>2, IngestType
<1>3. ASSUME NEW j \in Job, NEW s \in Status, NEW e, RecordStatus(j, s, e)
      PROVE  LedgerTypeOK'
  BY <1>3, RecordStatusType
<1>4. ASSUME NEW r \in Review, NEW approved \in BOOLEAN, NEW mailbox \in Mailbox,
             Decide(r, approved, mailbox, None)
      PROVE  LedgerTypeOK'
  BY <1>4, DecideType
<1>5. ASSUME NEW r \in Review, NEW mailbox \in Mailbox, Claim(r, mailbox)
      PROVE  LedgerTypeOK'
  BY <1>5, ClaimType
<1>6. ASSUME NEW r \in Review, NEW receipt \in Receipt \cup {None}, Finish(r, receipt)
      PROVE  LedgerTypeOK'
  BY <1>6, FinishType
<1>7. ASSUME NEW r \in Review, Reject(r) \/ Refuse(r)
      PROVE  LedgerTypeOK'
  BY <1>7, RejectType, RefuseType
<1> QED
  BY <1>1, <1>2, <1>3, <1>4, <1>5, <1>6, <1>7 DEF LedgerNext

\* Every reachable record is well typed and its foreign keys hold, for every set of jobs,
\* messages, senders and mailboxes (the writes of data/repository.py).
THEOREM LedgerTypeCorrect == LedgerSpec => []LedgerTypeOK
  BY LedgerTypeInit, LedgerTypeStep, PTL DEF LedgerSpec

-----------------------------------------------------------------------------
(* The standing approval behind every attempt. *)

\* A row names a review the job still has, and a source the record still holds.
RowGrounded ==
  \A r \in Review : intent[r] # NoIntent =>
    /\ r[2] \in 1..Len(content[r[1]])
    /\ intent[r].source \in DOMAIN messages \cup {None}

\* No decision observed a status event of its job that is yet to come, and no job has an
\* event above the newest rowid.
EventsGrow ==
  /\ \A r \in Review : decision[r].event <= LatestEvent(r[1]).id
  /\ \A j \in Job : LatestEvent(j).id <= lastEvent

ApprovedInv == LedgerTypeOK /\ RowGrounded /\ EventsGrow /\ AttemptIsApproved

LEMMA LatestEventType ==
  ASSUME LedgerTypeOK, NEW j \in Job
  PROVE  LatestEvent(j).id \in Nat
<1>1. CASE history[j] = <<>>
  BY <1>1 DEF LatestEvent
<1>2. CASE history[j] # <<>>
  <2>1. history[j] \in Seq(Event)
    BY DEF LedgerTypeOK
  <2>2. history[j][Len(history[j])] \in Event
    BY <1>2, <2>1, LastElement
  <2> QED
    BY <1>2, <2>2 DEF LatestEvent, Event
<1> QED
  BY <1>1, <1>2

LatestEventsTyped == \A j \in Job : LatestEvent(j).id \in Nat

LEMMA LatestEventTypes == LedgerTypeOK => LatestEventsTyped
  BY LatestEventType DEF LatestEventsTyped

\* Status events only move forward.
LEMMA LatestEventGrows ==
  ASSUME LedgerTypeOK, EventsGrow, [LedgerNext]_ledgerVars
  PROVE  /\ \A j \in Job : LatestEvent(j).id <= LatestEvent(j)'.id
         /\ \A j \in Job : LatestEvent(j)'.id <= lastEvent'
<1>1. CASE history' = history /\ lastEvent' = lastEvent
  BY <1>1, LatestEventType DEF EventsGrow, LatestEvent
<1>2. ASSUME NEW m \in MessageId, NEW p \in Payload, Ingest(m, p)
      PROVE  \A j \in Job : /\ LatestEvent(j).id <= LatestEvent(j)'.id
                            /\ LatestEvent(j)'.id <= lastEvent'
  <2>1. PICK id \in OpeningIds(p) :
          history' = [j \in Job |-> IF j \in Opened(p)
                                      THEN <<[id |-> id[j], status |-> Initial]>>
                                      ELSE history[j]]
    BY <1>2 DEF Ingest
  <2>2. lastEvent' = lastEvent + Cardinality(Opened(p))
    BY <1>2 DEF Ingest
  <2>3. lastEvent \in Nat /\ Cardinality(Opened(p)) \in Nat
    BY OpenedCount DEF LedgerTypeOK
  <2> TAKE j \in Job
  <2>4. CASE j \in Opened(p)
    <3>1. history[j] = <<>> /\ LatestEvent(j).id = 0
      BY <2>4 DEF Opened, LatestEvent
    <3>2. history'[j] = <<[id |-> id[j], status |-> Initial]>>
      BY <2>1, <2>4
    <3>3. LatestEvent(j)'.id = id[j]
      BY <3>2 DEF LatestEvent
    <3>4. id[j] \in (lastEvent + 1)..(lastEvent + Cardinality(Opened(p)))
      BY <2>1, <2>4 DEF OpeningIds
    <3> QED
      BY <2>2, <2>3, <3>1, <3>3, <3>4
  <2>5. CASE j \notin Opened(p)
    <3>1. history'[j] = history[j]
      BY <2>1, <2>5
    <3>2. LatestEvent(j)' = LatestEvent(j)
      BY <3>1 DEF LatestEvent
    <3>3. LatestEvent(j).id \in Nat /\ LatestEvent(j).id <= lastEvent
      BY LatestEventType DEF EventsGrow
    <3> QED
      BY <2>2, <2>3, <3>2, <3>3
  <2> QED
    BY <2>4, <2>5
<1>3. ASSUME NEW k \in Job, NEW s \in Status, NEW e, RecordStatus(k, s, e)
      PROVE  \A j \in Job : /\ LatestEvent(j).id <= LatestEvent(j)'.id
                            /\ LatestEvent(j)'.id <= lastEvent'
  <2> DEFINE new == [id |-> lastEvent + 1, status |-> s]
  <2>1. history' = [history EXCEPT ![k] = Append(@, new)] /\ lastEvent' = lastEvent + 1
    BY <1>3 DEF RecordStatus
  <2>2. lastEvent \in Nat /\ history \in [Job -> Seq(Event)]
    BY DEF LedgerTypeOK
  <2> TAKE j \in Job
  <2>3. LatestEvent(j).id \in Nat /\ LatestEvent(j).id <= lastEvent
    BY LatestEventType DEF EventsGrow
  <2>4. CASE j = k
    <3>1. history'[j] = Append(history[j], new) /\ history[j] \in Seq(Event)
      BY <2>1, <2>2, <2>4
    <3>2. history'[j] # <<>> /\ history'[j][Len(history'[j])] = new
      BY <3>1
    <3>3. LatestEvent(j)'.id = lastEvent + 1
      BY <3>2 DEF LatestEvent
    <3> QED
      BY <2>1, <2>2, <2>3, <3>3
  <2>5. CASE j # k
    <3>1. LatestEvent(j)' = LatestEvent(j)
      BY <2>1, <2>2, <2>5 DEF LatestEvent
    <3> QED
      BY <2>1, <2>2, <2>3, <3>1
  <2> QED
    BY <2>4, <2>5
<1>4. \/ history' = history /\ lastEvent' = lastEvent
      \/ \E m \in MessageId, p \in Payload : Ingest(m, p)
      \/ \E j \in Job, s \in Status, e \in {None} \cup 1..MaxEvent : RecordStatus(j, s, e)
  BY DEF LedgerNext, ledgerVars, Decide, Claim, Finish, Reject, Refuse
<1> QED
  BY <1>1, <1>2, <1>3, <1>4

\* A review the job has keeps its content.
LEMMA ContentKept ==
  ASSUME LedgerTypeOK, [LedgerNext]_ledgerVars,
         NEW r \in Review, r[2] \in 1..Len(content[r[1]])
  PROVE  r[2] \in 1..Len(content'[r[1]]) /\ ContentOf(r)' = ContentOf(r)
<1>1. CASE content' = content
  BY <1>1 DEF ContentOf
<1>2. ASSUME NEW x \in MessageId, NEW p \in Payload, Ingest(x, p)
      PROVE  r[2] \in 1..Len(content'[r[1]]) /\ ContentOf(r)' = ContentOf(r)
  <2>1. r[1] \in Job /\ content[r[1]] \in Seq(Content)
    BY DEF LedgerTypeOK, Review
  <2>2. \/ content'[r[1]] = content[r[1]]
        \/ content'[r[1]] = Append(content[r[1]], p.jobs[r[1]])
    BY <1>2, <2>1 DEF Ingest
  <2>3. CASE content'[r[1]] = content[r[1]]
    BY <2>3 DEF ContentOf
  <2>4. CASE content'[r[1]] = Append(content[r[1]], p.jobs[r[1]])
    BY <2>1, <2>4 DEF ContentOf
  <2> QED
    BY <2>2, <2>3, <2>4
<1>3. content' = content \/ \E m \in MessageId, p \in Payload : Ingest(m, p)
  BY DEF LedgerNext, ledgerVars, RecordStatus, Decide, Claim, Finish, Reject, Refuse
<1> QED
  BY <1>1, <1>2, <1>3

\* A later message, review or status event leaves what a row names as it was.
LEMMA GroundsKept ==
  ASSUME LedgerTypeOK, RowGrounded, [LedgerNext]_ledgerVars,
         NEW r \in Review, intent[r] # NoIntent
  PROVE  /\ r[2] \in 1..Len(content'[r[1]])
         /\ intent[r].source \in DOMAIN messages' \cup {None}
         /\ ContentOf(r)' = ContentOf(r)
         /\ intent[r].source # None =>
                  messages'[intent[r].source] = messages[intent[r].source]
<1>1. r[2] \in 1..Len(content[r[1]]) /\ intent[r].source \in DOMAIN messages \cup {None}
  BY DEF RowGrounded
<1>2. r[2] \in 1..Len(content'[r[1]]) /\ ContentOf(r)' = ContentOf(r)
  BY <1>1, ContentKept
<1>3. ASSUME NEW x \in MessageId, NEW p \in Payload, Ingest(x, p)
      PROVE  /\ DOMAIN messages' = DOMAIN messages \cup {x}
             /\ \A y \in DOMAIN messages : messages'[y] = messages[y]
  BY <1>3, IngestKeeps
<1>4. messages' = messages \/ \E m \in MessageId, p \in Payload : Ingest(m, p)
  BY DEF LedgerNext, ledgerVars, RecordStatus, Decide, Claim, Finish, Reject, Refuse
<1> QED
  BY <1>1, <1>2, <1>3, <1>4

LEMMA ApprovedInit == LedgerInit => ApprovedInv
<1> SUFFICES ASSUME LedgerInit PROVE ApprovedInv
  OBVIOUS
<1>1. LedgerTypeOK
  BY LedgerTypeInit
<1>2. RowGrounded /\ AttemptIsApproved
  BY DEF LedgerInit, RowGrounded, AttemptIsApproved
<1>3. EventsGrow
  BY DEF LedgerInit, EventsGrow, LatestEvent, NoDecision, Review
<1> QED
  BY <1>1, <1>2, <1>3 DEF ApprovedInv

\* What AttemptIsApproved says of one review.
AttemptOK(r) ==
  intent[r] # NoIntent =>
    /\ Approved(r)
    /\ decision[r].mailbox = intent[r].mailbox
    /\ decision[r].content = ContentOf(r)
    /\ decision[r].to = AddressOf(intent[r].source)
    /\ decision[r].event <= intent[r].event

\* A step that leaves the rows of a review alone, or moves only the state and receipt of its
\* standing intent, keeps its approval standing.
LEMMA StandingKept ==
  ASSUME ApprovedInv, [LedgerNext]_ledgerVars, NEW r \in Review,
         decision'[r] = decision[r],
         \/ intent'[r] = NoIntent
         \/ /\ intent[r] # NoIntent
            /\ intent'[r].mailbox = intent[r].mailbox
            /\ intent'[r].source = intent[r].source
            /\ intent'[r].event = intent[r].event
  PROVE  /\ AttemptOK(r)'
         /\ intent'[r] # NoIntent =>
              /\ r[2] \in 1..Len(content'[r[1]])
              /\ intent'[r].source \in DOMAIN messages' \cup {None}
<1>1. CASE intent'[r] = NoIntent
  BY <1>1 DEF AttemptOK
<1>2. CASE intent[r] # NoIntent /\ intent'[r].mailbox = intent[r].mailbox
           /\ intent'[r].source = intent[r].source /\ intent'[r].event = intent[r].event
  <2>1. /\ r[2] \in 1..Len(content'[r[1]])
        /\ intent[r].source \in DOMAIN messages' \cup {None}
        /\ ContentOf(r)' = ContentOf(r)
        /\ intent[r].source # None =>
                  messages'[intent[r].source] = messages[intent[r].source]
    BY <1>2, GroundsKept DEF ApprovedInv
  <2>3. /\ decision[r].verdict = "approved"
        /\ decision[r].mailbox = intent[r].mailbox
        /\ decision[r].content = ContentOf(r)
        /\ decision[r].to = AddressOf(intent[r].source)
        /\ decision[r].event <= intent[r].event
    BY <1>2 DEF ApprovedInv, AttemptIsApproved, Approved
  <2>4. AddressOf(intent[r].source)' = IF intent'[r].source = None THEN None
                                          ELSE messages'[intent'[r].source].sender
    BY DEF AddressOf
  <2>5. AddressOf(intent[r].source)' = AddressOf(intent[r].source)
    BY <1>2, <2>1, <2>4 DEF AddressOf
  <2> QED
    BY <1>2, <2>1, <2>3, <2>5 DEF AttemptOK, Approved
<1> QED
  BY <1>1, <1>2

LEMMA EventsGrowKept ==
  ASSUME LedgerTypeOK, EventsGrow, [LedgerNext]_ledgerVars
  PROVE  EventsGrow'
<1>1. /\ \A j \in Job : LatestEvent(j).id <= LatestEvent(j)'.id
      /\ \A j \in Job : LatestEvent(j)'.id <= lastEvent'
  BY LatestEventGrows
<1>2. ASSUME NEW r \in Review
      PROVE  decision'[r].event <= LatestEvent(r[1])'.id
  <2>1. r[1] \in Job /\ decision[r].event \in Nat /\ LatestEvent(r[1]).id \in Nat
    BY LatestEventType DEF Review, LedgerTypeOK, Decision
  <2>2. LatestEvent(r[1])'.id \in Nat
    <3>1. (LedgerTypeOK => LatestEventsTyped)'
      BY LatestEventTypes, PTL
    <3>2. LedgerTypeOK'
      BY LedgerTypeStep
    <3> QED
      BY <2>1, <3>1, <3>2 DEF LatestEventsTyped
  <2>3. \/ decision'[r] = decision[r]
        \/ decision'[r].event = LatestEvent(r[1]).id
    <3>1. ASSUME NEW d \in Review, NEW approved \in BOOLEAN, NEW mailbox \in Mailbox,
                 Decide(d, approved, mailbox, None)
          PROVE  \/ decision'[r] = decision[r]
                 \/ decision'[r].event = LatestEvent(r[1]).id
      BY <3>1 DEF Decide, Facts, LedgerTypeOK
    <3>2. \/ decision' = decision
          \/ \E d \in Review, approved \in BOOLEAN, mailbox \in Mailbox :
               Decide(d, approved, mailbox, None)
      BY DEF LedgerNext, ledgerVars, Ingest, RecordStatus, Claim, Finish, Reject, Refuse
    <3> QED
      BY <3>1, <3>2
  <2>4. decision[r].event <= LatestEvent(r[1]).id
    BY DEF EventsGrow
  <2> QED
    BY <1>1, <2>1, <2>2, <2>3, <2>4
<1> QED
  BY <1>1, <1>2 DEF EventsGrow

LEMMA ApprovedStep == ApprovedInv /\ [LedgerNext]_ledgerVars => ApprovedInv'
<1> SUFFICES ASSUME ApprovedInv, [LedgerNext]_ledgerVars
             PROVE  ApprovedInv'
  OBVIOUS
<1> DEFINE Grounded(r) ==
      intent'[r] # NoIntent =>
        /\ r[2] \in 1..Len(content'[r[1]])
        /\ intent'[r].source \in DOMAIN messages' \cup {None}
<1>0. LedgerTypeOK /\ RowGrounded /\ EventsGrow /\ AttemptIsApproved
  BY DEF ApprovedInv
<1>1. LedgerTypeOK' /\ EventsGrow'
  BY <1>0, LedgerTypeStep, EventsGrowKept
<1>2. ASSUME NEW r \in Review
      PROVE  AttemptOK(r)' /\ Grounded(r)
  <2> DEFINE Kept(q) ==
        /\ decision'[q] = decision[q]
        /\ \/ intent'[q] = NoIntent
           \/ /\ intent[q] # NoIntent
              /\ intent'[q].mailbox = intent[q].mailbox
              /\ intent'[q].source = intent[q].source
              /\ intent'[q].event = intent[q].event
  <2>0. intent \in [Review -> Intent] /\ decision \in [Review -> Decision]
    BY <1>0 DEF LedgerTypeOK
  <2>1. CASE decision'[r] = decision[r] /\ intent'[r] = intent[r]
    <3>1. Kept(r)
      BY <2>1
    <3> QED
      BY <3>1, StandingKept
  <2>2. ASSUME NEW approved \in BOOLEAN, NEW mailbox \in Mailbox,
               Decide(r, approved, mailbox, None)
        PROVE  AttemptOK(r)' /\ Grounded(r)
    <3>1. intent'[r] = NoIntent
      BY <2>2 DEF Decide
    <3> QED
      BY <3>1 DEF AttemptOK
  <2>3. ASSUME NEW mailbox \in Mailbox, Claim(r, mailbox)
        PROVE  AttemptOK(r)' /\ Grounded(r)
    <3>1. /\ intent'[r] = [state |-> "attempting", receipt |-> None,
                           event |-> LatestEvent(r[1]).id,
                           source |-> SourceOf(r), mailbox |-> mailbox]
          /\ UNCHANGED <<messages, content, decision>>
      BY <2>0, <2>3 DEF Claim
    <3>2. /\ Current(r) /\ decision[r].verdict = "approved"
          /\ decision[r].content = ContentOf(r)
          /\ decision[r].to = Addressing(r)
          /\ decision[r].mailbox = mailbox
      BY <2>3 DEF Claim, Authorized, Approved
    <3>3. decision[r].event <= LatestEvent(r[1]).id
      BY <1>0 DEF EventsGrow
    <3>4. ContentOf(r)' = ContentOf(r) /\ Approved(r)' = Approved(r)
      BY <3>1 DEF ContentOf, Approved
    <3>5. intent'[r].source = SourceOf(r) /\ messages' = messages
      BY <3>1
    <3>6. AddressOf(intent[r].source)' = Addressing(r)
      BY <3>5 DEF AddressOf, Addressing
    <3>7. r[2] \in 1..Len(content'[r[1]])
      BY <3>1, <3>2, <1>0 DEF Current, Review, LedgerTypeOK
    <3>8. SourceOf(r) \in DOMAIN messages \cup {None}
      BY <1>0, ReadTypes
    <3> QED
      BY <3>1, <3>2, <3>3, <3>4, <3>6, <3>7, <3>8 DEF AttemptOK, Approved
  <2>4. ASSUME NEW receipt \in Receipt \cup {None}, Finish(r, receipt)
        PROVE  AttemptOK(r)' /\ Grounded(r)
    <3>1. intent[r] # NoIntent /\ intent[r] \in Intent
      BY <2>0, <2>4 DEF Finish, FinishRaises
    <3>2. /\ decision'[r] = decision[r]
          /\ intent'[r].mailbox = intent[r].mailbox
          /\ intent'[r].source = intent[r].source
          /\ intent'[r].event = intent[r].event
      BY <2>0, <2>4, <3>1 DEF Finish, Intent
    <3>3. Kept(r)
      BY <3>1, <3>2
    <3> QED
      BY <3>3, StandingKept
  <2>5. CASE Reject(r)
    <3>1. Kept(r)
      BY <2>0, <2>5 DEF Reject
    <3> QED
      BY <3>1, StandingKept
  <2>6. \/ decision'[r] = decision[r] /\ intent'[r] = intent[r]
        \/ \E approved \in BOOLEAN, mailbox \in Mailbox : Decide(r, approved, mailbox, None)
        \/ \E mailbox \in Mailbox : Claim(r, mailbox)
        \/ \E receipt \in Receipt \cup {None} : Finish(r, receipt)
        \/ Reject(r)
    <3>1. ASSUME NEW q \in Review \ {r}, NEW approved \in BOOLEAN, NEW mailbox \in Mailbox,
                 Decide(q, approved, mailbox, None)
          PROVE  decision'[r] = decision[r] /\ intent'[r] = intent[r]
      BY <2>0, <3>1 DEF Decide
    <3>2. ASSUME NEW q \in Review \ {r}, NEW mailbox \in Mailbox, Claim(q, mailbox)
          PROVE  decision'[r] = decision[r] /\ intent'[r] = intent[r]
      BY <2>0, <3>2 DEF Claim
    <3>3. ASSUME NEW q \in Review \ {r}, NEW receipt \in Receipt \cup {None},
                 Finish(q, receipt)
          PROVE  decision'[r] = decision[r] /\ intent'[r] = intent[r]
      BY <2>0, <3>3 DEF Finish
    <3>4. ASSUME NEW q \in Review \ {r}, Reject(q)
          PROVE  decision'[r] = decision[r] /\ intent'[r] = intent[r]
      BY <2>0, <3>4 DEF Reject
    <3>5. \/ decision' = decision /\ intent' = intent
          \/ \E q \in Review, approved \in BOOLEAN, mailbox \in Mailbox :
               Decide(q, approved, mailbox, None)
          \/ \E q \in Review, mailbox \in Mailbox : Claim(q, mailbox)
          \/ \E q \in Review, receipt \in Receipt \cup {None} : Finish(q, receipt)
          \/ \E q \in Review : Reject(q)
      BY DEF LedgerNext, ledgerVars, Ingest, RecordStatus, Refuse
    <3> QED
      BY <3>1, <3>2, <3>3, <3>4, <3>5
  <2> QED
    BY <2>1, <2>2, <2>3, <2>4, <2>5, <2>6
<1>3. RowGrounded'
  BY <1>2 DEF RowGrounded
<1>4. AttemptIsApproved'
  BY <1>2 DEF AttemptIsApproved, AttemptOK
<1> QED
  BY <1>1, <1>3, <1>4 DEF ApprovedInv

\* The approval behind a reservation stands as long as the reservation does, whatever
\* transactions intake, the operator and other commands commit meanwhile: claim() re-checks
\* it, and decide() cannot replace it while the row stands.
THEOREM AttemptApproved == LedgerSpec => []AttemptIsApproved
<1>1. ApprovedInv => AttemptIsApproved
  BY DEF ApprovedInv
<1> QED
  BY <1>1, ApprovedInit, ApprovedStep, PTL DEF LedgerSpec

-----------------------------------------------------------------------------
(* Receipts and the audit trail. *)

LEMMA ReceiptStep ==
  ASSUME LedgerTypeOK, [LedgerNext]_ledgerVars, NEW r \in Review,
         intent[r].state = "confirmed"
  PROVE  intent'[r] = intent[r]
<1>0. intent \in [Review -> Intent]
  BY DEF LedgerTypeOK
<1>1. CASE intent' = intent
  BY <1>1
<1>2. ASSUME NEW q \in Review, NEW mailbox \in Mailbox, Claim(q, mailbox)
      PROVE  intent'[r] = intent[r]
  BY <1>0, <1>2 DEF Claim, NoIntent
<1>3. ASSUME NEW q \in Review, NEW receipt \in Receipt \cup {None}, Finish(q, receipt)
      PROVE  intent'[r] = intent[r]
  BY <1>0, <1>3 DEF Finish
<1>4. ASSUME NEW q \in Review, Reject(q)
      PROVE  intent'[r] = intent[r]
  BY <1>0, <1>4 DEF Reject
<1> QED
  BY <1>1, <1>2, <1>3, <1>4
     DEF LedgerNext, ledgerVars, Ingest, RecordStatus, Decide, Refuse

\* A confirmed row and its receipt are never changed by any transaction of the repository.
THEOREM ReceiptsFinal == LedgerSpec => ReceiptFinal
<1>1. LedgerTypeOK /\ [LedgerNext]_ledgerVars =>
        [\A r \in Review : intent[r].state = "confirmed" => intent'[r] = intent[r]]_ledgerVars
  BY ReceiptStep
<1> QED
  BY <1>1, LedgerTypeCorrect, PTL DEF LedgerSpec, ReceiptFinal

\* What AttemptAudited says of one review.
AuditedOK(r) ==
  /\ audit[r]["draft_intent"] =
       audit[r]["draft_rejected"] + (IF intent[r] = NoIntent THEN 0 ELSE 1)
  /\ audit[r]["draft_confirmed"] = (IF intent[r].state = "confirmed" THEN 1 ELSE 0)
  /\ audit[r]["draft_uncertain"] > 0 => intent[r].state \in {"uncertain", "confirmed"}

LEMMA AuditedStep ==
  LedgerTypeOK /\ AttemptAudited /\ [LedgerNext]_ledgerVars => AttemptAudited'
<1> SUFFICES ASSUME LedgerTypeOK, AttemptAudited, [LedgerNext]_ledgerVars, NEW r \in Review
             PROVE  AuditedOK(r)'
  BY DEF AttemptAudited, AuditedOK
<1>0. /\ intent \in [Review -> Intent]
      /\ audit \in [Review -> [AuditEvent -> Nat]]
      /\ AuditedOK(r)
  BY DEF LedgerTypeOK, AttemptAudited, AuditedOK
<1> DEFINE Attempts == {"draft_intent", "draft_rejected", "draft_confirmed", "draft_uncertain"}
           Kept == /\ intent'[r] = intent[r]
                   /\ \A e \in Attempts : audit'[r][e] = audit[r][e]
<1>1. CASE Kept
  BY <1>0, <1>1 DEF AuditedOK
<1>2. ASSUME NEW mailbox \in Mailbox, Claim(r, mailbox)
      PROVE  AuditedOK(r)'
  BY <1>0, <1>2 DEF Claim, Log, AuditedOK, NoIntent, AuditEvent
<1>3. ASSUME NEW receipt \in Receipt \cup {None}, Finish(r, receipt)
      PROVE  AuditedOK(r)'
  <2>1. intent[r] # NoIntent
    BY <1>3 DEF Finish, FinishRaises
  <2>2. CASE intent[r].state = "confirmed"
    BY <1>0, <1>3, <2>2, <1>1 DEF Finish
  <2>3. CASE intent[r].state # "confirmed"
    <3> DEFINE state == IF receipt = None THEN "uncertain" ELSE "confirmed"
               event == IF receipt = None THEN "draft_uncertain" ELSE "draft_confirmed"
    <3>1. intent'[r].state = state
      BY <1>0, <1>3, <2>3 DEF Finish, Intent
    <3>2. audit'[r] = [audit[r] EXCEPT ![event] = @ + 1]
      BY <1>0, <1>3, <2>3 DEF Finish, Log
    <3>3. intent'[r] # NoIntent
      BY <3>1 DEF NoIntent
    <3> QED
      BY <1>0, <2>1, <2>3, <3>1, <3>2, <3>3 DEF AuditedOK, AuditEvent
  <2> QED
    BY <2>2, <2>3
<1>4. CASE Reject(r)
  <2>1. intent[r] # NoIntent /\ intent[r].state = "attempting" /\ intent'[r] = NoIntent
    BY <1>0, <1>4 DEF Reject, NoIntent
  <2>2. audit'[r] = [audit[r] EXCEPT !["draft_rejected"] = @ + 1]
    BY <1>0, <1>4 DEF Reject, Log
  <2> QED
    BY <1>0, <2>1, <2>2 DEF AuditedOK, AuditEvent, NoIntent
<1>5. \/ Kept
      \/ \E mailbox \in Mailbox : Claim(r, mailbox)
      \/ \E receipt \in Receipt \cup {None} : Finish(r, receipt)
      \/ Reject(r)
  <2>1. ASSUME NEW m \in MessageId, NEW p \in Payload, Ingest(m, p)
        PROVE  Kept
    BY <1>0, <2>1 DEF Ingest, AuditEvent
  <2>2. ASSUME NEW q \in Review, NEW approved \in BOOLEAN, NEW mailbox \in Mailbox,
               Decide(q, approved, mailbox, None)
        PROVE  Kept
    BY <1>0, <2>2 DEF Decide, Log, AuditEvent
  <2>3. ASSUME NEW q \in Review, Refuse(q)
        PROVE  Kept
    BY <1>0, <2>3 DEF Refuse, Log, AuditEvent
  <2>4. ASSUME NEW q \in Review \ {r}, NEW mailbox \in Mailbox, Claim(q, mailbox)
        PROVE  Kept
    BY <1>0, <2>4 DEF Claim, Log
  <2>5. ASSUME NEW q \in Review \ {r}, NEW receipt \in Receipt \cup {None},
               Finish(q, receipt)
        PROVE  Kept
    BY <1>0, <2>5 DEF Finish, Log
  <2>6. ASSUME NEW q \in Review \ {r}, Reject(q)
        PROVE  Kept
    BY <1>0, <2>6 DEF Reject, Log
  <2>7. CASE UNCHANGED ledgerVars
    BY <2>7 DEF ledgerVars
  <2>8. ASSUME NEW j \in Job, NEW s \in Status, NEW e, RecordStatus(j, s, e)
        PROVE  Kept
    BY <2>8 DEF RecordStatus
  <2> QED
    BY <2>1, <2>2, <2>3, <2>4, <2>5, <2>6, <2>7, <2>8 DEF LedgerNext
<1> QED
  BY <1>1, <1>2, <1>3, <1>4, <1>5

\* The append-only audit table accounts for every reservation, confirmation and release of
\* every review.
THEOREM AttemptsAudited == LedgerSpec => []AttemptAudited
<1>1. LedgerInit => AttemptAudited
  BY DEF LedgerInit, AttemptAudited, NoIntent, AuditEvent
<1> QED
  BY <1>1, AuditedStep, LedgerTypeCorrect, PTL DEF LedgerSpec

-----------------------------------------------------------------------------
(* Status event ids are rowids: each names one event of one job, in order.  What is proved of *)
(* expectations and pages rests on this.                                                      *)

EventIdsBounded ==
  \A j \in Job : \A a \in DOMAIN history[j] : history[j][a].id \in 1..lastEvent

EventIdsIdentify ==
  \A j, k \in Job : \A a \in DOMAIN history[j], b \in DOMAIN history[k] :
    /\ history[j][a].id = history[k][b].id => j = k /\ a = b
    /\ j = k /\ a < b => history[j][a].id < history[k][b].id

EventIdsInv == LedgerTypeOK /\ EventIdsBounded /\ EventIdsIdentify

LEMMA EventIdsStep == EventIdsInv /\ [LedgerNext]_ledgerVars => EventIdsInv'
<1> SUFFICES ASSUME EventIdsInv, [LedgerNext]_ledgerVars
             PROVE  EventIdsInv'
  OBVIOUS
<1>0. /\ LedgerTypeOK /\ LedgerTypeOK' /\ EventIdsBounded /\ EventIdsIdentify
      /\ history \in [Job -> Seq(Event)] /\ lastEvent \in Nat
  BY LedgerTypeStep DEF EventIdsInv, LedgerTypeOK
<1>1. CASE history' = history /\ lastEvent' = lastEvent
  BY <1>0, <1>1 DEF EventIdsInv, EventIdsBounded, EventIdsIdentify
<1>2. ASSUME NEW m \in MessageId, NEW p \in Payload, Ingest(m, p)
      PROVE  EventIdsBounded' /\ EventIdsIdentify'
  <2>1. PICK id \in OpeningIds(p) :
          history' = [j \in Job |-> IF j \in Opened(p)
                                      THEN <<[id |-> id[j], status |-> Initial]>>
                                      ELSE history[j]]
    BY <1>2 DEF Ingest
  <2>2. lastEvent' = lastEvent + Cardinality(Opened(p)) /\ Cardinality(Opened(p)) \in Nat
    BY <1>2, OpenedCount DEF Ingest
  <2>3. /\ \A j \in Opened(p) : id[j] \in (lastEvent + 1)..lastEvent'
        /\ \A j, k \in Opened(p) : id[j] = id[k] => j = k
    BY <2>2 DEF OpeningIds
  <2>4. ASSUME NEW j \in Job
        PROVE  \/ /\ j \in Opened(p)
                  /\ \A x \in DOMAIN history'[j] : x = 1 /\ history'[j][x].id = id[j]
               \/ j \notin Opened(p) /\ history'[j] = history[j]
    BY <2>1
  <2>5. ASSUME NEW j \in Job, NEW x \in DOMAIN history[j]
        PROVE  history[j][x].id \in Nat /\ history[j][x].id <= lastEvent
    BY <1>0 DEF EventIdsBounded
  <2>6. EventIdsBounded'
    <3> SUFFICES ASSUME NEW j \in Job, NEW x \in DOMAIN history'[j]
                 PROVE  history'[j][x].id \in 1..lastEvent'
      BY DEF EventIdsBounded
    <3>1. CASE j \in Opened(p)
      BY <1>0, <2>2, <2>3, <2>4, <3>1
    <3>2. CASE j \notin Opened(p)
      <4>1. history'[j] = history[j]
        BY <2>4, <3>2
      <4>2. history[j][x].id \in 1..lastEvent
        BY <1>0, <4>1 DEF EventIdsBounded
      <4> QED
        BY <1>0, <2>2, <4>1, <4>2
    <3> QED
      BY <3>1, <3>2
  <2>7. ASSUME NEW j \in Job, NEW k \in Job,
               NEW x \in DOMAIN history'[j], NEW y \in DOMAIN history'[k]
        PROVE  /\ history'[j][x].id = history'[k][y].id => j = k /\ x = y
               /\ j = k /\ x < y => history'[j][x].id < history'[k][y].id
    <3>1. CASE j \in Opened(p) /\ k \in Opened(p)
      BY <2>3, <2>4, <3>1
    <3>2. CASE j \notin Opened(p) /\ k \notin Opened(p)
      BY <1>0, <2>4, <3>2 DEF EventIdsIdentify
    <3>3. CASE j \in Opened(p) /\ k \notin Opened(p)
      <4>1. history'[j][x].id \in (lastEvent + 1)..lastEvent'
        BY <2>3, <2>4, <3>3
      <4>2. history'[k][y].id \in Nat /\ history'[k][y].id <= lastEvent
        BY <2>4, <2>5, <3>3
      <4> QED
        BY <1>0, <2>2, <3>3, <4>1, <4>2
    <3>4. CASE j \notin Opened(p) /\ k \in Opened(p)
      <4>1. history'[k][y].id \in (lastEvent + 1)..lastEvent'
        BY <2>3, <2>4, <3>4
      <4>2. history'[j][x].id \in Nat /\ history'[j][x].id <= lastEvent
        BY <2>4, <2>5, <3>4
      <4> QED
        BY <1>0, <2>2, <3>4, <4>1, <4>2
    <3> QED
      BY <3>1, <3>2, <3>3, <3>4
  <2> QED
    BY <2>6, <2>7 DEF EventIdsIdentify
<1>3. ASSUME NEW i \in Job, NEW s \in Status, NEW e, RecordStatus(i, s, e)
      PROVE  EventIdsBounded' /\ EventIdsIdentify'
  <2> DEFINE new == [id |-> lastEvent + 1, status |-> s]
             last(j) == Len(history[j]) + 1
  <2>1. /\ history' = [history EXCEPT ![i] = Append(@, new)] /\ lastEvent' = lastEvent + 1
        /\ history[i] \in Seq(Event)
    BY <1>0, <1>3 DEF RecordStatus
  <2>2. ASSUME NEW j \in Job, NEW x \in DOMAIN history'[j]
        PROVE  \/ x \in DOMAIN history[j] /\ history'[j][x] = history[j][x]
               \/ j = i /\ x = last(i) /\ history'[j][x].id = lastEvent + 1
    BY <1>0, <2>1
  <2>3. ASSUME NEW j \in Job, NEW x \in DOMAIN history[j]
        PROVE  /\ history[j][x].id \in Nat \ {0} /\ history[j][x].id <= lastEvent
               /\ x \in Nat /\ x < last(j)
    BY <1>0 DEF EventIdsBounded
  <2>4. EventIdsBounded'
    <3> SUFFICES ASSUME NEW j \in Job, NEW x \in DOMAIN history'[j]
                 PROVE  history'[j][x].id \in 1..lastEvent'
      BY DEF EventIdsBounded
    <3> QED
      BY <1>0, <2>1, <2>2, <2>3
  <2>5. ASSUME NEW j \in Job, NEW k \in Job,
               NEW x \in DOMAIN history'[j], NEW y \in DOMAIN history'[k]
        PROVE  /\ history'[j][x].id = history'[k][y].id => j = k /\ x = y
               /\ j = k /\ x < y => history'[j][x].id < history'[k][y].id
    <3>1. CASE x \in DOMAIN history[j] /\ history'[j][x] = history[j][x]
               /\ y \in DOMAIN history[k] /\ history'[k][y] = history[k][y]
      BY <1>0, <3>1 DEF EventIdsIdentify
    <3>2. CASE x \in DOMAIN history[j] /\ history'[j][x] = history[j][x]
               /\ k = i /\ y = last(i) /\ history'[k][y].id = lastEvent + 1
      BY <1>0, <2>3, <3>2
    <3>3. CASE j = i /\ x = last(i) /\ history'[j][x].id = lastEvent + 1
               /\ y \in DOMAIN history[k] /\ history'[k][y] = history[k][y]
      BY <1>0, <2>1, <2>3, <3>3
    <3>4. CASE j = i /\ x = last(i) /\ k = i /\ y = last(i)
      BY <2>1, <3>4
    <3> QED
      BY <2>2, <3>1, <3>2, <3>3, <3>4
  <2> QED
    BY <2>4, <2>5 DEF EventIdsIdentify
<1>4. \/ history' = history /\ lastEvent' = lastEvent
      \/ \E m \in MessageId, p \in Payload : Ingest(m, p)
      \/ \E j \in Job, s \in Status, e \in {None} \cup 1..MaxEvent : RecordStatus(j, s, e)
  BY DEF LedgerNext, ledgerVars, Decide, Claim, Finish, Reject, Refuse
<1> QED
  BY <1>0, <1>1, <1>2, <1>3, <1>4 DEF EventIdsInv
=============================================================================
