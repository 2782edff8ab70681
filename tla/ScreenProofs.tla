---------------------------- MODULE ScreenProofs ----------------------------
(***************************************************************************)
(* Proofs about a tab of the browser application, for any number of clicks *)
(* in progress, answers in any order, and any other writers of the record. *)
(***************************************************************************)
EXTENDS Screen, ViewsProofs

USE ScreenAssumption

-----------------------------------------------------------------------------
(* What a tab holds was true of the record when it was read.  Each set is of things that, once *)
(* read, stay true of whatever the record becomes.                                             *)

KnownIds == Listed \cup MessageId \cup {None}

\* The event of a packet is one of the opportunity it is of.
KnownPackets ==
  {p \in AnyPacket :
     p = NoPacket \/ /\ p.review \in Review
                     /\ \E k \in DOMAIN history[p.review[1]] :
                          history[p.review[1]][k].id = p.bound.event}

\* An attempt to draft this review was reserved: its row stands, or it was released on proof.
Tried(r) ==
  r \in Review /\ (intent[r].state # "none" \/ audit[r]["draft_rejected"] > 0)

\* What a command found is not undone: events are added, a decision is made again but not
\* withdrawn, an attempt that may have reached the provider keeps its row, and of a row that
\* was released the record keeps the rejection.
KnownAnswers ==
  {n \in AnyAnswer :
     /\ n.job \in Job => n.event <= LatestEvent(n.job).id
     /\ n.verdict # "none" => n.review \in Review /\ decision[n.review].verdict # "none"
     /\ n.draft \in {"uncertain", "confirmed"} =>
          n.review \in Review /\ intent[n.review].state \in {"uncertain", "confirmed"}
     /\ n.outcome \in {"UNCERTAIN", "stopped"} => Tried(n.review)}

\* What PageFollowsAnswer and AgainOnlyIfRejected say of one page.
Follows(g) ==
  g.answer # NoAnswer /\ g.answer.job = g.shows =>
    /\ g.packet.bound.event >= g.answer.event
    /\ g.answer.verdict # "none" /\ g.answer.review = g.packet.review =>
         g.packet.queue # "decide"

OnlyIfRejected(g) ==
  LET r == g.answer.review IN
  g.answer.outcome = "UNCERTAIN" /\ r = g.packet.review
    /\ ~(Offered(g.packet) \subseteq {"status", "reconcile"}) =>
      /\ g.answer.draft \in {"attempting", "none"}
      /\ r \in Review /\ audit[r]["draft_rejected"] > 0

KnownPages ==
  {g \in AnyPage : g.packet \in KnownPackets /\ Follows(g) /\ OnlyIfRejected(g)}

Work ==
  [at : {"idle", "sent", "claimed", "ran", "answered", "read"},
   command : {"open", "status", "approve", "reject", "draft", "reconcile"},
   id : Job \cup MessageId \cup {None}, of : AnyPacket, answer : AnyAnswer, pane : AnyPage]

\* Only a command that is under way holds a packet, a reservation made for one was tried, and
\* opening a page is no command.
KnownWork ==
  {k \in Work :
     /\ k.id \in KnownIds /\ k.of \in KnownPackets
     /\ k.answer \in KnownAnswers /\ k.pane \in KnownPages
     /\ k.at \in {"sent", "claimed"} <=> k.of # NoPacket
     /\ k.at \in {"sent", "claimed", "ran"} => k.command # "open"
     /\ k.at = "claimed" => Tried(k.of.review)
     /\ k.at = "ran" => k.answer.review \in Review
     /\ k.command = "open" => k.answer = NoAnswer}

RecordInv == ViewsInv /\ ApprovedInv /\ EventIdsInv

ScreenInv ==
  /\ RecordInv
  /\ selected \in KnownIds
  /\ detail \in KnownPages
  /\ task \in [Task -> KnownWork]
  /\ clicks \in 0..MaxClick

-----------------------------------------------------------------------------
(* The record. *)

LEMMA RecordInit == LedgerInit => RecordInv
<1>1. LedgerInit => EventIdsInv
  BY LedgerTypeInit DEF LedgerInit, EventIdsInv, EventIdsBounded, EventIdsIdentify
<1> QED
  BY <1>1, ViewsInit, ApprovedInit DEF RecordInv

LEMMA RecordStep == RecordInv /\ [LedgerNext]_ledgerVars => RecordInv'
  BY ViewsStep, ApprovedStep, EventIdsStep DEF RecordInv

\* An event that is recorded stays where it is.
LEMMA HistoryKept ==
  ASSUME LedgerTypeOK, [LedgerNext]_ledgerVars, NEW j \in Job, NEW k \in DOMAIN history[j]
  PROVE  k \in DOMAIN history'[j] /\ history'[j][k] = history[j][k]
<1>0. history[j] \in Seq(Event) /\ history \in [Job -> Seq(Event)]
  BY DEF LedgerTypeOK
<1>1. CASE history' = history
  BY <1>1
<1>2. ASSUME NEW m \in MessageId, NEW p \in Payload, Ingest(m, p)
      PROVE  history'[j] = history[j]
  <2>1. j \notin Opened(p)
    BY <1>0 DEF Opened
  <2> QED
    BY <1>2, <2>1 DEF Ingest
<1>3. ASSUME NEW i \in Job, NEW s \in Status, NEW e, RecordStatus(i, s, e)
      PROVE  \/ history'[j] = history[j]
             \/ \E x : history'[j] = Append(history[j], x)
  BY <1>0, <1>3 DEF RecordStatus
<1>4. ASSUME NEW x, history'[j] = Append(history[j], x)
      PROVE  k \in DOMAIN history'[j] /\ history'[j][k] = history[j][k]
  BY <1>0, <1>4
<1>5. \/ history' = history
      \/ \E m \in MessageId, p \in Payload : Ingest(m, p)
      \/ \E i \in Job, s \in Status, e \in {None} \cup 1..MaxEvent : RecordStatus(i, s, e)
  BY DEF LedgerNext, ledgerVars, Decide, Claim, Finish, Reject, Refuse
<1> QED
  BY <1>1, <1>2, <1>3, <1>4, <1>5

\* An opportunity with a review keeps having one.
LEMMA ListedKept ==
  ASSUME ViewsInv, [LedgerNext]_ledgerVars
  PROVE  Listed \subseteq Listed'
<1> SUFFICES ASSUME NEW j \in Job, content[j] # <<>>
             PROVE  content'[j] # <<>>
  BY DEF Listed
<1> DEFINE r == CurrentReview(j)
<1>1. r \in Review /\ Current(r) /\ r[1] = j
  BY CurrentReviewTypes DEF ViewsInv, CurrentReview
<1>2. r[2] \in 1..Len(content[j])
  BY <1>1 DEF Current, Review, ViewsInv, LedgerTypeOK
<1>3. r[2] \in 1..Len(content'[j])
  BY <1>1, <1>2, ContentKept DEF ViewsInv
<1> QED
  BY <1>3

\* A decision is made again, never withdrawn.
LEMMA DecidedKept ==
  ASSUME LedgerTypeOK, [LedgerNext]_ledgerVars, NEW r \in Review,
         decision[r].verdict # "none"
  PROVE  decision'[r].verdict # "none"
<1>1. CASE decision' = decision
  BY <1>1
<1>2. ASSUME NEW q \in Review, NEW approved \in BOOLEAN, NEW mailbox \in Mailbox,
             Decide(q, approved, mailbox, None)
      PROVE  decision'[r].verdict # "none"
  BY <1>2 DEF Decide, LedgerTypeOK
<1> QED
  BY <1>1, <1>2 DEF LedgerNext, ledgerVars, Ingest, RecordStatus, Claim, Finish, Reject, Refuse

\* An attempt that may have reached the provider is never forgotten.
LEMMA UnknownKept ==
  ASSUME LedgerTypeOK, [LedgerNext]_ledgerVars, NEW r \in Review,
         intent[r].state \in {"uncertain", "confirmed"}
  PROVE  intent'[r].state \in {"uncertain", "confirmed"}
<1>0. intent \in [Review -> Intent]
  BY DEF LedgerTypeOK
<1>1. CASE intent' = intent
  BY <1>1
<1>2. ASSUME NEW q \in Review, NEW mailbox \in Mailbox, Claim(q, mailbox)
      PROVE  intent'[r] = intent[r]
  BY <1>0, <1>2 DEF Claim, NoIntent
<1>3. ASSUME NEW q \in Review, NEW receipt \in Receipt \cup {None}, Finish(q, receipt)
      PROVE  intent'[r].state \in {"uncertain", "confirmed"}
  BY <1>0, <1>3 DEF Finish, Intent
<1>4. ASSUME NEW q \in Review, Reject(q)
      PROVE  intent'[r] = intent[r]
  BY <1>0, <1>4 DEF Reject
<1> QED
  BY <1>1, <1>2, <1>3, <1>4
     DEF LedgerNext, ledgerVars, Ingest, RecordStatus, Decide, Refuse

\* The audit only grows.
LEMMA RejectionKept ==
  ASSUME LedgerTypeOK, [LedgerNext]_ledgerVars, NEW r \in Review,
         audit[r]["draft_rejected"] > 0
  PROVE  audit'[r]["draft_rejected"] > 0
<1>0. audit \in [Review -> [AuditEvent -> Nat]] /\ "draft_rejected" \in AuditEvent
  BY DEF LedgerTypeOK, AuditEvent
<1>1. CASE audit' = audit
  BY <1>1
<1>2. ASSUME NEW m \in MessageId, NEW p \in Payload, Ingest(m, p)
      PROVE  audit'[r]["draft_rejected"] > 0
  BY <1>0, <1>2 DEF Ingest
<1>3. ASSUME NEW q \in Review, NEW e \in AuditEvent, Log(q, e)
      PROVE  audit'[r]["draft_rejected"] > 0
  BY <1>0, <1>3 DEF Log
<1>4. \/ audit' = audit
      \/ \E m \in MessageId, p \in Payload : Ingest(m, p)
      \/ \E q \in Review, e \in AuditEvent : Log(q, e)
  BY DEF LedgerNext, ledgerVars, RecordStatus, Decide, Claim, Finish, Reject, Refuse, AuditEvent
<1> QED
  BY <1>1, <1>2, <1>3, <1>4

\* A reservation ends by a rejection or not at all.
LEMMA TriedKept ==
  ASSUME LedgerTypeOK, [LedgerNext]_ledgerVars, NEW r, Tried(r)
  PROVE  Tried(r)'
<1>0. /\ intent \in [Review -> Intent] /\ audit \in [Review -> [AuditEvent -> Nat]]
      /\ "draft_rejected" \in AuditEvent /\ r \in Review
  BY DEF LedgerTypeOK, AuditEvent, Tried
<1>1. CASE audit[r]["draft_rejected"] > 0
  BY <1>0, <1>1, RejectionKept DEF Tried
<1>2. CASE intent[r].state # "none"
  <2>1. CASE intent' = intent
    BY <1>0, <1>2, <2>1 DEF Tried
  <2>2. ASSUME NEW q \in Review, NEW mailbox \in Mailbox, Claim(q, mailbox)
        PROVE  Tried(r)'
    BY <1>0, <1>2, <2>2 DEF Claim, NoIntent, Tried
  <2>3. ASSUME NEW q \in Review, NEW receipt \in Receipt \cup {None}, Finish(q, receipt)
        PROVE  Tried(r)'
    BY <1>0, <1>2, <2>3 DEF Finish, Intent, Tried
  <2>4. ASSUME NEW q \in Review, Reject(q)
        PROVE  Tried(r)'
    BY <1>0, <1>2, <2>4 DEF Reject, Log, Tried
  <2> QED
    BY <2>1, <2>2, <2>3, <2>4
       DEF LedgerNext, ledgerVars, Ingest, RecordStatus, Decide, Refuse
<1> QED
  BY <1>1, <1>2 DEF Tried

-----------------------------------------------------------------------------
(* What was read stays true. *)

LEMMA PacketsKept ==
  ASSUME LedgerTypeOK, [LedgerNext]_ledgerVars
  PROVE  KnownPackets \subseteq KnownPackets'
<1> SUFFICES ASSUME NEW p \in AnyPacket, p.review \in Review,
                    NEW k \in DOMAIN history[p.review[1]],
                    history[p.review[1]][k].id = p.bound.event
             PROVE  \E i \in DOMAIN history'[p.review[1]] :
                      history'[p.review[1]][i].id = p.bound.event
  BY DEF KnownPackets
<1>1. p.review[1] \in Job
  BY DEF Review
<1> QED
  BY <1>1, HistoryKept

LEMMA AnswersKept ==
  ASSUME RecordInv, [LedgerNext]_ledgerVars
  PROVE  KnownAnswers \subseteq KnownAnswers'
<1> SUFFICES ASSUME NEW n \in KnownAnswers
             PROVE  n \in KnownAnswers'
  OBVIOUS
<1>0. n \in AnyAnswer /\ LedgerTypeOK /\ EventsGrow
  BY DEF KnownAnswers, RecordInv, ApprovedInv
<1>1. ASSUME n.job \in Job
      PROVE  n.event <= LatestEvent(n.job)'.id
  <2>1. n.event <= LatestEvent(n.job).id /\ n.event \in Nat
    BY <1>1 DEF KnownAnswers, AnyAnswer
  <2>2. LatestEvent(n.job).id <= LatestEvent(n.job)'.id
    BY <1>0, <1>1, LatestEventGrows
  <2>3. LatestEvent(n.job).id \in Nat /\ LatestEvent(n.job)'.id \in Nat
    <3>1. LedgerTypeOK'
      BY <1>0, LedgerTypeStep
    <3>2. LatestEventsTyped /\ LatestEventsTyped'
      BY <1>0, <3>1, LatestEventTypes, PTL
    <3> QED
      BY <1>1, <3>2 DEF LatestEventsTyped
  <2> QED
    BY <2>1, <2>2, <2>3
<1>2. ASSUME n.verdict # "none"
      PROVE  n.review \in Review /\ decision'[n.review].verdict # "none"
  BY <1>0, <1>2, DecidedKept DEF KnownAnswers
<1>3. ASSUME n.draft \in {"uncertain", "confirmed"}
      PROVE  n.review \in Review /\ intent'[n.review].state \in {"uncertain", "confirmed"}
  BY <1>0, <1>3, UnknownKept DEF KnownAnswers
<1>4. ASSUME n.outcome \in {"UNCERTAIN", "stopped"}
      PROVE  Tried(n.review)'
  BY <1>0, <1>4, TriedKept DEF KnownAnswers
<1> QED
  BY <1>0, <1>1, <1>2, <1>3, <1>4 DEF KnownAnswers, LatestEvent

\* Whatever is written to the record, by whomever, a tab that does nothing stays as true.
LEMMA KnownKept ==
  ASSUME RecordInv, [LedgerNext]_ledgerVars
  PROVE  /\ KnownIds \subseteq KnownIds'
         /\ KnownPackets \subseteq KnownPackets'
         /\ KnownAnswers \subseteq KnownAnswers'
         /\ KnownPages \subseteq KnownPages'
         /\ KnownWork \subseteq KnownWork'
<1>1. KnownIds \subseteq KnownIds'
  BY ListedKept DEF KnownIds, RecordInv
<1>2. KnownPackets \subseteq KnownPackets'
  BY PacketsKept DEF RecordInv, ApprovedInv
<1>3. KnownAnswers \subseteq KnownAnswers'
  BY AnswersKept
<1>4. KnownPages \subseteq KnownPages'
  <2> SUFFICES ASSUME NEW g \in KnownPages
               PROVE  OnlyIfRejected(g)'
    BY <1>2 DEF KnownPages, Follows
  <2> QED
    BY RejectionKept DEF KnownPages, OnlyIfRejected, RecordInv, ApprovedInv
<1>5. KnownWork \subseteq KnownWork'
  BY <1>1, <1>2, <1>3, <1>4, TriedKept DEF KnownWork, RecordInv, ApprovedInv
<1> QED
  BY <1>1, <1>2, <1>3, <1>4, <1>5

-----------------------------------------------------------------------------
(* A tab writes the record only by its transactions. *)

\* What a command that is on its way was pressed on.
LEMMA SentPacket ==
  ASSUME ScreenInv, NEW t \in Task, task[t].at \in {"sent", "claimed"}
  PROVE  LET r == task[t].of.review IN
         /\ task[t] \in KnownWork /\ r \in Review /\ r[1] \in Job
         /\ task[t].of.bound.event \in Nat
         /\ \E k \in DOMAIN history[r[1]] : history[r[1]][k].id = task[t].of.bound.event
<1>1. task[t] \in KnownWork
  BY DEF ScreenInv
<1>2. task[t].of \in KnownPackets /\ task[t].of # NoPacket
  BY <1>1 DEF KnownWork
<1>3. task[t].of \in AnyPacket
  BY <1>2 DEF KnownPackets
<1> QED
  BY <1>1, <1>2, <1>3 DEF KnownPackets, AnyPacket, Review

\* An expectation only narrows when a write succeeds.
LEMMA DecideAnyway ==
  ASSUME NEW r, NEW approved, NEW mailbox, NEW e, Decide(r, approved, mailbox, e)
  PROVE  Decide(r, approved, mailbox, None)
  BY DEF Decide

LEMMA RecordAnyway ==
  ASSUME NEW j, NEW s, NEW e, RecordStatus(j, s, e)
  PROVE  RecordStatus(j, s, None)
  BY DEF RecordStatus

LEMMA ScreenLedgerStep == ScreenInv /\ [Next]_screenVars => [LedgerNext]_ledgerVars
<1> SUFFICES ASSUME ScreenInv, [Next]_screenVars
             PROVE  [LedgerNext]_ledgerVars
  OBVIOUS
<1>1. ASSUME NEW t \in Task, NEW s \in Status, PostStatus(t, s)
      PROVE  [LedgerNext]_ledgerVars
  <2>1. \/ \E j \in Job : RecordStatus(j, s, None)
        \/ UNCHANGED ledgerVars
    BY <1>1, RecordAnyway DEF PostStatus, Listed
  <2> QED
    BY <2>1 DEF LedgerNext
<1>2. ASSUME NEW t \in Task, PostDecision(t)
      PROVE  [LedgerNext]_ledgerVars
  <2>1. task[t].of.review \in Review
    BY <1>2, SentPacket DEF PostDecision, Sent
  <2>2. \/ Decide(task[t].of.review, task[t].command = "approve", Target, None)
        \/ UNCHANGED ledgerVars
    BY <1>2, DecideAnyway DEF PostDecision
  <2>3. (task[t].command = "approve") \in BOOLEAN /\ Target \in Mailbox
    OBVIOUS
  <2> QED
    BY <2>1, <2>2, <2>3 DEF LedgerNext
<1>3. ASSUME NEW t \in Task, PostDraft(t) \/ SettleDraft(t) \/ PostReconcile(t)
      PROVE  [LedgerNext]_ledgerVars
  <2>1. task[t].of.review \in Review
    BY <1>3, SentPacket DEF PostDraft, SettleDraft, PostReconcile, Sent
  <2>2. \/ Claim(task[t].of.review, Target)
        \/ \E receipt \in Receipt \cup {None} : Finish(task[t].of.review, receipt)
        \/ Reject(task[t].of.review) \/ Refuse(task[t].of.review)
        \/ UNCHANGED ledgerVars
    BY <1>3 DEF PostDraft, SettleDraft, PostReconcile
  <2> QED
    BY <2>1, <2>2 DEF LedgerNext
<1>4. ASSUME NEW j \in Job, NEW s \in Status, StatusElsewhere(j, s)
      PROVE  [LedgerNext]_ledgerVars
  <2>1. RecordStatus(j, s, None)
    BY <1>4, RecordAnyway DEF StatusElsewhere
  <2> QED
    BY <2>1 DEF LedgerNext
<1>5. ASSUME NEW m \in MessageId, NEW p \in Payload, Arrive(m, p)
      PROVE  [LedgerNext]_ledgerVars
  BY <1>5 DEF Arrive, LedgerNext
<1>6. ASSUME NEW t \in Task,
             \/ \E id \in Job \cup MessageId : Open(t, id)
             \/ \E command : Press(t, command)
             \/ Report(t) \/ Read(t) \/ Show(t) \/ Fail(t)
      PROVE  [LedgerNext]_ledgerVars
  BY <1>6 DEF Open, Press, Report, Read, Show, Fail
<1>7. CASE ShowApprovals \/ UNCHANGED screenVars
  BY <1>7 DEF ShowApprovals, screenVars
<1> QED
  BY <1>1, <1>2, <1>3, <1>4, <1>5, <1>6, <1>7 DEF Next

-----------------------------------------------------------------------------
(* What is read is known. *)

LEMMA PacketRead ==
  ASSUME RecordInv, NEW j \in Listed
  PROVE  /\ Packet(j) \in KnownPackets
         /\ Packet(j).review = CurrentReview(j)
         /\ Packet(j).queue = QueueOf(j)
         /\ Packet(j).bound.event = LatestEvent(j).id
<1> DEFINE r == CurrentReview(j)
<1>0. ViewsInv /\ LedgerTypeOK /\ ChainBounded /\ j \in Job /\ content[j] # <<>>
  BY DEF RecordInv, ViewsInv, Listed
<1>1. r \in Review /\ Current(r) /\ r[1] = j
  BY <1>0, CurrentReviewTypes DEF CurrentReview
<1>2. /\ ContentOf(r) \in Content /\ Addressing(r) \in Sender \cup {None}
      /\ LatestEvent(j).id \in Nat
  BY <1>0, <1>1, ReadTypes, LatestEventType
<1>3. Facts(r) = [content |-> ContentOf(r), to |-> Addressing(r), event |-> LatestEvent(j).id]
  BY <1>1 DEF Facts
<1>4. QueueOf(j) \in DOMAIN Controls
  BY DEF QueueOf, Queue, Controls
<1>5. (decision[r].mailbox \notin {None, Target}) \in BOOLEAN
  OBVIOUS
<1>6. Packet(j) = [review |-> r, bound |-> Facts(r), queue |-> QueueOf(j),
                   elsewhere |-> decision[r].mailbox \notin {None, Target}]
  BY DEF Packet
<1>7. Packet(j) \in AnyPacket
  BY <1>1, <1>2, <1>3, <1>4, <1>5, <1>6 DEF AnyPacket
<1>8. \E k \in DOMAIN history[j] : history[j][k].id = LatestEvent(j).id
  <2>1. history[j] \in Seq(Event) /\ history[j] # <<>>
    BY <1>0 DEF LedgerTypeOK
  <2>2. Len(history[j]) \in DOMAIN history[j]
    BY <2>1
  <2> QED
    BY <2>1, <2>2 DEF LatestEvent
<1> QED
  BY <1>1, <1>3, <1>6, <1>7, <1>8 DEF KnownPackets

\* What the controls of a settled or unknown attempt are.
LEMMA NoControls ==
  ASSUME NEW p, p.queue \in {"reconcile", "created"}
  PROVE  Offered(p) \subseteq {"status", "reconcile"}
  BY DEF Offered, Controls

\* A page that reports an answer is read after it, so it shows what the answer tells.
LEMMA PageRead ==
  ASSUME ScreenInv, NEW t \in Task, Read(t)
  PROVE  Page(t) \in KnownPages
<1> DEFINE k == task[t]
           id == k.id
           g == Page(t)
<1>0. /\ k \in KnownWork /\ k \in Work /\ k.answer \in KnownAnswers /\ k.answer \in AnyAnswer
      /\ RecordInv /\ ViewsInv /\ id \in Job \cup MessageId \cup {None}
  BY DEF ScreenInv, RecordInv, KnownWork, Work
<1>1. g.shows = id /\ g.answer = k.answer
  BY DEF Page
<1>2. CASE id \in Listed
  <2> DEFINE r == CurrentReview(id)
  <2>1. /\ g = [shows |-> id, packet |-> Packet(id), answer |-> k.answer]
        /\ Packet(id) \in KnownPackets /\ Packet(id).review = r
        /\ Packet(id).queue = QueueOf(id) /\ Packet(id).bound.event = LatestEvent(id).id
    BY <1>0, <1>2, PacketRead DEF Page
  <2>2. g \in AnyPage
    BY <1>0, <2>1 DEF AnyPage, KnownPackets
  <2>3. Follows(g)
    <3>1. ASSUME k.answer.job = id
          PROVE  LatestEvent(id).id >= k.answer.event
      <4>1. k.answer.event <= LatestEvent(id).id /\ k.answer.event \in Nat
        BY <1>0, <1>2, <3>1 DEF KnownAnswers, AnyAnswer, Listed
      <4>2. LatestEvent(id).id \in Nat
        BY <1>0, <1>2, LatestEventType DEF ViewsInv, Listed
      <4> QED
        BY <4>1, <4>2
    <3>2. ASSUME k.answer.verdict # "none", k.answer.review = r
          PROVE  QueueOf(id) # "decide"
      <4>1. decision[r].verdict # "none"
        BY <1>0, <3>2 DEF KnownAnswers
      <4>2. decision[r] # NoDecision
        BY <4>1 DEF NoDecision
      <4> QED
        BY <1>0, <1>2, <4>2, QueueOfOneJob
    <3> QED
      BY <2>1, <3>1, <3>2 DEF Follows
  <2>4. OnlyIfRejected(g)
    <3> SUFFICES ASSUME k.answer.outcome = "UNCERTAIN", k.answer.review = r,
                        ~(Offered(Packet(id)) \subseteq {"status", "reconcile"})
                 PROVE  /\ k.answer.draft \in {"attempting", "none"}
                        /\ r \in Review /\ audit[r]["draft_rejected"] > 0
      BY <2>1 DEF OnlyIfRejected
    <3>1. Tried(r)
      BY <1>0 DEF KnownAnswers
    <3>2. r \in Review /\ intent[r].state \in {"none", "attempting", "uncertain", "confirmed"}
      BY <1>0, <3>1 DEF Tried, ViewsInv, LedgerTypeOK, Intent
    <3>3. QueueOf(id) \notin {"reconcile", "created"}
      BY <2>1, NoControls
    <3>4. intent[r].state = "none"
      BY <1>0, <1>2, <3>2, <3>3, QueueOfOneJob
    <3>5. k.answer.draft \notin {"uncertain", "confirmed"}
      BY <1>0, <3>4 DEF KnownAnswers
    <3> QED
      BY <1>0, <3>1, <3>4, <3>5 DEF Tried, AnyAnswer
  <2> QED
    BY <2>1, <2>2, <2>3, <2>4 DEF KnownPages
<1>3. CASE id \notin Listed
  <2>1. k.command = "open"
    BY <1>3 DEF Read, Readable
  <2>2. k.answer = NoAnswer
    BY <1>0, <2>1 DEF KnownWork
  <2>3. g = [shows |-> id, packet |-> NoPacket, answer |-> NoAnswer]
    BY <1>3, <2>2 DEF Page
  <2>4. NoPacket \in KnownPackets /\ NoPacket \in AnyPacket
    BY DEF KnownPackets, AnyPacket, NoPacket, Controls
  <2>5. g \in AnyPage
    BY <1>0, <2>2, <2>3, <2>4 DEF AnyPage
  <2>6. Follows(g) /\ OnlyIfRejected(g)
    BY <2>3 DEF Follows, OnlyIfRejected, NoAnswer
  <2> QED
    BY <2>3, <2>4, <2>5, <2>6 DEF KnownPages
<1> QED
  BY <1>2, <1>3

-----------------------------------------------------------------------------
(* Each step leaves a tab that holds what is known. *)

LEMMA BlankKnown ==
  /\ NoPacket \in KnownPackets /\ NoPacket \in AnyPacket
  /\ NoAnswer \in KnownAnswers /\ NoAnswer \in AnyAnswer
  /\ Blank \in KnownPages /\ Blank \in AnyPage
  /\ Resting \in KnownWork
<1>1. NoPacket \in KnownPackets /\ NoPacket \in AnyPacket
  BY DEF KnownPackets, AnyPacket, NoPacket, Controls
<1>2. NoAnswer \in KnownAnswers /\ NoAnswer \in AnyAnswer
  BY DEF KnownAnswers, AnyAnswer, NoAnswer
<1>3. Blank \in AnyPage
  BY <1>1, <1>2 DEF AnyPage, Blank
<1>4. Blank \in KnownPages
  BY <1>1, <1>3 DEF KnownPages, Blank, Follows, OnlyIfRejected, NoAnswer
<1>5. Resting \in Work
  BY <1>1, <1>2, <1>3 DEF Work, Resting
<1>6. None \in KnownIds
  BY DEF KnownIds
<1> QED
  BY <1>1, <1>2, <1>3, <1>4, <1>5, <1>6 DEF KnownWork, Resting

LEMMA ClickKnown ==
  ASSUME NEW t \in Task, NEW id \in KnownIds, NEW p \in KnownPackets,
         NEW command \in {"open", "status", "approve", "reject", "draft", "reconcile"},
         command = "open" <=> p = NoPacket
  PROVE  [Resting EXCEPT !.at = IF command = "open" THEN "answered" ELSE "sent",
                         !.command = command, !.id = id, !.of = p] \in KnownWork
<1> DEFINE at == IF command = "open" THEN "answered" ELSE "sent"
           new == [at |-> at, command |-> command, id |-> id, of |-> p,
                   answer |-> NoAnswer, pane |-> Blank]
<1>0. /\ at \in {"answered", "sent"}
      /\ at = "sent" <=> command # "open"
  OBVIOUS
<1> HIDE DEF at
<1>1. [Resting EXCEPT !.at = at, !.command = command, !.id = id, !.of = p] = new
  <2>1. PICK resting : resting = Resting
    OBVIOUS
  <2>2. resting = [at |-> "idle", command |-> "open", id |-> None, of |-> NoPacket,
                   answer |-> NoAnswer, pane |-> Blank]
    BY <2>1 DEF Resting
  <2>3. PICK half : half = [resting EXCEPT !.at = at, !.command = command]
    OBVIOUS
  <2>4. half = [at |-> at, command |-> command, id |-> None, of |-> NoPacket,
                answer |-> NoAnswer, pane |-> Blank]
    BY <2>2, <2>3
  <2>5. PICK clicked : clicked = [half EXCEPT !.id = id, !.of = p]
    OBVIOUS
  <2>6. clicked = new
    BY <2>4, <2>5
  <2> QED
    BY <2>1, <2>3, <2>5, <2>6
<1>2. id \in Job \cup MessageId \cup {None} /\ p \in AnyPacket
  BY DEF KnownIds, Listed, KnownPackets
<1>3. new \in Work
  BY <1>0, <1>2, BlankKnown DEF Work
<1>4. new \in KnownWork
  BY <1>0, <1>3, BlankKnown DEF KnownWork
<1> QED
  BY <1>1, <1>4 DEF at

\* What a command that is under way becomes when it is answered, or has run.
LEMMA AnswerKnown ==
  ASSUME ScreenInv, RecordInv', [LedgerNext]_ledgerVars,
         NEW t \in Task, task[t].at \in {"sent", "claimed", "ran"},
         NEW n \in KnownAnswers', NEW at \in {"ran", "answered"},
         at = "ran" => n.review \in Review
  PROVE  [task[t] EXCEPT !.at = at, !.of = NoPacket, !.answer = n] \in KnownWork'
<1> DEFINE k == task[t]
           new == [k EXCEPT !.at = at, !.of = NoPacket, !.answer = n]
<1>1. k \in KnownWork' /\ k \in Work
  BY KnownKept DEF ScreenInv, KnownWork
<1>2. n \in AnyAnswer
  BY DEF KnownAnswers
<1>3. new \in Work
  BY <1>1, <1>2, BlankKnown DEF Work
<1>4. NoPacket \in KnownPackets'
  BY BlankKnown, KnownKept DEF ScreenInv
<1>5. /\ new.at = at /\ new.command = k.command /\ new.id = k.id
      /\ new.of = NoPacket /\ new.answer = n /\ new.pane = k.pane
  BY <1>1 DEF Work
<1>6. k.command # "open" /\ k.id \in KnownIds' /\ k.pane \in KnownPages'
  BY <1>1 DEF KnownWork
<1> QED
  BY <1>3, <1>4, <1>5, <1>6 DEF KnownWork

LEMMA AnsweredType ==
  ASSUME ScreenInv, RecordInv', [LedgerNext]_ledgerVars,
         NEW t \in Task, task[t].at \in {"sent", "claimed", "ran"},
         NEW n \in KnownAnswers', Answered(t, n)
  PROVE  task' \in [Task -> KnownWork']
<1>1. task' = [task EXCEPT ![t] =
                 [task[t] EXCEPT !.at = "answered", !.of = NoPacket, !.answer = n]]
  BY DEF Answered, ScreenInv
<1>2. task \in [Task -> KnownWork']
  BY KnownKept DEF ScreenInv
<1> QED
  BY <1>1, <1>2, AnswerKnown

LEMMA EventsKnown ==
  ASSUME RecordInv'
  PROVE  \A j \in Job : /\ LatestEvent(j)'.id \in Nat
                        /\ content'[j] # <<>> =>
                             history'[j][Len(history'[j])].id = LatestEvent(j)'.id
<1>1. LedgerTypeOK' /\ LatestEventsTyped'
  BY LatestEventTypes, PTL DEF RecordInv, ApprovedInv
<1> QED
  BY <1>1 DEF LatestEventsTyped, LatestEvent, LedgerTypeOK

LEMMA AboutFields ==
  ASSUME NEW t, NEW j, NEW r, r = task[t].of.review
  PROVE  About(t, j) =
           [job |-> j, review |-> r, event |-> 0, verdict |-> "none",
            outcome |-> "none", draft |-> "none"]
<1>1. PICK n : n = NoAnswer
  OBVIOUS
<1>2. n = [job |-> None, review |-> <<>>, event |-> 0, verdict |-> "none",
            outcome |-> "none", draft |-> "none"]
  BY <1>1 DEF NoAnswer
<1>3. PICK about : about = [n EXCEPT !.job = j, !.review = r]
  OBVIOUS
<1>4. about = [job |-> j, review |-> r, event |-> 0, verdict |-> "none",
            outcome |-> "none", draft |-> "none"]
  BY <1>2, <1>3
<1> QED
  BY <1>1, <1>3, <1>4 DEF About

LEMMA StatusKnown ==
  ASSUME ScreenInv, RecordInv', [LedgerNext]_ledgerVars,
         NEW t \in Task, task[t].at = "sent", StatusAnswer(t),
         NEW j, j = task[t].id, NEW r, r = task[t].of.review
  PROVE  task' \in [Task -> KnownWork']
<1> DEFINE event == IF j \in Job THEN history'[j][Len(history'[j])].id ELSE 0
           n == [job |-> j, review |-> r, event |-> event, verdict |-> "none",
            outcome |-> "none", draft |-> "none"]
<1>1. task[t] \in KnownWork /\ task[t] \in Work /\ r \in Review
  BY SentPacket DEF KnownWork
<1>2. Answered(t, n)
  <2>1. PICK about : about = About(t, j)
    OBVIOUS
  <2>2. [about EXCEPT !.event = event] = n
    BY <2>1, AboutFields
  <2> QED
    BY <2>1, <2>2 DEF StatusAnswer
<1>3. j \in Job => j \in Listed'
  BY <1>1, KnownKept DEF ScreenInv, KnownWork, KnownIds
<1>4. j \in Job => event = LatestEvent(j)'.id /\ event \in Nat
  BY <1>3, EventsKnown DEF Listed
<1>5. event \in Nat
  BY <1>4
<1>6. n \in AnyAnswer
  BY <1>1, <1>5 DEF AnyAnswer, Work
<1>7. n \in KnownAnswers'
  BY <1>4, <1>6 DEF KnownAnswers
<1> QED
  BY <1>2, <1>7, AnsweredType

LEMMA DecisionKnown ==
  ASSUME ScreenInv, RecordInv', [LedgerNext]_ledgerVars,
         NEW t \in Task, task[t].at = "sent",
         Answered(t, [About(t, task[t].of.review[1])
                        EXCEPT !.verdict = decision'[task[t].of.review].verdict]),
         NEW r, r = task[t].of.review
  PROVE  task' \in [Task -> KnownWork']
<1> DEFINE n == [job |-> r[1], review |-> r, event |-> 0,
                 verdict |-> decision'[r].verdict, outcome |-> "none", draft |-> "none"]
<1>1. r \in Review /\ r[1] \in Job
  BY SentPacket
<1>2. Answered(t, n)
  <2>1. PICK about : about = About(t, r[1])
    OBVIOUS
  <2>2. [about EXCEPT !.verdict = decision'[r].verdict] = n
    BY <2>1, AboutFields
  <2> QED
    BY <2>1, <2>2
<1>3. decision'[r].verdict \in {"none", "approved", "rejected"}
  BY <1>1 DEF RecordInv, ApprovedInv, LedgerTypeOK, Decision
<1>4. n \in AnyAnswer
  BY <1>1, <1>3 DEF AnyAnswer
<1>5. 0 <= LatestEvent(r[1])'.id
  BY <1>1, EventsKnown
<1>6. n \in KnownAnswers'
  BY <1>1, <1>4, <1>5 DEF KnownAnswers
<1> QED
  BY <1>2, <1>6, AnsweredType

LEMMA RanKnown ==
  ASSUME ScreenInv, RecordInv', [LedgerNext]_ledgerVars,
         NEW t \in Task, task[t].at \in {"sent", "claimed"},
         NEW outcome \in {"stopped", "fault", "ACCEPTED", "REFUSED", "PROVIDER_REJECTED", "UNCERTAIN"},
         Ran(t, outcome), NEW r, r = task[t].of.review,
         outcome \in {"UNCERTAIN", "stopped"} => Tried(r)'
  PROVE  task' \in [Task -> KnownWork']
<1> DEFINE n == [job |-> r[1], review |-> r, event |-> 0, verdict |-> "none",
                 outcome |-> outcome, draft |-> "none"]
<1>1. r \in Review /\ r[1] \in Job
  BY SentPacket
<1>2. task' = [task EXCEPT ![t] = [task[t] EXCEPT !.at = "ran", !.of = NoPacket, !.answer = n]]
  <2>1. PICK about : about = About(t, r[1])
    OBVIOUS
  <2>2. [about EXCEPT !.outcome = outcome] = n
    BY <2>1, AboutFields
  <2> QED
    BY <2>1, <2>2 DEF Ran, ScreenInv
<1>3. n \in AnyAnswer
  BY <1>1 DEF AnyAnswer
<1>4. 0 <= LatestEvent(r[1])'.id
  BY <1>1, EventsKnown
<1>5. n \in KnownAnswers'
  BY <1>1, <1>3, <1>4 DEF KnownAnswers
<1>6. task \in [Task -> KnownWork']
  BY KnownKept DEF ScreenInv
<1> QED
  BY <1>1, <1>2, <1>5, <1>6, AnswerKnown

\* The command reserves, or it ran; it leaves an outcome unknown only of what was tried.
LEMMA OutwardKnown ==
  ASSUME ScreenInv, RecordInv', [LedgerNext]_ledgerVars, NEW t \in Task,
         PostDraft(t) \/ SettleDraft(t) \/ PostReconcile(t),
         NEW r, r = task[t].of.review
  PROVE  task' \in [Task -> KnownWork']
<1>0. /\ task[t].at \in {"sent", "claimed"} /\ r \in Review
      /\ task \in [Task -> KnownWork'] /\ task[t] \in KnownWork /\ task[t] \in Work
      /\ intent \in [Review -> Intent] /\ RowStated
      /\ Tried(r) => Tried(r)'
  BY SentPacket, KnownKept, TriedKept
     DEF PostDraft, SettleDraft, PostReconcile, Sent, ScreenInv, KnownWork, RecordInv, ViewsInv,
         ApprovedInv, LedgerTypeOK
<1>1. ASSUME task[t].at = "sent", Claim(r, Target), task' = [task EXCEPT ![t].at = "claimed"]
      PROVE  task' \in [Task -> KnownWork']
  <2> DEFINE new == [task[t] EXCEPT !.at = "claimed"]
  <2>1. Tried(r)'
    BY <1>0, <1>1 DEF Claim, Tried
  <2>2. /\ new \in Work /\ new.at = "claimed" /\ new.command = task[t].command
        /\ new.id = task[t].id /\ new.of = task[t].of /\ new.answer = task[t].answer
        /\ new.pane = task[t].pane
    BY <1>0 DEF Work
  <2>3. new \in KnownWork'
    BY <1>0, <1>1, <2>1, <2>2 DEF KnownWork
  <2>4. task' = [task EXCEPT ![t] = new]
    BY <1>0, <1>1
  <2> QED
    BY <1>0, <2>3, <2>4
<1>2. ASSUME \/ Ran(t, "ACCEPTED") \/ Ran(t, "REFUSED") \/ Ran(t, "PROVIDER_REJECTED")
             \/ Ran(t, "fault")
      PROVE  task' \in [Task -> KnownWork']
  BY <1>0, <1>2, RanKnown
<1>3. ASSUME NEW outcome \in {"UNCERTAIN", "stopped"}, Ran(t, outcome), Tried(r)'
      PROVE  task' \in [Task -> KnownWork']
  BY <1>0, <1>3, RanKnown
<1>4. CASE PostDraft(t)
  <2>1. ASSUME intent[r] # NoIntent
        PROVE  Tried(r)'
    BY <1>0, <2>1 DEF RowStated, Tried
  <2> QED
    BY <1>1, <1>2, <1>3, <1>4, <2>1 DEF PostDraft, Sent, Standing
<1>5. CASE SettleDraft(t)
  <2>1. Tried(r)
    BY <1>0, <1>5 DEF SettleDraft, KnownWork
  <2> QED
    BY <1>0, <1>2, <1>3, <1>5, <2>1 DEF SettleDraft
<1>6. CASE PostReconcile(t)
  <2>1. ASSUME intent[r].state \in {"attempting", "uncertain"}
        PROVE  Tried(r)'
    BY <1>0, <2>1 DEF Tried
  <2> QED
    BY <1>2, <1>3, <1>6, <2>1 DEF PostReconcile
<1> QED
  BY <1>4, <1>5, <1>6

LEMMA ReportKnown ==
  ASSUME ScreenInv, RecordInv', [LedgerNext]_ledgerVars, NEW t \in Task, Report(t),
         NEW r, r = task[t].answer.review
  PROVE  task' \in [Task -> KnownWork']
<1> DEFINE old == task[t].answer
           stopped == IF intent[r].state = "attempting" THEN "REFUSED" ELSE "UNCERTAIN"
           outcome == CASE old.outcome = "stopped" -> stopped
                        [] old.outcome = "fault" -> "UNCERTAIN"
                        [] OTHER -> old.outcome
           n == [old EXCEPT !.outcome = outcome, !.draft = intent[r].state]
<1>1. /\ task[t].at = "ran" /\ task[t] \in KnownWork
      /\ old \in KnownAnswers' /\ old \in AnyAnswer /\ r \in Review
      /\ intent' = intent
  BY KnownKept DEF Report, ScreenInv, KnownWork, KnownAnswers, ledgerVars
<1>2. intent[r].state \in {"none", "attempting", "uncertain", "confirmed"}
  BY <1>1 DEF ScreenInv, RecordInv, ApprovedInv, LedgerTypeOK, Intent
<1>3. /\ n \in AnyAnswer /\ n.job = old.job /\ n.review = r /\ n.event = old.event
      /\ n.verdict = old.verdict /\ n.outcome = outcome /\ n.draft = intent[r].state
  BY <1>1, <1>2 DEF AnyAnswer
<1>4. outcome \in {"UNCERTAIN", "stopped"} => Tried(r)'
  <2>1. CASE old.outcome \in {"UNCERTAIN", "stopped"}
    BY <1>1, <2>1 DEF KnownAnswers
  <2>2. CASE old.outcome = "fault"
    <3>1. intent[r] # NoIntent
      BY <2>2, <1>1 DEF Report, Thrown
    <3>2. intent[r].state # "none"
      BY <1>1, <3>1 DEF ScreenInv, RecordInv, ViewsInv, RowStated
    <3> QED
      BY <1>1, <3>2 DEF Tried
  <2>3. CASE old.outcome \notin {"UNCERTAIN", "stopped", "fault"}
    BY <2>3
  <2> QED
    BY <2>1, <2>2, <2>3
<1>5. n \in KnownAnswers'
  BY <1>1, <1>3, <1>4 DEF KnownAnswers
<1>6. Answered(t, n)
  BY DEF Report
<1> QED
  BY <1>1, <1>5, <1>6, AnsweredType

\* The tab after a step: what it held and did not change it still may hold.
LEMMA TabStep ==
  ASSUME ScreenInv, RecordInv', [LedgerNext]_ledgerVars, [Next]_screenVars
  PROVE  /\ selected' \in KnownIds'
         /\ detail' \in KnownPages'
         /\ task' \in [Task -> KnownWork']
         /\ clicks' \in 0..MaxClick
<1>0. /\ selected \in KnownIds' /\ detail \in KnownPages' /\ task \in [Task -> KnownWork']
      /\ task \in [Task -> KnownWork] /\ clicks \in 0..MaxClick
      /\ KnownIds \subseteq KnownIds' /\ KnownPages \subseteq KnownPages'
      /\ KnownWork \subseteq KnownWork'
  BY KnownKept DEF ScreenInv
<1>1. ASSUME UNCHANGED tabVars
      PROVE  /\ selected' \in KnownIds' /\ detail' \in KnownPages'
             /\ task' \in [Task -> KnownWork'] /\ clicks' \in 0..MaxClick
  BY <1>0, <1>1 DEF tabVars
<1>2. ASSUME NEW t \in Task, NEW id \in Job \cup MessageId, Open(t, id)
      PROVE  /\ selected' \in KnownIds' /\ detail' \in KnownPages'
             /\ task' \in [Task -> KnownWork'] /\ clicks' \in 0..MaxClick
  <2>1. id \in KnownIds
    BY <1>2 DEF Open, KnownIds, Communications, ScreenInv, RecordInv, ApprovedInv, LedgerTypeOK
  <2>2. \E new \in KnownWork : task' = [task EXCEPT ![t] = new]
    BY <1>2, <2>1, ClickKnown, BlankKnown DEF Open, Click
  <2>3. selected' = id /\ detail' = detail /\ clicks < MaxClick /\ clicks' = clicks + 1
    BY <1>2 DEF Open, Click
  <2> QED
    BY <1>0, <2>1, <2>2, <2>3
<1>3. ASSUME NEW t \in Task, NEW command \in {"status", "approve", "reject", "draft", "reconcile"},
             Press(t, command)
      PROVE  /\ selected' \in KnownIds' /\ detail' \in KnownPages'
             /\ task' \in [Task -> KnownWork'] /\ clicks' \in 0..MaxClick
  <2>1. detail.packet \in KnownPackets /\ selected \in KnownIds
    BY DEF ScreenInv, KnownPages
  <2>2. \E new \in KnownWork : task' = [task EXCEPT ![t] = new]
    BY <1>3, <2>1, ClickKnown DEF Press, Click
  <2>3. selected' = selected /\ detail' = detail /\ clicks < MaxClick /\ clicks' = clicks + 1
    BY <1>3 DEF Press, Click
  <2> QED
    BY <1>0, <2>2, <2>3
<1>4. CASE ShowApprovals
  <2>1. None \in KnownIds
    BY DEF KnownIds
  <2> QED
    BY <1>0, <1>4, <2>1 DEF ShowApprovals
<1>5. ASSUME NEW t \in Task, NEW s \in Status, PostStatus(t, s)
      PROVE  /\ selected' \in KnownIds' /\ detail' \in KnownPages'
             /\ task' \in [Task -> KnownWork'] /\ clicks' \in 0..MaxClick
  BY <1>0, <1>5, StatusKnown DEF PostStatus, Sent
<1>6. ASSUME NEW t \in Task, PostDecision(t)
      PROVE  /\ selected' \in KnownIds' /\ detail' \in KnownPages'
             /\ task' \in [Task -> KnownWork'] /\ clicks' \in 0..MaxClick
  BY <1>0, <1>6, DecisionKnown DEF PostDecision, Sent
<1>7. ASSUME NEW t \in Task,
             PostDraft(t) \/ SettleDraft(t) \/ PostReconcile(t) \/ Report(t)
      PROVE  /\ selected' \in KnownIds' /\ detail' \in KnownPages'
             /\ task' \in [Task -> KnownWork'] /\ clicks' \in 0..MaxClick
  <2>1. selected' = selected /\ detail' = detail /\ clicks' = clicks
    BY <1>7 DEF PostDraft, SettleDraft, PostReconcile, Report, Sent
  <2> QED
    BY <1>0, <1>7, <2>1, OutwardKnown, ReportKnown
<1>8. ASSUME NEW t \in Task, Read(t)
      PROVE  /\ selected' \in KnownIds' /\ detail' \in KnownPages'
             /\ task' \in [Task -> KnownWork'] /\ clicks' \in 0..MaxClick
  <2> DEFINE g == Page(t)
             new == [Resting EXCEPT !.at = "read", !.pane = g]
  <2>1. g \in KnownPages /\ g \in AnyPage
    BY <1>8, PageRead DEF KnownPages
  <2> HIDE DEF g
  <2>2. Resting \in Work /\ Resting \in KnownWork
    BY BlankKnown DEF KnownWork
  <2>3. new \in Work
    BY <2>1, <2>2 DEF Work
  <2>4. /\ new.at = "read" /\ new.command = Resting.command /\ new.id = Resting.id
        /\ new.of = Resting.of /\ new.answer = Resting.answer /\ new.pane = g
    BY <2>2 DEF Work
  <2>5. Resting.at = "idle"
    BY DEF Resting
  <2>6. new \in KnownWork
    BY <2>1, <2>2, <2>3, <2>4, <2>5 DEF KnownWork
  <2>7. task' = [task EXCEPT ![t] = new]
    BY <1>0, <1>8 DEF Read, g
  <2> QED
    BY <1>0, <1>8, <2>6, <2>7 DEF Read
<1>9. ASSUME NEW t \in Task, Show(t) \/ Fail(t)
      PROVE  /\ selected' \in KnownIds' /\ detail' \in KnownPages'
             /\ task' \in [Task -> KnownWork'] /\ clicks' \in 0..MaxClick
  <2>1. task[t].pane \in KnownPages
    BY <1>0 DEF KnownWork
  <2> QED
    BY <1>0, <1>9, <2>1, BlankKnown DEF Show, Fail
<1> QED
  BY <1>1, <1>2, <1>3, <1>4, <1>5, <1>6, <1>7, <1>8, <1>9
     DEF Next, Arrive, StatusElsewhere, screenVars

LEMMA ScreenInit == Init => ScreenInv
<1> SUFFICES ASSUME Init
             PROVE  ScreenInv
  OBVIOUS
<1>1. RecordInv
  BY RecordInit DEF Init
<1>2. None \in KnownIds
  BY DEF KnownIds
<1> QED
  BY <1>1, <1>2, BlankKnown DEF Init, ScreenInv

LEMMA ScreenStep == ScreenInv /\ [Next]_screenVars => ScreenInv'
<1> SUFFICES ASSUME ScreenInv, [Next]_screenVars
             PROVE  ScreenInv'
  OBVIOUS
<1>1. [LedgerNext]_ledgerVars
  BY ScreenLedgerStep
<1>2. RecordInv'
  BY <1>1, RecordStep DEF ScreenInv
<1> QED
  BY <1>1, <1>2, TabStep DEF ScreenInv

-----------------------------------------------------------------------------
(* What the operator is shown and what is sent for it. *)

LEMMA ScreenHolds == Spec => []ScreenInv
  BY ScreenInit, ScreenStep, PTL DEF Spec

\* A tab changes the record only by the transactions of data/repository.py, so whatever is
\* proved of LedgerSpec holds with any number of them open.
THEOREM ScreenUsesLedger == Spec => LedgerSpec
<1>1. Init => LedgerInit
  BY DEF Init
<1> QED
  BY <1>1, ScreenLedgerStep, ScreenHolds, PTL DEF Spec, LedgerSpec

\* The page and every click in progress keep their types, and exactly those whose command is
\* on its way hold a packet.
THEOREM ScreenTypes == Spec => []ScreenTypeOK
<1>1. ScreenInv => ScreenTypeOK
  <2> SUFFICES ASSUME ScreenInv
               PROVE  ScreenTypeOK
    OBVIOUS
  <2>1. selected \in Job \cup MessageId \cup {None} /\ detail \in AnyPage
    BY DEF ScreenInv, KnownIds, Listed, KnownPages
  <2>2. task \in [Task -> Work]
    BY DEF ScreenInv, KnownWork
  <2>3. ASSUME NEW t \in Task
        PROVE  task[t].at \in {"sent", "claimed"} <=> task[t].of.review # <<>>
    <3>1. task[t].of \in KnownPackets
          /\ (task[t].at \in {"sent", "claimed"} <=> task[t].of # NoPacket)
      BY DEF ScreenInv, KnownWork
    <3>2. <<>> \notin Review
      BY DEF Review
    <3>3. task[t].of # NoPacket => task[t].of.review # <<>>
      BY <3>1, <3>2 DEF KnownPackets
    <3>4. NoPacket.review = <<>>
      BY DEF NoPacket
    <3> QED
      BY <3>1, <3>3, <3>4
  <2> QED
    BY <2>1, <2>2, <2>3 DEF ScreenInv, ScreenTypeOK, Work
<1> QED
  BY <1>1, ScreenHolds, PTL

\* A page that reports a command on its own opportunity is no older than what the command
\* found or made (decide() and outward() of app.js read again before they show), in whatever
\* order the answers of other clicks arrive.
THEOREM PagesFollowAnswers == Spec => []PageFollowsAnswer
<1>1. ScreenInv => PageFollowsAnswer
  BY DEF ScreenInv, KnownPages, Follows, PageFollowsAnswer
<1> QED
  BY <1>1, ScreenHolds, PTL

\* A page that reports an unknown outcome (outwardAction() of screens.js beside attemptReport())
\* offers that review a draft or a decision only with proof, in the record, that the provider
\* created nothing, whatever else was clicked and whatever was answered late.
THEOREM AgainOnlyOnProof == Spec => []AgainOnlyIfRejected
<1>1. ScreenInv => AgainOnlyIfRejected
  BY DEF ScreenInv, KnownPages, OnlyIfRejected, AgainOnlyIfRejected
<1> QED
  BY <1>1, ScreenHolds, PTL

\* The command of one click that records a status event.
LEMMA StatusLands ==
  ASSUME ScreenInv, [Next]_screenVars, NEW t \in Task,
         task[t].command = "status", task[t].at = "sent", lastEvent' # lastEvent,
         task'[t].at = "answered"
  PROVE  LET j == task[t].of.review[1] IN
           /\ Len(history'[j]) = Len(history[j]) + 1
           /\ history[j][Len(history[j])].id = task[t].of.bound.event
<1> DEFINE i == task[t].id
           j == task[t].of.review[1]
           expected == task[t].of.bound.event
<1>0. /\ LedgerTypeOK /\ EventIdsIdentify /\ task \in [Task -> KnownWork]
      /\ j \in Job /\ expected \in Nat
      /\ \E k \in DOMAIN history[j] : history[j][k].id = expected
  BY SentPacket DEF ScreenInv, RecordInv, EventIdsInv
<1>1. PICK s \in Status : PostStatus(t, s)
  <2>1. ASSUME NEW u \in Task, u # t,
               \/ \E s \in Status : PostStatus(u, s)
               \/ PostDecision(u)
               \/ PostDraft(u) \/ SettleDraft(u) \/ PostReconcile(u) \/ Report(u)
        PROVE  FALSE
    <3>1. task'[t] = task[t]
      BY <1>0, <2>1 DEF PostStatus, PostDecision, PostDraft, SettleDraft, PostReconcile,
         Report, StatusAnswer, Ran, Answered
    <3> QED
      BY <3>1
  <2>2. ASSUME PostDecision(t) \/ PostDraft(t) \/ SettleDraft(t) \/ PostReconcile(t) \/ Report(t)
        PROVE  FALSE
    BY <2>2 DEF PostDecision, PostDraft, SettleDraft, PostReconcile, Report, Sent
  <2>3. ASSUME NEW u \in Task,
               \/ \E id \in Job \cup MessageId : Open(u, id)
               \/ \E command : Press(u, command)
               \/ Read(u) \/ Show(u) \/ Fail(u)
        PROVE  FALSE
    BY <2>3 DEF Open, Press, Read, Show, Fail, ledgerVars
  <2>4. ASSUME \/ ShowApprovals \/ UNCHANGED screenVars
               \/ \E m \in MessageId, p \in Payload : Arrive(m, p)
               \/ \E k \in Job, s \in Status : StatusElsewhere(k, s)
        PROVE  FALSE
    BY <2>4 DEF ShowApprovals, Arrive, StatusElsewhere, tabVars, screenVars
  <2> QED
    BY <2>1, <2>2, <2>3, <2>4 DEF Next
<1>2. i \in Listed /\ RecordStatus(i, s, expected)
  BY <1>1 DEF PostStatus, ledgerVars
<1>3. expected = LatestEvent(i).id
  BY <1>0, <1>2 DEF RecordStatus
<1>4. i \in Job /\ history[i] \in Seq(Event) /\ history[i] # <<>>
  BY <1>0, <1>2 DEF Listed, LedgerTypeOK
<1>5. Len(history[i]) \in DOMAIN history[i] /\ history[i][Len(history[i])].id = expected
  BY <1>3, <1>4 DEF LatestEvent
<1>6. i = j
  BY <1>0, <1>4, <1>5 DEF EventIdsIdentify
<1>7. history'[i] = Append(history[i], [id |-> lastEvent + 1, status |-> s])
  BY <1>0, <1>2, <1>4 DEF RecordStatus, LedgerTypeOK
<1>8. Len(history'[i]) = Len(history[i]) + 1
  BY <1>4, <1>7
<1> QED
  BY <1>5, <1>6, <1>8

\* A status sent from a page (setStatus() of app.js posts to what is selected, with the event
\* of what is displayed) is recorded only for the opportunity displayed, as the successor of
\* the event displayed.
THEOREM StatusesLandOnShown == Spec => StatusLandsOnShown
<1>1. ScreenInv /\ [Next]_screenVars =>
        [\A t \in Task :
           task[t].command = "status" /\ task[t].at = "sent" /\ lastEvent' # lastEvent
             /\ task'[t].at = "answered" =>
             LET j == task[t].of.review[1] IN
               /\ Len(history'[j]) = Len(history[j]) + 1
               /\ history[j][Len(history[j])].id = task[t].of.bound.event]_screenVars
  BY StatusLands
<1> QED
  BY <1>1, ScreenHolds, PTL DEF Spec, StatusLandsOnShown
=============================================================================
