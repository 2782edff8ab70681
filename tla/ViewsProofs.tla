---------------------------- MODULE ViewsProofs -----------------------------
(***************************************************************************)
(* Proofs that what an operator is shown agrees with what the write        *)
(* transactions would do, for every record the transactions can make.      *)
(***************************************************************************)
EXTENDS Views, LedgerProofs

USE LedgerAssumption

\* No job has more reviews than there are names for.
ChainBounded == \A j \in Job : Len(content[j]) \in 0..MaxRevision

\* Where the newest provenance row of a job is of a message with a sender, that message is the
\* newest source of the current review.
NewestIsSource ==
  \A j \in Job :
    provenance[j] \in DOMAIN messages /\ messages[provenance[j]].sender # None =>
      SourceOf(CurrentReview(j)) = provenance[j]

\* A decision is of a review there is, with its wording, for some destination.
DecisionGrounded ==
  \A r \in Review : decision[r] # NoDecision =>
    /\ decision[r].verdict \in {"approved", "rejected"}
    /\ r[2] \in 1..Len(content[r[1]])
    /\ decision[r].content = ContentOf(r)
    /\ decision[r].mailbox \in Mailbox

\* A row has a state of its own.
RowStated == \A r \in Review : intent[r].state = "none" => intent[r] = NoIntent

ViewsInv == LedgerTypeOK /\ ChainBounded /\ NewestIsSource /\ DecisionGrounded /\ RowStated

LEMMA ViewsInit == LedgerInit => ViewsInv
<1> SUFFICES ASSUME LedgerInit PROVE ViewsInv
  OBVIOUS
<1>1. LedgerTypeOK
  BY LedgerTypeInit
<1>2. ChainBounded
  BY DEF LedgerInit, ChainBounded, LedgerAssumption
<1>3. NewestIsSource
  BY DEF LedgerInit, NewestIsSource
<1>4. DecisionGrounded /\ RowStated
  BY DEF LedgerInit, DecisionGrounded, RowStated
<1> QED
  BY <1>1, <1>2, <1>3, <1>4 DEF ViewsInv

-----------------------------------------------------------------------------
(* One step. *)

LEMMA ChainStep ==
  ASSUME LedgerTypeOK, ChainBounded, [LedgerNext]_ledgerVars
  PROVE  ChainBounded'
<1>1. CASE content' = content
  BY <1>1 DEF ChainBounded
<1>2. ASSUME NEW m \in MessageId, NEW p \in Payload, Ingest(m, p)
      PROVE  ChainBounded'
  <2> SUFFICES ASSUME NEW j \in Job PROVE Len(content'[j]) \in 0..MaxRevision
    BY DEF ChainBounded
  <2>1. content[j] \in Seq(Content) /\ Len(content[j]) \in 0..MaxRevision
    BY DEF LedgerTypeOK, ChainBounded
  <2>2. CASE j \in Revised(p)
    <3>1. Len(content[j]) < MaxRevision /\ content'[j] = Append(content[j], p.jobs[j])
      BY <1>2, <2>2 DEF Ingest
    <3> QED
      BY <2>1, <3>1 DEF LedgerAssumption
  <2>3. CASE j \notin Revised(p)
    BY <1>2, <2>1, <2>3 DEF Ingest
  <2> QED
    BY <2>2, <2>3
<1>3. content' = content \/ \E m \in MessageId, p \in Payload : Ingest(m, p)
  BY DEF LedgerNext, ledgerVars, RecordStatus, Decide, Claim, Finish, Reject, Refuse
<1> QED
  BY <1>1, <1>2, <1>3

\* The current review of a job that has one.
LEMMA CurrentReviewTypes ==
  ASSUME ChainBounded, NEW j \in Job, content[j] # <<>>, LedgerTypeOK
  PROVE  CurrentReview(j) \in Review /\ Current(CurrentReview(j))
<1>1. content[j] \in Seq(Content) /\ Len(content[j]) \in 0..MaxRevision
  BY DEF LedgerTypeOK, ChainBounded
<1>2. Len(content[j]) # 0
  BY <1>1
<1> QED
  BY <1>1, <1>2 DEF CurrentReview, Review, Current, LedgerAssumption

\* What a message names it addresses; what it does not name keeps its source.
LEMMA IngestAddresses ==
  ASSUME LedgerTypeOK, ChainBounded, ChainBounded', LedgerTypeOK', NewestIsSource,
         NEW m \in MessageId, NEW p \in Payload, Ingest(m, p),
         NEW j \in Job, provenance'[j] \in DOMAIN messages',
         messages'[provenance'[j]].sender # None
  PROVE  SourceOf(CurrentReview(j))' = provenance'[j]
<1>1. /\ content' = [k \in Job |-> IF k \in Revised(p) THEN Append(content[k], p.jobs[k])
                                                       ELSE content[k]]
      /\ sources' = SourcesAfter(m, p)
      /\ provenance' = [k \in Job |-> IF k \in Named(p) THEN m ELSE provenance[k]]
  BY DEF Ingest
<1>2. content[j] \in Seq(Content) /\ None \notin MessageId
  BY DEF LedgerTypeOK, LedgerAssumption
<1>3. /\ DOMAIN messages' = DOMAIN messages \cup {m} /\ messages'[m] = p
      /\ \A x \in DOMAIN messages : messages'[x] = messages[x]
  BY IngestKeeps
<1>4. provenance'[j] # None
  BY <1>2 DEF LedgerTypeOK
<1>5. content'[j] # <<>>
  BY <1>4 DEF LedgerTypeOK
<1> DEFINE r == <<j, Len(content'[j])>>
<1>6. r \in Review
  <2>1. content'[j] \in Seq(Content) /\ Len(content'[j]) \in 0..MaxRevision
    BY DEF LedgerTypeOK, ChainBounded
  <2>2. Len(content'[j]) # 0
    BY <1>5, <2>1
  <2> QED
    BY <2>1, <2>2 DEF Review, LedgerAssumption
<1>7. sources[r] \in Seq(MessageId) /\ r[1] = j /\ r[2] = Len(content'[j])
  BY <1>6 DEF LedgerTypeOK
<1>8. CurrentReview(j)' = r
  BY DEF CurrentReview
<1>9. CASE j \in Named(p)
  <2>1. provenance'[j] = m /\ p.sender # None
    BY <1>1, <1>3, <1>9
  <2>2. Len(content'[j]) = NewestAfter(j, p)
    <3>1. CASE j \in Revised(p)
      <4>1. content'[j] = Append(content[j], p.jobs[j])
        BY <1>1, <3>1
      <4> QED
        BY <1>2, <3>1, <4>1 DEF NewestAfter
    <3>2. CASE j \notin Revised(p)
      BY <1>1, <1>2, <3>2 DEF NewestAfter
    <3> QED
      BY <3>1, <3>2
  <2>3. sources'[r] = Append(sources[r], m)
    BY <1>1, <1>6, <1>7, <1>9, <2>1, <2>2 DEF SourcesAfter
  <2>4. sources'[r] # <<>> /\ sources'[r][Len(sources'[r])] = m
    BY <1>7, <2>3
  <2> QED
    BY <1>8, <2>1, <2>4 DEF SourceOf
<1>10. CASE j \notin Named(p)
  <2>1. provenance'[j] = provenance[j] /\ content'[j] = content[j]
    BY <1>1, <1>10 DEF Revised
  <2>2. sources'[r] = sources[r]
    BY <1>1, <1>6, <1>7, <1>10 DEF SourcesAfter
  <2>3. provenance[j] \in DOMAIN messages
    BY <1>4, <2>1 DEF LedgerTypeOK
  <2>4. SourceOf(CurrentReview(j)) = provenance[j]
    BY <1>3, <2>1, <2>3 DEF NewestIsSource
  <2>5. CurrentReview(j) = r
    BY <2>1 DEF CurrentReview
  <2> QED
    BY <1>8, <2>1, <2>2, <2>4, <2>5 DEF SourceOf
<1> QED
  BY <1>9, <1>10

LEMMA NewestStep ==
  ASSUME LedgerTypeOK, LedgerTypeOK', ChainBounded, ChainBounded', NewestIsSource,
         [LedgerNext]_ledgerVars
  PROVE  NewestIsSource'
<1>1. CASE UNCHANGED <<messages, content, sources, provenance>>
  BY <1>1 DEF NewestIsSource, SourceOf, CurrentReview
<1>2. ASSUME NEW m \in MessageId, NEW p \in Payload, Ingest(m, p)
      PROVE  NewestIsSource'
  BY <1>2, IngestAddresses DEF NewestIsSource
<1>3. \/ UNCHANGED <<messages, content, sources, provenance>>
      \/ \E m \in MessageId, p \in Payload : Ingest(m, p)
  BY DEF LedgerNext, ledgerVars, RecordStatus, Decide, Claim, Finish, Reject, Refuse
<1> QED
  BY <1>1, <1>2, <1>3

LEMMA DecisionStep ==
  ASSUME LedgerTypeOK, DecisionGrounded, [LedgerNext]_ledgerVars
  PROVE  DecisionGrounded'
<1> SUFFICES ASSUME NEW r \in Review, decision'[r] # NoDecision
             PROVE  /\ decision'[r].verdict \in {"approved", "rejected"}
                    /\ r[2] \in 1..Len(content'[r[1]])
                    /\ decision'[r].content = ContentOf(r)'
                    /\ decision'[r].mailbox \in Mailbox
  BY DEF DecisionGrounded
<1>1. CASE decision'[r] = decision[r]
  BY <1>1, ContentKept DEF DecisionGrounded
<1>2. ASSUME NEW approved \in BOOLEAN, NEW mailbox \in Mailbox,
             Decide(r, approved, mailbox, None)
      PROVE  /\ decision'[r].verdict \in {"approved", "rejected"}
             /\ r[2] \in 1..Len(content'[r[1]])
             /\ decision'[r].content = ContentOf(r)'
             /\ decision'[r].mailbox \in Mailbox
  <2>1. /\ decision'[r] = [verdict |-> IF approved THEN "approved" ELSE "rejected",
                           content |-> Facts(r).content, to |-> Facts(r).to,
                           event |-> Facts(r).event, mailbox |-> mailbox]
        /\ Current(r) /\ content' = content
    BY <1>2 DEF Decide, LedgerTypeOK
  <2>2. decision'[r].content = ContentOf(r)'
    BY <2>1 DEF Facts, ContentOf
  <2>3. r[2] \in 1..Len(content'[r[1]])
    BY <2>1 DEF Current, Review, LedgerTypeOK
  <2> QED
    BY <2>1, <2>2, <2>3
<1>3. \/ decision'[r] = decision[r]
      \/ \E approved \in BOOLEAN, mailbox \in Mailbox : Decide(r, approved, mailbox, None)
  <2>1. ASSUME NEW q \in Review \ {r}, NEW approved \in BOOLEAN, NEW mailbox \in Mailbox,
               Decide(q, approved, mailbox, None)
        PROVE  decision'[r] = decision[r]
    BY <2>1 DEF Decide, LedgerTypeOK
  <2>2. \/ decision' = decision
        \/ \E q \in Review, approved \in BOOLEAN, mailbox \in Mailbox :
             Decide(q, approved, mailbox, None)
    BY DEF LedgerNext, ledgerVars, Ingest, RecordStatus, Claim, Finish, Reject, Refuse
  <2> QED
    BY <2>1, <2>2
<1> QED
  BY <1>1, <1>2, <1>3

LEMMA RowStatedStep ==
  ASSUME LedgerTypeOK, RowStated, [LedgerNext]_ledgerVars
  PROVE  RowStated'
<1> SUFFICES ASSUME NEW r \in Review, intent'[r].state = "none"
             PROVE  intent'[r] = NoIntent
  BY DEF RowStated
<1>0. intent \in [Review -> Intent]
  BY DEF LedgerTypeOK
<1>1. CASE intent' = intent
  BY <1>1 DEF RowStated
<1>2. ASSUME NEW q \in Review, NEW mailbox \in Mailbox, Claim(q, mailbox)
      PROVE  intent'[r] = NoIntent
  <2>1. intent' = [intent EXCEPT ![q] =
          [state |-> "attempting", receipt |-> None, event |-> LatestEvent(q[1]).id,
           source |-> SourceOf(q), mailbox |-> mailbox]]
    BY <1>2 DEF Claim
  <2>2. r # q
    BY <1>0, <2>1
  <2> QED
    BY <1>0, <2>1, <2>2 DEF RowStated
<1>3. ASSUME NEW q \in Review, NEW receipt \in Receipt \cup {None}, Finish(q, receipt),
             intent' # intent
      PROVE  intent'[r] = NoIntent
  <2> DEFINE state == IF receipt = None THEN "uncertain" ELSE "confirmed"
  <2>1. intent' = [intent EXCEPT ![q].state = state, ![q].receipt = receipt]
    BY <1>3 DEF Finish
  <2>2. intent[q] \in Intent
    BY <1>0
  <2>3. r = q => intent'[r].state = state
    BY <1>0, <2>1, <2>2 DEF Intent
  <2>4. r # q
    BY <2>3
  <2> QED
    BY <1>0, <2>1, <2>4 DEF RowStated
<1>4. ASSUME NEW q \in Review, Reject(q)
      PROVE  intent'[r] = NoIntent
  <2>1. intent' = [intent EXCEPT ![q] = NoIntent]
    BY <1>4 DEF Reject
  <2> QED
    BY <1>0, <2>1 DEF RowStated
<1>5. \/ intent' = intent
      \/ \E q \in Review, mailbox \in Mailbox : Claim(q, mailbox)
      \/ \E q \in Review, receipt \in Receipt \cup {None} : Finish(q, receipt)
      \/ \E q \in Review : Reject(q)
  BY DEF LedgerNext, ledgerVars, Ingest, RecordStatus, Decide, Refuse
<1> QED
  BY <1>1, <1>2, <1>3, <1>4, <1>5

LEMMA ViewsStep == ViewsInv /\ [LedgerNext]_ledgerVars => ViewsInv'
<1> SUFFICES ASSUME ViewsInv, [LedgerNext]_ledgerVars PROVE ViewsInv'
  OBVIOUS
<1>0. LedgerTypeOK /\ ChainBounded /\ NewestIsSource /\ DecisionGrounded /\ RowStated
  BY DEF ViewsInv
<1>1. LedgerTypeOK' /\ ChainBounded'
  BY <1>0, LedgerTypeStep, ChainStep
<1>2. NewestIsSource'
  BY <1>0, <1>1, NewestStep
<1>3. DecisionGrounded' /\ RowStated'
  BY <1>0, DecisionStep, RowStatedStep
<1> QED
  BY <1>1, <1>2, <1>3 DEF ViewsInv

-----------------------------------------------------------------------------
(* What is shown. *)

\* A message's page names only jobs whose draft would go to the sender of that message
\* (communication() against _addressing() in data/repository.py), for any record.
THEOREM AddressesBound == LedgerSpec => []AddressesAreBound
<1>1. ViewsInv => AddressesAreBound
  BY DEF ViewsInv, NewestIsSource, AddressesAreBound, Communications, Addresses
<1> QED
  BY <1>1, ViewsInit, ViewsStep, PTL DEF LedgerSpec

\* The rules of queue() and approval() against those of claim() and decide(), for one job.
LEMMA QueueOfOneJob ==
  ASSUME ViewsInv, NEW j \in Listed, NEW r, r = CurrentReview(j)
  PROVE  /\ QueueOf(j) = "draft" <=> Draftable(r)
         /\ QueueOf(j) = "decide" => Approvable(r) /\ decision[r] = NoDecision
         /\ QueueOf(j) = "reconcile" <=> intent[r].state \in {"attempting", "uncertain"}
         /\ QueueOf(j) = "created" <=> intent[r].state = "confirmed"
         /\ QueueOf(j) = "stale" => intent[r] = NoIntent /\ Approved(r)
         /\ AdviceOf(j) = "reapprove" <=> QueueOf(j) = "stale"
         /\ AdviceOf(j) = "reconcile" => QueueOf(j) = "reconcile"
<1> DEFINE state == intent[r].state
           verdict == decision[r].verdict
           binds == decision[r] # NoDecision /\ decision[r].to = Addressing(r)
           ended == LatestEvent(j).status \in Terminal
           advances == ContentOf(r) \in Advancing
<1>1. j \in Job /\ r \in Review /\ Current(r) /\ r[1] = j
  BY CurrentReviewTypes DEF ViewsInv, Listed, CurrentReview
<1>2. /\ state \in {"none", "attempting", "uncertain", "confirmed"}
      /\ state = "none" <=> intent[r] = NoIntent
  BY <1>1 DEF ViewsInv, LedgerTypeOK, Intent, RowStated, NoIntent
<1>3. /\ verdict \in {"none", "approved", "rejected"}
      /\ verdict = "none" <=> decision[r] = NoDecision
  BY <1>1 DEF ViewsInv, LedgerTypeOK, Decision, DecisionGrounded, NoDecision
<1>4. decision[r] # NoDecision =>
        decision[r].content = ContentOf(r) /\ decision[r].mailbox \in Mailbox
  BY <1>1 DEF ViewsInv, DecisionGrounded
<1>5. QueueOf(j) =
        IF state \in {"attempting", "uncertain"} THEN "reconcile"
        ELSE IF state = "confirmed" THEN "created"
        ELSE IF verdict = "approved" /\ ~binds THEN "stale"
        ELSE IF verdict = "approved" /\ ~ended THEN "draft"
        ELSE IF advances /\ verdict = "none" /\ ~ended THEN "decide"
        ELSE IF verdict = "rejected" THEN "rejected" ELSE "none"
  BY DEF QueueOf, Queue, Summary, Action, Binds
<1>6. AdviceOf(j) =
        IF verdict # "approved" \/ binds THEN "none"
        ELSE IF ~(state # "none") THEN "reapprove"
        ELSE IF state = "confirmed" THEN "the earlier draft stands" ELSE "reconcile"
  BY DEF AdviceOf, Advice, Action, Binds
<1>7. Draftable(r) <=> state = "none" /\ verdict = "approved" /\ binds /\ ~ended
  BY <1>1, <1>2, <1>3, <1>4 DEF Draftable, Authorized, Approved, Ended
<1>8. Approvable(r) <=> advances /\ ~ended /\ state = "none"
  BY <1>1, <1>2 DEF Approvable, Ended
<1>9. Approved(r) <=> verdict = "approved"
  BY DEF Approved
<1> HIDE DEF state, verdict, binds, ended, advances
<1>10. QueueOf(j) = "draft" <=> Draftable(r)
  BY <1>2, <1>3, <1>5, <1>7
<1>11. QueueOf(j) = "decide" => Approvable(r) /\ decision[r] = NoDecision
  BY <1>2, <1>3, <1>5, <1>8
<1>12. QueueOf(j) = "reconcile" <=> state \in {"attempting", "uncertain"}
  BY <1>5
<1>13. QueueOf(j) = "created" <=> state = "confirmed"
  BY <1>5
<1>14. QueueOf(j) = "stale" => intent[r] = NoIntent /\ Approved(r)
  BY <1>2, <1>5, <1>9
<1>15. AdviceOf(j) = "reapprove" <=> QueueOf(j) = "stale"
  BY <1>2, <1>5, <1>6
<1>16. AdviceOf(j) = "reconcile" => QueueOf(j) = "reconcile"
  BY <1>2, <1>5, <1>6
<1> QED
  BY <1>10, <1>11, <1>12, <1>13, <1>14, <1>15, <1>16 DEF state

\* The queue an opportunity is listed in and the advice beside its approval
\* (system/views.py) are what the write transactions of data/repository.py would do, for any
\* record they can make.
THEOREM QueuesHonest == LedgerSpec => []QueueIsHonest
<1>1. ViewsInv => QueueIsHonest
  BY QueueOfOneJob DEF QueueIsHonest
<1> QED
  BY <1>1, ViewsInit, ViewsStep, PTL DEF LedgerSpec
=============================================================================
