----------------------------- MODULE DeskProofs -----------------------------
(***************************************************************************)
(* Proofs about operators at their pages, for any number of pages, jobs,   *)
(* messages and operators.                                                 *)
(***************************************************************************)
EXTENDS Desk, LedgerProofs

USE DeskAssumption

\* No job has more reviews than Review names.
ChainBounded == \A j \in Job : Len(content[j]) <= MaxRevision

TypesOK == LedgerTypeOK /\ DeskTypeOK /\ ChainBounded

-----------------------------------------------------------------------------
(* Pages use the record only by its transactions. *)

LEMMA BlankType == Blank \in Shown /\ Blank.review = <<>> /\ Blank.at = "closed"
  BY DEF Blank, Shown, Expectation

LEMMA ShownReview ==
  ASSUME DeskTypeOK, NEW p \in Page, page[p].at # "closed"
  PROVE  page[p] \in Shown /\ page[p].review \in Review /\ page[p].review[1] \in Job
  BY DEF DeskTypeOK, Shown, Review

\* An expectation only narrows when a write succeeds.
LEMMA DecideAnyway ==
  ASSUME NEW r, NEW approved, NEW mailbox, NEW e, Decide(r, approved, mailbox, e)
  PROVE  Decide(r, approved, mailbox, None)
  BY DEF Decide

LEMMA RecordAnyway ==
  ASSUME NEW j, NEW s, NEW e, RecordStatus(j, s, e)
  PROVE  RecordStatus(j, s, None)
  BY DEF RecordStatus

LEMMA DeskLedgerStep == DeskTypeOK /\ [Next]_vars => [LedgerNext]_ledgerVars
<1> SUFFICES ASSUME DeskTypeOK, [Next]_vars
             PROVE  [LedgerNext]_ledgerVars
  OBVIOUS
<1>1. CASE UNCHANGED vars
  BY <1>1 DEF vars
<1>2. ASSUME NEW p \in Page, NEW at, Reading(p, at)
      PROVE  UNCHANGED ledgerVars
  BY <1>2 DEF Reading
<1>3. ASSUME NEW p \in Page, Dismiss(p)
      PROVE  UNCHANGED ledgerVars
  BY <1>3 DEF Dismiss
<1>4. ASSUME NEW p \in Page, Approve(p) \/ Deny(p)
      PROVE  LedgerNext
  <2>1. page[p].review \in Review
    BY <1>4, ShownReview DEF Approve, Deny, Close
  <2>2. \E approved \in BOOLEAN : Decide(page[p].review, approved, Target, None)
    BY <1>4, DecideAnyway DEF Approve, Deny
  <2> QED
    BY <2>1, <2>2 DEF LedgerNext
<1>5. ASSUME NEW p \in Page, NEW s \in Status, SetStatus(p, s)
      PROVE  LedgerNext
  <2>1. page[p].review[1] \in Job
    BY <1>5, ShownReview DEF SetStatus, Close
  <2>2. RecordStatus(page[p].review[1], s, None)
    BY <1>5, RecordAnyway DEF SetStatus
  <2> QED
    BY <2>1, <2>2 DEF LedgerNext
<1>6. ASSUME NEW r \in Review, NEW approved \in BOOLEAN, NEW mailbox \in Mailbox,
             DecideUnread(r, approved, mailbox)
      PROVE  LedgerNext
  BY <1>6 DEF DecideUnread, LedgerNext
<1>7. ASSUME NEW j \in Job, NEW s \in Status, StatusElsewhere(j, s)
      PROVE  LedgerNext
  <2>1. RecordStatus(j, s, None)
    BY <1>7, RecordAnyway DEF StatusElsewhere
  <2> QED
    BY <2>1 DEF LedgerNext
<1>8. ASSUME NEW m \in MessageId, NEW p \in Payload, Arrive(m, p)
      PROVE  LedgerNext
  BY <1>8 DEF Arrive, LedgerNext
<1>9. ASSUME Attempt
      PROVE  LedgerNext
  BY <1>9 DEF Attempt, LedgerNext
<1> QED
  BY <1>1, <1>2, <1>3, <1>4, <1>5, <1>6, <1>7, <1>8, <1>9
     DEF Next, Open, ReadHistory, ReadBound, ReadAddress

-----------------------------------------------------------------------------
(* Types. *)

LEMMA ChainStep ==
  ASSUME TypesOK, [LedgerNext]_ledgerVars
  PROVE  ChainBounded'
<1>1. CASE content' = content
  BY <1>1 DEF TypesOK, ChainBounded
<1>2. ASSUME NEW m \in MessageId, NEW p \in Payload, Ingest(m, p), NEW j \in Job
      PROVE  Len(content'[j]) <= MaxRevision
  <2>1. content[j] \in Seq(Content) /\ Len(content[j]) <= MaxRevision
    BY DEF TypesOK, LedgerTypeOK, ChainBounded
  <2>2. CASE j \in Revised(p)
    <3>1. content'[j] = Append(content[j], p.jobs[j]) /\ Len(content[j]) < MaxRevision
      BY <1>2, <2>2 DEF Ingest
    <3>2. p.jobs[j] \in Content
      BY <2>2 DEF Revised, Named, Payload
    <3>3. Len(content'[j]) = Len(content[j]) + 1 /\ Len(content[j]) \in Nat
      BY <2>1, <3>1, <3>2
    <3> QED
      BY <3>1, <3>3, LedgerAssumption
  <2>3. CASE j \notin Revised(p)
    BY <1>2, <2>1, <2>3 DEF Ingest
  <2> QED
    BY <2>2, <2>3
<1>3. content' = content \/ \E m \in MessageId, p \in Payload : Ingest(m, p)
  BY DEF LedgerNext, ledgerVars, RecordStatus, Decide, Claim, Finish, Reject, Refuse
<1> QED
  BY <1>1, <1>2, <1>3 DEF ChainBounded

\* What a page holds after each statement of its read has its type.
LEMMA ReadType ==
  ASSUME TypesOK, NEW p \in Page,
         \/ \E j \in Job : Open(p, j)
         \/ ReadHistory(p) \/ ReadBound(p) \/ ReadAddress(p)
  PROVE  \E new \in Shown :
           /\ page' = [page EXCEPT ![p] = new]
           /\ new.at = "closed" <=> new.review = <<>>
<1>1. page[p] \in Shown /\ (page[p].at = "closed" <=> page[p].review = <<>>)
  BY DEF TypesOK, DeskTypeOK
<1>2. ASSUME NEW j \in Job, Open(p, j)
      PROVE  \E new \in Shown :
               /\ page' = [page EXCEPT ![p] = new]
               /\ new.at = "closed" <=> new.review = <<>>
  <2> DEFINE r   == <<j, Len(content[j])>>
             new == [at |-> "history", review |-> r,
                     content |-> content[j][Len(content[j])], event |-> LatestEvent(j).id,
                     listed |-> 0, bound |-> Blank.bound]
  <2>1. content[j] \in Seq(Content) /\ content[j] # <<>> /\ Len(content[j]) <= MaxRevision
    BY <1>2 DEF Open, TypesOK, LedgerTypeOK, ChainBounded
  <2>2. Len(content[j]) \in 1..MaxRevision /\ content[j][Len(content[j])] \in Content
    BY <2>1, LedgerAssumption
  <2>3. r \in Review /\ r # <<>>
    BY <2>2 DEF Review
  <2>4. Blank.bound \in Expectation
    BY DEF Blank, Expectation
  <2>5. LatestEvent(j).id \in Nat
    BY LatestEventType DEF TypesOK
  <2>6. new \in Shown /\ new.at # "closed" /\ new.review # <<>>
    BY <2>2, <2>3, <2>4, <2>5 DEF Shown
  <2>7. page' = [page EXCEPT ![p] = new]
    BY <1>2 DEF Open
  <2> QED
    BY <2>6, <2>7
<1>3. ASSUME page[p].at # "closed"
      PROVE  /\ page[p].review \in Review /\ page[p].review[1] \in Job
             /\ LatestEvent(page[p].review[1]).id \in Nat
  BY <1>3, ShownReview, LatestEventType DEF TypesOK
<1>4. CASE ReadHistory(p)
  <2> DEFINE new == [page[p] EXCEPT !.at = "binding",
                                    !.listed = LatestEvent(page[p].review[1]).id]
  <2>1. page' = [page EXCEPT ![p] = new] /\ page[p].at = "history"
    BY <1>4 DEF ReadHistory, Reading, TypesOK, DeskTypeOK
  <2>2. new \in Shown /\ new.at = "binding" /\ new.review = page[p].review
    BY <1>1, <1>3, <2>1 DEF Shown
  <2> QED
    BY <1>1, <2>1, <2>2
<1>5. CASE ReadBound(p)
  <2> DEFINE r   == page[p].review
             bound == [content |-> ContentOf(r), to |-> None, event |-> LatestEvent(r[1]).id]
             new == [page[p] EXCEPT !.at = "addressing", !.bound = bound]
  <2>1. page' = [page EXCEPT ![p] = IF Current(r) THEN new ELSE Blank]
        /\ page[p].at = "binding"
    BY <1>5 DEF ReadBound, Reading
  <2>2. CASE Current(r)
    <3>1. ContentOf(r) \in Content
      BY <1>3, <2>1, <2>2, ReadTypes DEF TypesOK
    <3>2. bound \in Expectation
      BY <1>3, <2>1, <3>1 DEF Expectation
    <3>3. new \in Shown /\ new.at = "addressing" /\ new.review = page[p].review
      BY <1>1, <3>2 DEF Shown
    <3> QED
      BY <1>1, <2>1, <2>2, <3>3
  <2>3. CASE ~Current(r)
    BY <2>1, <2>3, BlankType
  <2> QED
    BY <2>2, <2>3
<1>6. CASE ReadAddress(p)
  <2> DEFINE to == Addressing(page[p].review)
             bound == [page[p].bound EXCEPT !.to = to]
             new == [page[p] EXCEPT !.at = "shown", !.bound = bound]
  <2>1. page' = [page EXCEPT ![p] = new] /\ page[p].at = "addressing"
    BY <1>1, <1>6 DEF ReadAddress, Reading, TypesOK, DeskTypeOK, Shown, Expectation
  <2>2. to \in Sender \cup {None}
    BY <1>3, <2>1, ReadTypes DEF TypesOK
  <2>3. page[p].bound \in Expectation
    BY <1>1 DEF Shown
  <2>4. bound \in Expectation
    BY <2>2, <2>3 DEF Expectation
  <2>5. new \in Shown /\ new.at = "shown" /\ new.review = page[p].review
    BY <1>1, <2>4 DEF Shown
  <2> QED
    BY <1>1, <2>1, <2>5
<1> QED
  BY <1>2, <1>4, <1>5, <1>6

LEMMA CloseType ==
  ASSUME DeskTypeOK, NEW p \in Page, Close(p)
  PROVE  /\ page' \in [Page -> Shown]
         /\ \A q \in Page : page'[q].at = "closed" <=> page'[q].review = <<>>
  BY BlankType DEF DeskTypeOK, Close

LEMMA DeskTypeStep == TypesOK /\ [Next]_vars => DeskTypeOK'
<1> SUFFICES ASSUME TypesOK, [Next]_vars
             PROVE  DeskTypeOK'
  OBVIOUS
<1>0. DeskTypeOK
  BY DEF TypesOK
<1>1. ASSUME NEW p \in Page,
             \/ \E j \in Job : Open(p, j)
             \/ ReadHistory(p) \/ ReadBound(p) \/ ReadAddress(p)
      PROVE  DeskTypeOK'
  <2>1. PICK new \in Shown : /\ page' = [page EXCEPT ![p] = new]
                             /\ new.at = "closed" <=> new.review = <<>>
    BY <1>1, ReadType
  <2>2. told' = told
    BY <1>1 DEF Open, ReadHistory, ReadBound, ReadAddress, Reading
  <2> QED
    BY <1>0, <2>1, <2>2 DEF DeskTypeOK
<1>2. ASSUME NEW p \in Page, Approve(p) \/ Deny(p)
      PROVE  DeskTypeOK'
  <2>1. page[p] \in Shown /\ Close(p)
    BY <1>0, <1>2 DEF DeskTypeOK, Approve, Deny
  <2>2. \E new \in Shown : told' = [told EXCEPT ![page[p].review] = new]
    BY <1>2, <2>1, BlankType DEF Approve, Deny
  <2> QED
    BY <1>0, <2>1, <2>2, CloseType DEF DeskTypeOK
<1>3. ASSUME NEW p \in Page, Dismiss(p) \/ \E s \in Status : SetStatus(p, s)
      PROVE  DeskTypeOK'
  <2>1. Close(p) /\ told' = told
    BY <1>3 DEF Dismiss, SetStatus
  <2> QED
    BY <1>0, <2>1, CloseType DEF DeskTypeOK
<1>4. ASSUME NEW r \in Review, NEW approved \in BOOLEAN, NEW mailbox \in Mailbox,
             DecideUnread(r, approved, mailbox)
      PROVE  DeskTypeOK'
  BY <1>0, <1>4, BlankType DEF DecideUnread, DeskTypeOK
<1>5. ASSUME UNCHANGED deskVars
      PROVE  DeskTypeOK'
  BY <1>0, <1>5 DEF deskVars, DeskTypeOK
<1> QED
  BY <1>1, <1>2, <1>3, <1>4, <1>5 DEF Next, vars, StatusElsewhere, Arrive, Attempt

LEMMA TypesInit == Init => TypesOK
<1> SUFFICES ASSUME Init
             PROVE  TypesOK
  OBVIOUS
<1>1. LedgerTypeOK
  BY LedgerTypeInit DEF Init
<1>2. DeskTypeOK
  BY BlankType DEF Init, DeskTypeOK
<1>3. ChainBounded
  BY LedgerAssumption DEF Init, LedgerInit, ChainBounded
<1> QED
  BY <1>1, <1>2, <1>3 DEF TypesOK

LEMMA TypesStep == TypesOK /\ [Next]_vars => TypesOK'
<1> SUFFICES ASSUME TypesOK, [Next]_vars
             PROVE  TypesOK'
  OBVIOUS
<1>1. [LedgerNext]_ledgerVars
  BY DeskLedgerStep DEF TypesOK
<1>2. LedgerTypeOK'
  BY <1>1, LedgerTypeStep DEF TypesOK
<1> QED
  BY <1>1, <1>2, DeskTypeStep, ChainStep DEF TypesOK

\* Pages and the approvals given on them keep their types, for any number of operators.
THEOREM DeskTypes == Spec => []DeskTypeOK
<1>1. TypesOK => DeskTypeOK
  BY DEF TypesOK
<1> QED
  BY <1>1, TypesInit, TypesStep, PTL DEF Spec

\* Operators change the record only by its transactions, so whatever is proved of LedgerSpec
\* holds under them.
THEOREM DeskUsesLedger == Spec => LedgerSpec
<1>1. Init => LedgerInit
  BY DEF Init
<1>2. TypesOK /\ [Next]_vars => [LedgerNext]_ledgerVars
  BY DeskLedgerStep DEF TypesOK
<1> QED
  BY <1>1, <1>2, TypesInit, TypesStep, PTL DEF Spec, LedgerSpec

-----------------------------------------------------------------------------
(* What was shown is what was approved. *)

\* A page holds the wording of the review it names, and no status event yet to come.
PageOK(p) ==
  page[p].at # "closed" =>
    LET r == page[p].review IN
      /\ r[2] \in 1..Len(content[r[1]])
      /\ page[p].content = ContentOf(r)
      /\ page[p].event <= LatestEvent(r[1]).id
      /\ page[p].listed <= LatestEvent(r[1]).id

PagesOK == \A p \in Page : PageOK(p)

\* What ApprovalWasShown says of one review.
ToldOK(r) ==
  told[r] # Blank =>
    /\ Approved(r)
    /\ told[r].review = r
    /\ decision[r].content = told[r].content
    /\ decision[r].to = told[r].bound.to
    /\ decision[r].mailbox = Target
    /\ decision[r].event >= told[r].event /\ decision[r].event >= told[r].listed

DeskInv == TypesOK /\ ApprovedInv /\ PagesOK /\ ApprovalWasShown

\* What a page holds stays true of the record while others write.
LEMMA PageKept ==
  ASSUME DeskInv, [LedgerNext]_ledgerVars, NEW p \in Page, page'[p] = page[p]
  PROVE  PageOK(p)'
<1> SUFFICES ASSUME page[p].at # "closed"
             PROVE  PageOK(p)'
  BY DEF PageOK
<1> DEFINE r == page[p].review
<1>1. page[p] \in Shown /\ r \in Review /\ r[1] \in Job
  BY ShownReview DEF DeskInv, TypesOK
<1>2. /\ r[2] \in 1..Len(content[r[1]]) /\ page[p].content = ContentOf(r)
      /\ page[p].event <= LatestEvent(r[1]).id /\ page[p].listed <= LatestEvent(r[1]).id
  BY DEF DeskInv, PagesOK, PageOK
<1>3. r[2] \in 1..Len(content'[r[1]]) /\ ContentOf(r)' = ContentOf(r)
  BY <1>1, <1>2, ContentKept DEF DeskInv, TypesOK
<1>4. LatestEvent(r[1]).id <= LatestEvent(r[1])'.id
  BY <1>1, LatestEventGrows DEF DeskInv, ApprovedInv
<1>5. LatestEvent(r[1]).id \in Nat /\ LatestEvent(r[1])'.id \in Nat
  <2>1. LedgerTypeOK'
    BY LedgerTypeStep DEF DeskInv, TypesOK
  <2>2. LatestEventsTyped /\ LatestEventsTyped'
    BY <2>1, LatestEventTypes, PTL DEF DeskInv, TypesOK
  <2> QED
    BY <1>1, <2>2 DEF LatestEventsTyped
<1>6. page[p].event \in Nat /\ page[p].listed \in Nat
  BY <1>1 DEF Shown
<1>7. /\ page[p].event <= LatestEvent(r[1])'.id
      /\ page[p].listed <= LatestEvent(r[1])'.id
  BY <1>2, <1>4, <1>5, <1>6
<1> QED
  BY <1>2, <1>3, <1>7 DEF PageOK, ContentOf, LatestEvent

\* Each statement of a read leaves the page as true as it found it.
LEMMA ReadKeepsPage ==
  ASSUME DeskInv, NEW p \in Page,
         \/ \E j \in Job : Open(p, j)
         \/ ReadHistory(p) \/ ReadBound(p) \/ ReadAddress(p)
  PROVE  PagesOK'
<1>1. UNCHANGED ledgerVars
  BY DEF Open, ReadHistory, ReadBound, ReadAddress, Reading
<1>2. page \in [Page -> Shown] /\ LedgerTypeOK /\ PagesOK
  BY DEF DeskInv, TypesOK, DeskTypeOK
<1>3. PICK new \in Shown : page' = [page EXCEPT ![p] = new]
  BY ReadType DEF DeskInv
<1>4. ASSUME NEW q \in Page, q # p
      PROVE  PageOK(q)'
  <2>1. page'[q] = page[q]
    BY <1>2, <1>3, <1>4
  <2> QED
    BY <1>1, <1>2, <2>1 DEF PagesOK, PageOK, ContentOf, LatestEvent, ledgerVars
<1>5. PageOK(p)'
  <2> DEFINE Held(n) ==
               LET r == n.review IN
               /\ r[2] \in 1..Len(content[r[1]])
               /\ n.content = ContentOf(r)
               /\ n.event <= LatestEvent(r[1]).id
               /\ n.listed <= LatestEvent(r[1]).id
  <2>1. page'[p].at = "closed" \/ Held(page'[p]) => PageOK(p)'
    BY <1>1 DEF PageOK, ContentOf, LatestEvent, ledgerVars
  <2>2. page[p].at # "closed" =>
          /\ Held(page[p]) /\ page[p].review[1] \in Job
          /\ LatestEvent(page[p].review[1]).id \in Nat
    BY <1>2, ShownReview, LatestEventType DEF PagesOK, PageOK, DeskInv, TypesOK
  <2>3. ASSUME NEW j \in Job, Open(p, j)
        PROVE  Held(page'[p])
    <3>1. content[j] \in Seq(Content) /\ content[j] # <<>>
      BY <1>2, <2>3 DEF LedgerTypeOK, Open
    <3>2. Len(content[j]) \in 1..Len(content[j])
      BY <3>1
    <3>3. LatestEvent(j).id \in Nat
      BY <1>2, LatestEventType
    <3>4. /\ page'[p].review = <<j, Len(content[j])>>
          /\ page'[p].content = content[j][Len(content[j])]
          /\ page'[p].event = LatestEvent(j).id /\ page'[p].listed = 0
      BY <1>2, <2>3 DEF Open
    <3> QED
      BY <3>2, <3>3, <3>4 DEF ContentOf
  <2>4. ASSUME ReadHistory(p)
        PROVE  page'[p].at = "closed" \/ Held(page'[p])
    <3>1. /\ page[p].at # "closed"
          /\ page'[p].review = page[p].review /\ page'[p].content = page[p].content
          /\ page'[p].event = page[p].event
          /\ page'[p].listed = LatestEvent(page[p].review[1]).id
      BY <1>2, <2>4 DEF ReadHistory, Reading, Shown
    <3> QED
      BY <2>2, <3>1
  <2>5. ASSUME ReadBound(p)
        PROVE  page'[p].at = "closed" \/ Held(page'[p])
    <3>1. /\ page[p].at # "closed"
          /\ \/ page'[p] = Blank
             \/ /\ page'[p].review = page[p].review /\ page'[p].content = page[p].content
                /\ page'[p].event = page[p].event /\ page'[p].listed = page[p].listed
      BY <1>2, <2>5 DEF ReadBound, Reading, Shown
    <3> QED
      BY <2>2, <3>1, BlankType
  <2>6. ASSUME ReadAddress(p)
        PROVE  page'[p].at = "closed" \/ Held(page'[p])
    <3>1. /\ page[p].at # "closed"
          /\ page'[p].review = page[p].review /\ page'[p].content = page[p].content
          /\ page'[p].event = page[p].event /\ page'[p].listed = page[p].listed
      BY <1>2, <2>6 DEF ReadAddress, Reading, Shown
    <3> QED
      BY <2>2, <3>1
  <2> QED
    BY <2>1, <2>3, <2>4, <2>5, <2>6
<1> QED
  BY <1>4, <1>5 DEF PagesOK

\* A page that is left holds nothing, and the others are as they were.
LEMMA CloseKeepsPages ==
  ASSUME DeskInv, [LedgerNext]_ledgerVars, NEW p \in Page, Close(p)
  PROVE  PagesOK'
<1> SUFFICES ASSUME NEW q \in Page
             PROVE  PageOK(q)'
  BY DEF PagesOK
<1>1. page \in [Page -> Shown]
  BY DEF DeskInv, TypesOK, DeskTypeOK
<1>2. CASE q = p
  <2>1. page'[q].at = "closed"
    BY <1>1, <1>2, BlankType DEF Close
  <2> QED
    BY <2>1 DEF PageOK
<1>3. CASE q # p
  BY <1>1, <1>3, PageKept DEF Close
<1> QED
  BY <1>2, <1>3

LEMMA PagesStep == DeskInv /\ [Next]_vars => PagesOK'
<1> SUFFICES ASSUME DeskInv, [Next]_vars
             PROVE  PagesOK'
  OBVIOUS
<1>1. [LedgerNext]_ledgerVars
  BY DeskLedgerStep DEF DeskInv, TypesOK
<1>2. ASSUME page' = page
      PROVE  PagesOK'
  BY <1>1, <1>2, PageKept DEF PagesOK
<1>3. ASSUME NEW p \in Page, Close(p)
      PROVE  PagesOK'
  BY <1>1, <1>3, CloseKeepsPages
<1>4. \/ page' = page
      \/ \E p \in Page : Close(p)
      \/ \E p \in Page : \/ \E j \in Job : Open(p, j)
                        \/ ReadHistory(p) \/ ReadBound(p) \/ ReadAddress(p)
  BY DEF Next, vars, deskVars, Dismiss, Approve, Deny, SetStatus, DecideUnread,
         StatusElsewhere, Arrive, Attempt
<1> QED
  BY <1>2, <1>3, <1>4, ReadKeepsPage

\* The decision an accepted approval leaves is of what its page showed.
LEMMA ApproveTells ==
  ASSUME DeskInv, NEW p \in Page, NEW r \in Review, Approve(p), r = page[p].review
  PROVE  ToldOK(r)'
<1>1. page[p] \in Shown
  BY ShownReview DEF DeskInv, TypesOK, Approve, Close
<1>2. page[p].bound \in Expectation
  BY <1>1 DEF Shown
<1>3. page[p].bound = Facts(r)
  BY <1>2 DEF Approve, Decide
<1>4. /\ page[p].content = ContentOf(r)
      /\ page[p].event <= LatestEvent(r[1]).id /\ page[p].listed <= LatestEvent(r[1]).id
  BY DEF DeskInv, PagesOK, PageOK, Approve, Close
<1>5. told'[r] = page[p]
  BY <1>1 DEF Approve, DeskInv, TypesOK, DeskTypeOK
<1>6. /\ decision'[r].verdict = "approved" /\ decision'[r].mailbox = Target
      /\ decision'[r].content = Facts(r).content /\ decision'[r].to = Facts(r).to
      /\ decision'[r].event = Facts(r).event
  BY <1>1 DEF Approve, Decide, DeskInv, TypesOK, LedgerTypeOK
<1>7. Facts(r).content = ContentOf(r) /\ Facts(r).event = LatestEvent(r[1]).id
  BY DEF Facts
<1>8. page[p].event \in Nat /\ page[p].listed \in Nat /\ LatestEvent(r[1]).id \in Nat
  BY <1>1, LatestEventType DEF Shown, DeskInv, TypesOK, Review
<1>9. decision'[r].event >= page[p].event /\ decision'[r].event >= page[p].listed
  BY <1>4, <1>6, <1>7, <1>8
<1> QED
  BY <1>3, <1>4, <1>5, <1>6, <1>7, <1>9 DEF ToldOK, Approved

LEMMA ToldStep == DeskInv /\ [Next]_vars => ApprovalWasShown'
<1> SUFFICES ASSUME DeskInv, [Next]_vars, NEW r \in Review
             PROVE  ToldOK(r)'
  BY DEF ApprovalWasShown, ToldOK
<1>1. ToldOK(r) /\ told \in [Review -> Shown]
  BY DEF DeskInv, TypesOK, DeskTypeOK, ApprovalWasShown, ToldOK
<1>2. ASSUME decision'[r] = decision[r], told'[r] = told[r]
      PROVE  ToldOK(r)'
  BY <1>1, <1>2 DEF ToldOK, Approved
<1>3. ASSUME told'[r] = Blank
      PROVE  ToldOK(r)'
  BY <1>3 DEF ToldOK
<1>4. ASSUME NEW p \in Page, Approve(p)
      PROVE  ToldOK(r)'
  <2>1. page[p].review \in Review
    BY <1>4, ShownReview DEF DeskInv, TypesOK, Approve, Close
  <2>2. CASE r = page[p].review
    BY <1>4, <2>2, ApproveTells
  <2>3. CASE r # page[p].review
    BY <1>1, <1>2, <1>4, <2>1, <2>3 DEF Approve, Decide, DeskInv, TypesOK, LedgerTypeOK
  <2> QED
    BY <2>2, <2>3
<1>5. ASSUME NEW p \in Page, Deny(p)
      PROVE  ToldOK(r)'
  <2>1. page[p].review \in Review
    BY <1>5, ShownReview DEF DeskInv, TypesOK, Deny, Close
  <2>2. CASE r = page[p].review
    BY <1>1, <1>3, <1>5, <2>2 DEF Deny
  <2>3. CASE r # page[p].review
    BY <1>1, <1>2, <1>5, <2>1, <2>3 DEF Deny, Decide, DeskInv, TypesOK, LedgerTypeOK
  <2> QED
    BY <2>2, <2>3
<1>6. ASSUME NEW q \in Review, NEW approved \in BOOLEAN, NEW mailbox \in Mailbox,
             DecideUnread(q, approved, mailbox)
      PROVE  ToldOK(r)'
  <2>1. CASE r = q
    BY <1>1, <1>3, <1>6, <2>1 DEF DecideUnread
  <2>2. CASE r # q
    BY <1>1, <1>2, <1>6, <2>2 DEF DecideUnread, Decide, DeskInv, TypesOK, LedgerTypeOK
  <2> QED
    BY <2>1, <2>2
<1>7. \/ decision' = decision /\ told' = told
      \/ \E p \in Page : Approve(p) \/ Deny(p)
      \/ \E q \in Review, approved \in BOOLEAN, mailbox \in Mailbox :
           DecideUnread(q, approved, mailbox)
  BY DEF Next, vars, deskVars, ledgerVars, Open, ReadHistory, ReadBound, ReadAddress, Reading,
         Dismiss, SetStatus, StatusElsewhere, Arrive, Attempt, RecordStatus, Ingest, Claim,
         Finish, Reject
<1> QED
  BY <1>2, <1>4, <1>5, <1>6, <1>7

LEMMA DeskInvInit == Init => DeskInv
<1> SUFFICES ASSUME Init
             PROVE  DeskInv
  OBVIOUS
<1>1. TypesOK /\ ApprovedInv
  BY TypesInit, ApprovedInit DEF Init
<1>2. PagesOK
  BY BlankType DEF Init, PagesOK, PageOK
<1>3. ApprovalWasShown
  BY DEF Init, ApprovalWasShown
<1> QED
  BY <1>1, <1>2, <1>3 DEF DeskInv

LEMMA DeskInvStep == DeskInv /\ [Next]_vars => DeskInv'
<1> SUFFICES ASSUME DeskInv, [Next]_vars
             PROVE  DeskInv'
  OBVIOUS
<1>1. [LedgerNext]_ledgerVars
  BY DeskLedgerStep DEF DeskInv, TypesOK
<1>2. TypesOK' /\ ApprovedInv'
  BY <1>1, TypesStep, ApprovedStep DEF DeskInv
<1> QED
  BY <1>2, PagesStep, ToldStep DEF DeskInv

\* Whatever is written while a page is put together and after it, an approval given on it
\* is of the review, wording and recipient it displayed, and of no older status.
THEOREM ApprovalsWereShown == Spec => []ApprovalWasShown
<1>1. DeskInv => ApprovalWasShown
  BY DEF DeskInv
<1> QED
  BY <1>1, DeskInvInit, DeskInvStep, PTL DEF Spec

\* The same holds of the draft reserved under it: what was displayed is what is sent.
THEOREM ReservationsWereShown == Spec => []ReservationWasShown
<1>1. DeskInv => ReservationWasShown
  <2> SUFFICES ASSUME DeskInv, NEW r \in Review, intent[r] # NoIntent, told[r] # Blank
               PROVE  /\ ContentOf(r) = told[r].content
                      /\ AddressOf(intent[r].source) = told[r].bound.to
                      /\ intent[r].mailbox = Target
    BY DEF ReservationWasShown
  <2>1. /\ decision[r].content = told[r].content /\ decision[r].to = told[r].bound.to
        /\ decision[r].mailbox = Target
    BY DEF DeskInv, ApprovalWasShown
  <2>2. /\ decision[r].mailbox = intent[r].mailbox
        /\ decision[r].content = ContentOf(r)
        /\ decision[r].to = AddressOf(intent[r].source)
    BY DEF DeskInv, ApprovedInv, AttemptIsApproved
  <2> QED
    BY <2>1, <2>2
<1> QED
  BY <1>1, DeskInvInit, DeskInvStep, PTL DEF Spec

-----------------------------------------------------------------------------
(* A status answers the status displayed. *)

\* What StatusFollowsPage says of one page.
FollowsOK(p) ==
  page[p].at = "shown" /\ page'[p].at = "closed" /\ lastEvent' # lastEvent =>
    LET j == page[p].review[1] IN
      /\ Len(history'[j]) = Len(history[j]) + 1
      /\ history'[j][Len(history[j])].id = page[p].event

LEMMA SetStatusFollows ==
  ASSUME TypesOK, NEW p \in Page, NEW s \in Status, SetStatus(p, s)
  PROVE  FollowsOK(p)
<1> DEFINE j == page[p].review[1]
<1>1. page[p] \in Shown /\ j \in Job
  BY ShownReview DEF TypesOK, SetStatus, Close
<1>2. page[p].event = LatestEvent(j).id
  BY <1>1 DEF Shown, SetStatus, RecordStatus
<1>3. /\ history[j] \in Seq(Event) /\ history[j] # <<>>
      /\ history' = [history EXCEPT ![j] = Append(@, [id |-> lastEvent + 1, status |-> s])]
  BY <1>1 DEF SetStatus, RecordStatus, TypesOK, LedgerTypeOK
<1>4. [id |-> lastEvent + 1, status |-> s] \in Event
  BY DEF Event, TypesOK, LedgerTypeOK
<1>5. history'[j] = Append(history[j], [id |-> lastEvent + 1, status |-> s])
  BY <1>1, <1>3 DEF TypesOK, LedgerTypeOK
<1>6. /\ Len(history'[j]) = Len(history[j]) + 1
      /\ history'[j][Len(history[j])] = history[j][Len(history[j])]
  BY <1>3, <1>4, <1>5
<1>7. LatestEvent(j) = history[j][Len(history[j])]
  BY <1>3 DEF LatestEvent
<1> QED
  BY <1>2, <1>6, <1>7 DEF FollowsOK

LEMMA FollowsStep == ASSUME TypesOK, [Next]_vars, NEW p \in Page PROVE FollowsOK(p)
<1>1. page \in [Page -> Shown]
  BY DEF TypesOK, DeskTypeOK
<1>2. ASSUME NEW q \in Page, NEW s \in Status, SetStatus(q, s)
      PROVE  FollowsOK(p)
  <2>1. CASE q = p
    BY <1>2, <2>1, SetStatusFollows
  <2>2. CASE q # p
    <3>1. page'[p] = page[p]
      BY <1>1, <1>2, <2>2 DEF SetStatus, Close
    <3> QED
      BY <3>1 DEF FollowsOK
  <2> QED
    BY <2>1, <2>2
<1>3. CASE lastEvent' = lastEvent \/ page' = page
  BY <1>3 DEF FollowsOK
<1>4. \/ lastEvent' = lastEvent \/ page' = page
      \/ \E q \in Page, s \in Status : SetStatus(q, s)
  BY DEF Next, vars, deskVars, ledgerVars, Open, ReadHistory, ReadBound, ReadAddress, Reading,
         Dismiss, Approve, Deny, DecideUnread, StatusElsewhere, Arrive, Attempt, Decide
<1> QED
  BY <1>2, <1>3, <1>4

\* A status recorded from a page is appended right behind the event the page displayed, for
\* any number of pages open on the same opportunity.
THEOREM StatusesFollowPages == Spec => StatusFollowsPage
<1>1. TypesOK /\ [Next]_vars => [\A p \in Page : FollowsOK(p)]_vars
  BY FollowsStep
<1> QED
  BY <1>1, TypesInit, TypesStep, PTL DEF Spec, StatusFollowsPage, FollowsOK
=============================================================================
