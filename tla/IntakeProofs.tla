---------------------------- MODULE IntakeProofs ----------------------------
(***************************************************************************)
(* Proofs about imports of a mailbox, for any number of runs, any mailbox  *)
(* and any mail that arrives while they read it.                           *)
(***************************************************************************)
EXTENDS GmailIntake, ViewsProofs, WellFoundedInduction

USE IntakeAssumption

-----------------------------------------------------------------------------
(* Induction, stated of sets, and what a page adds to a batch. *)

\* Every nonempty set of naturals has a least element.
LEMMA Least ==
  ASSUME NEW S, S \subseteq Nat, S # {}
  PROVE  \E m \in S : \A k \in S : m <= k
<1> DEFINE Smaller == {p \in Nat \X Nat : p[1] < p[2]}
<1>1. IsWellFoundedOn(Smaller, Nat)
  BY NatLessThanWellFounded DEF OpToRel
<1> HIDE DEF Smaller
<1>2. PICK x \in S : \A y \in S : ~ (<<y, x>> \in Smaller)
  BY <1>1, WFMin
<1>3. ASSUME NEW y \in S, y < x PROVE FALSE
  <2>1. x \in Nat /\ y \in Nat
    OBVIOUS
  <2>2. <<y, x>> \in Smaller
    BY <2>1, <1>3 DEF Smaller
  <2> QED
    BY <2>2, <1>2
<1>4. \A y \in S : x <= y
  BY <1>3
<1> QED
  BY <1>2, <1>4

LEMMA Induction ==
  ASSUME NEW S, 0 \in S, \A n \in Nat : n \in S => n+1 \in S
  PROVE  Nat \subseteq S
<1> SUFFICES ASSUME NEW x \in Nat, x \notin S PROVE FALSE
  OBVIOUS
<1>1. PICK m \in Nat \ S : \A k \in Nat \ S : m <= k
  BY Least
<1>2. m # 0 /\ m-1 \in Nat
  OBVIOUS
<1>3. m-1 \in S
  BY <1>1, <1>2
<1> QED
  BY <1>2, <1>3, <1>1

\* One identifier of a page.
Added(known, m) ==
  IF m \in ToSet(known) \/ Len(known) = Limit THEN known ELSE Append(known, m)

\* The walk over a page, as far as its first n identifiers.
IsWalk(f, found, page, n) ==
  f = [k \in 0..n |-> IF k = 0 THEN found ELSE Added(f[k - 1], page[k])]

LEMMA WalkExists ==
  ASSUME NEW found, NEW page
  PROVE  \A n \in Nat : \E f : IsWalk(f, found, page, n)
<1> DEFINE S == {n \in Nat : \E f : IsWalk(f, found, page, n)}
<1>1. 0 \in S
  <2>1. IsWalk([k \in 0..0 |-> found], found, page, 0)
    BY DEF IsWalk
  <2> QED
    BY <2>1
<1>2. ASSUME NEW n \in Nat, n \in S
      PROVE  n + 1 \in S
  <2>1. PICK f : IsWalk(f, found, page, n)
    BY <1>2
  <2> DEFINE g == [k \in 0..(n + 1) |-> IF k = n + 1 THEN Added(f[n], page[k]) ELSE f[k]]
  <2>2. \A k \in 0..n : f[k] = IF k = 0 THEN found ELSE Added(f[k - 1], page[k])
    BY <2>1 DEF IsWalk
  <2>3. \A k \in 0..(n + 1) : k = n + 1 \/ k \in 0..n
    OBVIOUS
  <2>4. \A k \in 0..n : g[k] = f[k] /\ k \in 0..(n+1) /\ k # n + 1
    OBVIOUS
  <2>5. g[n + 1] = Added(g[n], page[n + 1])
    BY <2>4
  <2>6. ASSUME NEW k \in 0..(n + 1)
        PROVE  g[k] = IF k = 0 THEN found ELSE Added(g[k - 1], page[k])
    <3>1. CASE k = n + 1
      BY <2>5, <3>1
    <3>2. CASE k \in 0..n /\ k # 0
      <4>1. k - 1 \in 0..n
        BY <3>2
      <4> QED
        BY <2>2, <2>4, <3>2, <4>1
    <3>3. CASE k = 0
      BY <2>2, <2>4, <3>3
    <3> QED
      BY <2>3, <3>1, <3>2, <3>3
  <2>7. IsWalk(g, found, page, n + 1)
    BY <2>6 DEF IsWalk
  <2> QED
    BY <2>7
<1> HIDE DEF S
<1>3. Nat \subseteq S
  BY <1>1, <1>2, Induction
<1> QED
  BY <1>3 DEF S

LEMMA ExtendWalks ==
  ASSUME NEW found, NEW page, Len(page) \in Nat
  PROVE  \E f : IsWalk(f, found, page, Len(page)) /\ Extend(found, page) = f[Len(page)]
<1> DEFINE known == CHOOSE f : IsWalk(f, found, page, Len(page))
<1>1. IsWalk(known, found, page, Len(page))
  BY WalkExists
<1>2. Extend(found, page) = known[Len(page)]
  BY DEF Extend, IsWalk, Added
<1> QED
  BY <1>1, <1>2

\* The identifiers a run has found: each once, and no more than asked for.
Batch == {s \in Seq(Mail) : Len(s) <= Limit /\ \A i, k \in 1..Len(s) : s[i] = s[k] => i = k}

LEMMA AddedKeeps ==
  ASSUME NEW s \in Batch, NEW m \in Mail
  PROVE  /\ Added(s, m) \in Batch
         /\ ToSet(s) \subseteq ToSet(Added(s, m))
         /\ m \in ToSet(Added(s, m)) \/ (Added(s, m) = s /\ Len(s) = Limit)
<1>0. s \in Seq(Mail) /\ Len(s) \in Nat /\ Len(s) <= Limit
      /\ \A i, k \in 1..Len(s) : s[i] = s[k] => i = k
  BY DEF Batch
<1>1. CASE m \in ToSet(s) \/ Len(s) = Limit
  <2>1. Added(s, m) = s
    BY <1>1 DEF Added
  <2> QED
    BY <1>0, <1>1, <2>1
<1>2. CASE ~(m \in ToSet(s) \/ Len(s) = Limit)
  <2> DEFINE e == Append(s, m)
  <2>1. Added(s, m) = e
    BY <1>2 DEF Added
  <2>2. e \in Seq(Mail) /\ Len(e) = Len(s) + 1 /\ e[Len(s) + 1] = m
        /\ \A i \in 1..Len(s) : e[i] = s[i]
    BY <1>0
  <2>3. Len(e) <= Limit
    BY <1>0, <1>2, <2>2, IntakeAssumption
  <2>4. \A i \in 1..Len(s) : s[i] # m
    BY <1>0, <1>2 DEF ToSet
  <2>5. \A i, k \in 1..Len(e) : e[i] = e[k] => i = k
    BY <1>0, <2>2, <2>4
  <2>6. \A i \in 1..Len(s) : i \in DOMAIN e
    BY <1>0, <2>2
  <2>7. ToSet(s) \subseteq ToSet(e)
    BY <1>0, <2>2, <2>6 DEF ToSet
  <2>8. m \in ToSet(e)
    BY <1>0, <2>2 DEF ToSet
  <2>9. e \in Batch
    BY <2>2, <2>3, <2>5 DEF Batch
  <2> QED
    BY <2>1, <2>7, <2>8, <2>9
<1> QED
  BY <1>1, <1>2

\* A page adds each of its identifiers, unless the limit is reached (identifiers()).
LEMMA ExtendKeeps ==
  ASSUME NEW found \in Batch, NEW page \in Seq(Mail)
  PROVE  /\ Extend(found, page) \in Batch
         /\ ToSet(found) \subseteq ToSet(Extend(found, page))
         /\ Len(Extend(found, page)) = Limit \/ ToSet(page) \subseteq ToSet(Extend(found, page))
<1>0. Len(page) \in Nat /\ \A k \in 1..Len(page) : page[k] \in Mail
  OBVIOUS
<1>1. PICK f : IsWalk(f, found, page, Len(page)) /\ Extend(found, page) = f[Len(page)]
  BY <1>0, ExtendWalks
<1>2. f[0] = found /\ \A k \in 1..Len(page) : f[k] = Added(f[k - 1], page[k])
  <2>1. \A k \in 0..Len(page) : f[k] = IF k = 0 THEN found ELSE Added(f[k - 1], page[k])
    BY <1>1 DEF IsWalk
  <2>2. 0 \in 0..Len(page) /\ \A k \in 1..Len(page) : k \in 0..Len(page) /\ k # 0
    BY <1>0
  <2> QED
    BY <2>1, <2>2
<1> DEFINE Held(k) == /\ f[k] \in Batch
                      /\ ToSet(found) \subseteq ToSet(f[k])
                      /\ Len(f[k]) = Limit \/ \A i \in 1..k : page[i] \in ToSet(f[k])
           S == {k \in Nat : k <= Len(page) => Held(k)}
<1>3. 0 \in S
  BY <1>2
<1>4. ASSUME NEW k \in Nat, k \in S
      PROVE  k + 1 \in S
  <2> SUFFICES ASSUME k + 1 <= Len(page)
               PROVE  Held(k + 1)
    OBVIOUS
  <2>1. Held(k) /\ k + 1 \in 1..Len(page) /\ page[k + 1] \in Mail
    BY <1>0, <1>4
  <2>2. f[k + 1] = Added(f[k], page[k + 1])
    BY <1>2, <2>1
  <2>3. /\ f[k + 1] \in Batch /\ ToSet(f[k]) \subseteq ToSet(f[k + 1])
        /\ page[k + 1] \in ToSet(f[k + 1]) \/ (f[k + 1] = f[k] /\ Len(f[k]) = Limit)
    BY <2>1, <2>2, AddedKeeps
  <2>4. CASE Len(f[k]) = Limit
    <3>1. f[k + 1] = f[k]
      BY <2>2, <2>4 DEF Added
    <3> QED
      BY <2>1, <2>4, <3>1
  <2>5. CASE Len(f[k]) # Limit
    <3>1. \A i \in 1..(k + 1) : i \in 1..k \/ i = k + 1
      OBVIOUS
    <3>2. \A i \in 1..(k + 1) : page[i] \in ToSet(f[k + 1])
      BY <2>1, <2>3, <2>5, <3>1
    <3> QED
      BY <2>1, <2>3, <3>2
  <2> QED
    BY <2>4, <2>5
<1> HIDE DEF S, Held
<1>5. Nat \subseteq S
  BY <1>3, <1>4, Induction
<1>6. Held(Len(page))
  BY <1>0, <1>5 DEF S
<1>7. ToSet(page) = {page[i] : i \in 1..Len(page)}
  BY DEF ToSet
<1> QED
  BY <1>1, <1>6, <1>7 DEF Held

-----------------------------------------------------------------------------
(* What a run holds. *)

\* What a report may say and stay true, whatever is stored later.
KnownEntries ==
  {n \in Entry : /\ n.message \in DOMAIN messages
                 /\ messages[n.message] = Carries[n.message]
                 /\ n.reviews = Provenance(n.message)}

Locals ==
  [stage : Stages, begin : Nat, found : Batch, offset : Nat, pages : 0..MaxPages,
   fetched : Nat, records : Seq(Entry)]

Reading == {"listing", "fetching", "storing"}

\* Of what was there when the run began, the batch has what is among the first n now.
Seen(k, n) ==
  \A x \in 1..k.begin :
    Len(mailbox) + 1 - x <= n => mailbox[Len(mailbox) + 1 - x] \in ToSet(k.found)

\* A walk has seen what is above its position, which mail that arrives only pushes down; when
\* it is over it has seen everything, unless a bound ended it.
KnownRuns ==
  {k \in Locals :
     /\ k.records \in Seq(KnownEntries) /\ (verified \/ k.records = <<>>)
     /\ k.fetched <= Len(k.found)
     /\ k.stage \in Reading => verified /\ k.begin <= Len(mailbox)
     /\ k.stage \notin Reading => k.found = <<>> /\ k.offset = 0
     /\ k.stage \notin {"fetching", "storing"} => k.fetched = 0
     /\ k.stage \in {"idle", "identity", "listing", "fetching", "unreadable"} => k.records = <<>>
     /\ k.stage = "storing" => k.fetched = Len(k.found) /\ Len(k.records) <= Len(k.found)
     /\ k.stage = "listing" => Len(k.found) = Limit \/ Seen(k, k.offset)
     /\ k.stage \in {"fetching", "storing"} =>
          Len(k.found) = Limit \/ k.pages = MaxPages \/ Seen(k, Len(mailbox))}

IntakeInv ==
  /\ ViewsInv
  /\ mailbox \in Seq(Mail) /\ owner \in {"declared", "other"} /\ verified \in BOOLEAN
  /\ owner = "other" => ~verified
  /\ run \in [Run -> KnownRuns]

\* Every import uses the record only by its transactions.
LEMMA IntakeLedgerStep == IntakeInv /\ [Next]_vars => [LedgerNext]_ledgerVars
<1> SUFFICES ASSUME IntakeInv, [Next]_vars
             PROVE  [LedgerNext]_ledgerVars
  OBVIOUS
<1>1. ASSUME NEW i \in Run, Store(i)
      PROVE  [LedgerNext]_ledgerVars
  <2>1. run[i].found \in Seq(Mail) /\ run[i].records \in Seq(Entry)
    BY DEF IntakeInv, KnownRuns, Locals, Batch
  <2>2. Len(run[i].records) + 1 \in 1..Len(run[i].found)
    BY <1>1, <2>1 DEF Store
  <2>3. Here(i) \in Mail
    BY <2>1, <2>2 DEF Here
  <2>4. Here(i) \in MessageId /\ Carries[Here(i)] \in Payload
    BY <2>3
  <2>5. Ingest(Here(i), Carries[Here(i)]) \/ UNCHANGED ledgerVars
    BY <1>1 DEF Store, Admit
  <2> QED
    BY <2>4, <2>5 DEF LedgerNext
<1>2. ASSUME NEW m \in MessageId, NEW p \in Payload, ImportFile(m, p)
      PROVE  [LedgerNext]_ledgerVars
  BY <1>2 DEF ImportFile, LedgerNext
<1>3. ASSUME NEW i \in Run,
             \/ Start(i) \/ Unreadable(i) \/ Identify(i) \/ List(i) \/ Fetch(i) \/ Report(i)
             \/ Decline(i) \/ Raise(i)
      PROVE  UNCHANGED ledgerVars
  BY <1>3 DEF Start, Unreadable, Identify, List, Fetch, Report, Decline, Raise
<1>4. ASSUME NEW m \in Mail, Deliver(m)
      PROVE  UNCHANGED ledgerVars
  BY <1>4 DEF Deliver
<1> QED
  BY <1>1, <1>2, <1>3, <1>4 DEF Next, Step, vars

LEMMA AppendSet ==
  ASSUME NEW S, NEW s \in Seq(S), NEW m
  PROVE  ToSet(Append(s, m)) = ToSet(s) \cup {m}
<1> DEFINE e == Append(s, m)
<1>1. /\ DOMAIN s = 1..Len(s) /\ Len(s) \in Nat /\ DOMAIN e = 1..(Len(s) + 1)
      /\ e[Len(s) + 1] = m /\ \A k \in 1..Len(s) : e[k] = s[k]
  OBVIOUS
<1> HIDE DEF e
<1>2. \A k \in 1..(Len(s) + 1) : k \in 1..Len(s) \/ k = Len(s) + 1
  BY <1>1
<1>3. \A k \in 1..Len(s) : k \in 1..(Len(s) + 1)
  BY <1>1
<1>4. ToSet(e) \subseteq ToSet(s) \cup {m}
  BY <1>1, <1>2 DEF ToSet
<1>5. ToSet(s) \cup {m} \subseteq ToSet(e)
  BY <1>1, <1>3 DEF ToSet
<1> QED
  BY <1>4, <1>5 DEF e

\* What a message says and is the source of is settled when it is stored.
LEMMA EntriesKept ==
  ASSUME LedgerTypeOK, [LedgerNext]_ledgerVars
  PROVE  KnownEntries \subseteq KnownEntries'
<1> SUFFICES ASSUME NEW n \in KnownEntries
             PROVE  n \in KnownEntries'
  OBVIOUS
<1>1. n \in Entry /\ n.message \in DOMAIN messages
  BY DEF KnownEntries
<1>2. CASE messages' = messages /\ sources' = sources
  BY <1>2 DEF KnownEntries, Provenance
<1>3. ASSUME NEW m \in MessageId, NEW p \in Payload, Ingest(m, p)
      PROVE  n \in KnownEntries'
  <2>1. n.message # m
    BY <1>1, <1>3 DEF Ingest
  <2>2. n.message \in DOMAIN messages' /\ messages'[n.message] = messages[n.message]
    BY <1>1, <1>3, IngestKeeps
  <2>3. ASSUME NEW r \in Review
        PROVE  n.message \in ToSet(sources'[r]) <=> n.message \in ToSet(sources[r])
    <3>1. sources[r] \in Seq(MessageId)
      BY DEF LedgerTypeOK
    <3>2. sources'[r] = sources[r] \/ sources'[r] = Append(sources[r], m)
      BY <1>3 DEF Ingest, SourcesAfter
    <3>3. ToSet(Append(sources[r], m)) = ToSet(sources[r]) \cup {m}
      BY <3>1, AppendSet
    <3> QED
      BY <2>1, <3>2, <3>3
  <2>4. Provenance(n.message)' = Provenance(n.message)
    BY <2>3 DEF Provenance
  <2> QED
    BY <1>1, <2>2, <2>4 DEF KnownEntries
<1>4. \/ messages' = messages /\ sources' = sources
      \/ \E m \in MessageId, p \in Payload : Ingest(m, p)
  BY DEF LedgerNext, ledgerVars, RecordStatus, Decide, Claim, Finish, Reject, Refuse
<1> QED
  BY <1>2, <1>3, <1>4

\* A run that does nothing stays as true, whatever is stored and whatever mail arrives.
LEMMA RunsKept ==
  ASSUME LedgerTypeOK, [LedgerNext]_ledgerVars, verified => verified',
         mailbox \in Seq(Mail),
         mailbox' = mailbox \/ \E m \in Mail : mailbox' = <<m>> \o mailbox
  PROVE  KnownRuns \subseteq KnownRuns'
<1>1. KnownEntries \subseteq KnownEntries'
  BY EntriesKept
<1>2. CASE mailbox' = mailbox
  BY <1>1, <1>2 DEF KnownRuns, Seen
<1>3. ASSUME NEW m \in Mail, mailbox' = <<m>> \o mailbox
      PROVE  KnownRuns \subseteq KnownRuns'
  <2>1. /\ Len(mailbox) \in Nat /\ Len(mailbox') = Len(mailbox) + 1
        /\ \A k \in 1..Len(mailbox) : mailbox'[k + 1] = mailbox[k]
    BY <1>3
  <2> SUFFICES ASSUME NEW k \in KnownRuns
               PROVE  k \in KnownRuns'
    OBVIOUS
  <2>2. k \in Locals /\ k.begin \in Nat /\ k.offset \in Nat
    BY DEF KnownRuns, Locals
  <2>3. ASSUME k.begin <= Len(mailbox), NEW x \in 1..k.begin
        PROVE  mailbox'[Len(mailbox') + 1 - x] = mailbox[Len(mailbox) + 1 - x]
    <3>1. Len(mailbox) + 1 - x \in 1..Len(mailbox)
      BY <2>1, <2>2, <2>3
    <3>2. Len(mailbox') + 1 - x = (Len(mailbox) + 1 - x) + 1
      BY <2>1, <2>2
    <3> QED
      BY <2>1, <3>1, <3>2
  <2>4. ASSUME k.begin <= Len(mailbox), Seen(k, k.offset)
        PROVE  Seen(k, k.offset)'
    BY <2>1, <2>2, <2>3, <2>4 DEF Seen
  <2>5. ASSUME k.begin <= Len(mailbox), Seen(k, Len(mailbox))
        PROVE  Seen(k, Len(mailbox))'
    BY <2>1, <2>2, <2>3, <2>5 DEF Seen
  <2>6. k.begin <= Len(mailbox) => k.begin <= Len(mailbox')
    BY <2>1, <2>2
  <2>7. k.records \in Seq(KnownEntries')
    BY <1>1 DEF KnownRuns
  <2> QED
    BY <2>2, <2>4, <2>5, <2>6, <2>7 DEF KnownRuns, Reading
<1> QED
  BY <1>2, <1>3

-----------------------------------------------------------------------------
(* The read phase. *)

LEMMA EndingFields ==
  ASSUME NEW i, NEW stage
  PROVE  Ending(i, stage) =
           [stage |-> stage, begin |-> 0, found |-> <<>>, offset |-> 0, pages |-> 0,
            fetched |-> 0, records |-> run[i].records]
<1>1. PICK k : k = Unstarted
  OBVIOUS
<1>2. k = [stage |-> "idle", begin |-> 0, found |-> <<>>, offset |-> 0, pages |-> 0,
           fetched |-> 0, records |-> <<>>]
  BY <1>1 DEF Unstarted
<1>3. PICK e : e = [k EXCEPT !.stage = stage, !.records = run[i].records]
  OBVIOUS
<1>4. e = [stage |-> stage, begin |-> 0, found |-> <<>>, offset |-> 0, pages |-> 0,
           fetched |-> 0, records |-> run[i].records]
  BY <1>2, <1>3
<1> QED
  BY <1>1, <1>3, <1>4 DEF Ending

LEMMA EmptyBatch == <<>> \in Batch
  BY DEF Batch

LEMMA UnstartedKnown == Unstarted \in KnownRuns
<1>1. Unstarted \in Locals
  BY EmptyBatch DEF Locals, Unstarted, Stages
<1>2. /\ Unstarted.stage = "idle" /\ Unstarted.found = <<>> /\ Unstarted.offset = 0
      /\ Unstarted.fetched = 0 /\ Unstarted.records = <<>>
  BY DEF Unstarted
<1>3. Unstarted.records \in Seq(KnownEntries) /\ Unstarted.fetched <= Len(Unstarted.found)
  BY <1>2
<1>4. Unstarted.stage \notin Reading /\ Unstarted.stage \notin {"fetching", "storing"}
  BY <1>2 DEF Reading
<1> QED
  BY <1>1, <1>2, <1>3, <1>4 DEF KnownRuns

\* A run that is over keeps what it stored, and no batch.
LEMMA EndingKnown ==
  ASSUME IntakeInv, NEW i \in Run, NEW stage \in Over,
         stage = "unreadable" => run[i].records = <<>>
  PROVE  Ending(i, stage) \in KnownRuns
<1>1. /\ run[i].records \in Seq(Entry) /\ run[i].records \in Seq(KnownEntries)
      /\ verified \/ run[i].records = <<>>
  BY DEF IntakeInv, KnownRuns, Locals
<1> DEFINE e == Ending(i, stage)
<1>2. /\ e.stage = stage /\ e.begin = 0 /\ e.found = <<>> /\ e.offset = 0 /\ e.pages = 0
      /\ e.fetched = 0 /\ e.records = run[i].records
  BY EndingFields
<1>3. e \in Locals
  BY <1>1, EmptyBatch, EndingFields DEF Locals, Stages, Over
<1> HIDE DEF e
<1>4. Len(e.found) = 0
  BY <1>2
<1> QED
  BY <1>1, <1>2, <1>3, <1>4 DEF KnownRuns, Reading, Over, e

LEMMA StartKnown ==
  ASSUME IntakeInv, NEW i \in Run, Start(i)
  PROVE  \E new \in KnownRuns : Become(i, new)
<1> DEFINE new == [run[i] EXCEPT !.stage = "identity"]
<1>1. run[i] \in KnownRuns /\ run[i] \in Locals /\ run[i].stage = "idle"
  BY DEF IntakeInv, KnownRuns, Start, At
<1>2. new \in Locals
  BY <1>1 DEF Locals, Stages
<1>3. /\ new.stage = "identity" /\ new.begin = run[i].begin /\ new.found = run[i].found
      /\ new.offset = run[i].offset /\ new.pages = run[i].pages
      /\ new.fetched = run[i].fetched /\ new.records = run[i].records
  BY <1>1 DEF Locals
<1>4. new \in KnownRuns
  BY <1>1, <1>2, <1>3 DEF KnownRuns, Reading
<1> QED
  BY <1>4 DEF Start

LEMMA UnreadableKnown ==
  ASSUME IntakeInv, NEW i \in Run, Unreadable(i)
  PROVE  \E new \in KnownRuns : Become(i, new)
<1>1. run[i].records = <<>>
  BY DEF IntakeInv, KnownRuns, Unreadable
<1>2. Ending(i, "unreadable") \in KnownRuns
  BY <1>1, EndingKnown DEF Over
<1> QED
  BY <1>2 DEF Unreadable

\* The identity is proved before anything is listed, and once for every run.
LEMMA IdentifyKnown ==
  ASSUME IntakeInv, NEW i \in Run, Identify(i), KnownRuns \subseteq KnownRuns'
  PROVE  /\ \E new \in KnownRuns' : Become(i, new)
         /\ verified' \in BOOLEAN
         /\ verified => verified'
         /\ owner = "other" => ~verified'
<1>1. /\ run[i] \in KnownRuns /\ run[i] \in Locals /\ run[i].stage = "identity"
      /\ mailbox \in Seq(Mail) /\ Len(mailbox) \in Nat
  BY DEF IntakeInv, KnownRuns, Identify, At
<1>2. verified' = (verified \/ owner = "declared") /\ mailbox' = mailbox
  BY DEF Identify
<1>3. verified' \in BOOLEAN /\ (verified => verified') /\ (owner = "other" => ~verified')
  BY <1>2 DEF IntakeInv
<1>4. CASE verified'
  <2>0. PICK new : new = [run[i] EXCEPT !.stage = "listing", !.begin = Len(mailbox)]
    OBVIOUS
  <2>1. new \in Locals
    BY <1>1, <2>0 DEF Locals, Stages
  <2>2. /\ new.stage = "listing" /\ new.begin = Len(mailbox) /\ new.found = run[i].found
        /\ new.offset = run[i].offset /\ new.pages = run[i].pages
        /\ new.fetched = run[i].fetched /\ new.records = run[i].records
    BY <1>1, <2>0 DEF Locals
  <2>3. /\ run[i].found = <<>> /\ run[i].offset = 0 /\ run[i].fetched = 0
        /\ run[i].records = <<>>
    BY <1>1 DEF KnownRuns, Reading
  <2>4. Become(i, new)
    BY <1>4, <2>0 DEF Identify
  <2>5. Seen(new, new.offset)'
    BY <1>1, <1>2, <2>2, <2>3 DEF Seen
  <2>6. new \in KnownRuns'
    BY <1>1, <1>2, <1>4, <2>1, <2>2, <2>3, <2>5 DEF KnownRuns, Reading, Seen
  <2> QED
    BY <1>3, <2>4, <2>6
<1>5. CASE ~verified'
  <2>1. run[i].records = <<>>
    BY <1>1 DEF KnownRuns
  <2>2. Ending(i, "unreadable") \in KnownRuns'
    BY <2>1, EndingKnown DEF Over
  <2> QED
    BY <1>3, <1>5, <2>2 DEF Identify
<1> QED
  BY <1>4, <1>5

LEMMA PageOf ==
  ASSUME NEW s \in Seq(Mail), NEW offset \in Nat, NEW size \in Nat, offset + size <= Len(s)
  PROVE  LET page == SubSeq(s, offset + 1, offset + size) IN
         /\ page \in Seq(Mail) /\ DOMAIN page = 1..size
         /\ \A x \in 1..size : page[x] = s[offset + x]
  OBVIOUS

\* One page: what is above the new position was above the old one, or is on the page.
LEMMA ListKnown ==
  ASSUME IntakeInv, NEW i \in Run, List(i)
  PROVE  \E new \in KnownRuns : Become(i, new)
<1> DEFINE k == run[i]
<1>0. /\ k \in KnownRuns /\ k \in Locals /\ k.stage = "listing" /\ k.found \in Batch
      /\ k.offset \in Nat /\ k.begin \in Nat /\ k.pages \in 0..MaxPages
      /\ k.fetched = 0 /\ k.records = <<>> /\ k.begin <= Len(mailbox) /\ verified
      /\ Len(k.found) < Limit /\ k.pages < MaxPages
      /\ mailbox \in Seq(Mail) /\ Len(mailbox) \in Nat
  BY DEF IntakeInv, KnownRuns, Locals, Reading, List, At, Walks
<1>1. Seen(k, k.offset)
  BY <1>0 DEF KnownRuns
<1>2. PICK size \in 0..PageSize :
        LET offset == k.offset + size
            page == SubSeq(mailbox, k.offset + 1, offset)
            next == [k EXCEPT !.found = Extend(@, page), !.offset = offset, !.pages = @ + 1]
        IN  /\ offset <= Len(mailbox)
            /\ Become(i, [next EXCEPT !.stage =
                 IF Walks(next) /\ offset < Len(mailbox) THEN "listing" ELSE "fetching"])
  BY DEF List
<1> DEFINE offset == k.offset + size
           page == SubSeq(mailbox, k.offset + 1, offset)
           found == Extend(k.found, page)
<1>3. offset \in Nat /\ offset <= Len(mailbox)
  BY <1>0, <1>2
<1>4. /\ page \in Seq(Mail) /\ DOMAIN page = 1..size
      /\ \A x \in 1..size : page[x] = mailbox[k.offset + x]
  <2>1. size \in Nat
    OBVIOUS
  <2>2. k.offset \in Nat /\ mailbox \in Seq(Mail) /\ k.offset + size <= Len(mailbox)
    BY <1>0, <1>3
  <2> HIDE DEF k
  <2> QED
    BY <2>1, <2>2, PageOf
<1>5. /\ found \in Batch /\ ToSet(k.found) \subseteq ToSet(found)
      /\ Len(found) = Limit \/ ToSet(page) \subseteq ToSet(found)
  BY <1>0, <1>4, ExtendKeeps
<1>6. found \in Seq(Mail) /\ Len(found) \in Nat /\ Len(found) <= Limit
  BY <1>5 DEF Batch
<1> HIDE DEF found, page
<1>7. ASSUME Len(found) # Limit, NEW x \in 1..k.begin, Len(mailbox) + 1 - x <= offset
      PROVE  mailbox[Len(mailbox) + 1 - x] \in ToSet(found)
  <2> DEFINE at == Len(mailbox) + 1 - x
  <2>1. at \in 1..Len(mailbox)
    BY <1>0
  <2>2. CASE at <= k.offset
    BY <1>1, <1>5, <2>2 DEF Seen
  <2>3. CASE at > k.offset
    <3>1. at - k.offset \in 1..size /\ k.offset + (at - k.offset) = at
      BY <1>0, <1>7, <2>1, <2>3
    <3>2. page[at - k.offset] = mailbox[at]
      BY <1>4, <3>1
    <3>3. page[at - k.offset] \in ToSet(page)
      BY <1>4, <3>1 DEF ToSet
    <3> QED
      BY <1>5, <1>7, <3>2, <3>3
  <2> QED
    BY <1>0, <2>1, <2>2, <2>3
<1>8. PICK next : next = [k EXCEPT !.found = found, !.offset = offset, !.pages = @ + 1]
  OBVIOUS
<1>9. /\ next.found = found /\ next.offset = offset /\ next.pages = k.pages + 1
      /\ next.begin = k.begin /\ next.fetched = 0 /\ next.records = <<>>
      /\ next \in Locals
  <2>1. k.pages + 1 \in 0..MaxPages
    BY <1>0
  <2>2. PICK walk : walk = [k EXCEPT !.found = found, !.offset = offset]
    OBVIOUS
  <2> HIDE DEF offset
  <2>3. /\ walk \in Locals /\ walk.found = found /\ walk.offset = offset
        /\ walk.pages = k.pages /\ walk.begin = k.begin /\ walk.fetched = 0
        /\ walk.records = <<>>
    BY <1>0, <1>3, <1>5, <2>2 DEF Locals
  <2>4. next = [walk EXCEPT !.pages = k.pages + 1]
    BY <1>0, <1>8, <2>2, <2>3 DEF Locals
  <2> QED
    BY <2>1, <2>3, <2>4 DEF Locals
<1> DEFINE stage == IF Walks(next) /\ offset < Len(mailbox) THEN "listing" ELSE "fetching"
<1>10. PICK new : new = [next EXCEPT !.stage = stage]
  OBVIOUS
<1>11. /\ new.found = found /\ new.offset = offset /\ new.pages = k.pages + 1
       /\ new.begin = k.begin /\ new.fetched = 0 /\ new.records = <<>>
       /\ new.stage = stage /\ new \in Locals
  BY <1>9, <1>10 DEF Locals, Stages
<1>12. Len(found) = Limit \/ Seen(new, offset)
  BY <1>7, <1>11 DEF Seen
<1>13. stage = "fetching" =>
         Len(found) = Limit \/ new.pages = MaxPages \/ Seen(new, Len(mailbox))
  <2>1. CASE ~ Walks(next)
    BY <1>0, <1>6, <1>9, <1>11, <2>1 DEF Walks
  <2>2. CASE offset >= Len(mailbox)
    <3>1. offset = Len(mailbox)
      BY <1>0, <1>3, <2>2
    <3> QED
      BY <1>12, <3>1
  <2> QED
    BY <1>0, <1>3, <2>1, <2>2
<1>14. stage \in {"listing", "fetching"}
  OBVIOUS
<1>15. Become(i, new)
  BY <1>2, <1>8, <1>10 DEF found, page
<1> HIDE DEF stage, offset
<1>16. new.records \in Seq(KnownEntries) /\ new.fetched <= Len(new.found)
  BY <1>6, <1>11
<1>17. new \in KnownRuns
  BY <1>0, <1>11, <1>12, <1>13, <1>14, <1>16 DEF KnownRuns, Reading
<1> QED
  BY <1>15, <1>17

LEMMA FetchKnown ==
  ASSUME IntakeInv, NEW i \in Run, Fetch(i)
  PROVE  \E new \in KnownRuns : Become(i, new)
<1> DEFINE k == run[i]
<1>0. /\ k \in KnownRuns /\ k \in Locals /\ k.stage = "fetching"
      /\ k.fetched \in Nat /\ k.fetched <= Len(k.found) /\ Len(k.found) \in Nat
      /\ k.records = <<>> /\ k.records \in Seq(KnownEntries)
  BY DEF IntakeInv, KnownRuns, Locals, Batch, Fetch, At
<1>1. CASE k.fetched = Len(k.found)
  <2>1. PICK new : new = [k EXCEPT !.stage = "storing"]
    OBVIOUS
  <2>2. /\ new \in Locals /\ new.stage = "storing" /\ new.begin = k.begin
        /\ new.found = k.found /\ new.offset = k.offset /\ new.pages = k.pages
        /\ new.fetched = k.fetched /\ new.records = k.records
    BY <1>0, <2>1 DEF Locals, Stages
  <2>3. Len(new.records) = 0
    BY <1>0, <2>2
  <2>4. new \in KnownRuns
    BY <1>0, <1>1, <2>2, <2>3 DEF KnownRuns, Reading, Seen
  <2> QED
    BY <1>1, <2>1, <2>4 DEF Fetch
<1>2. CASE k.fetched # Len(k.found)
  <2>1. PICK new : new = [k EXCEPT !.fetched = @ + 1]
    OBVIOUS
  <2>2. /\ new \in Locals /\ new.stage = "fetching" /\ new.begin = k.begin
        /\ new.found = k.found /\ new.offset = k.offset /\ new.pages = k.pages
        /\ new.fetched = k.fetched + 1 /\ new.records = k.records
    BY <1>0, <2>1 DEF Locals
  <2>3. new.fetched <= Len(new.found)
    BY <1>0, <1>2, <2>2
  <2>4. new \in KnownRuns
    BY <1>0, <2>2, <2>3 DEF KnownRuns, Reading, Seen
  <2> QED
    BY <1>2, <2>1, <2>4 DEF Fetch
<1> QED
  BY <1>1, <1>2

-----------------------------------------------------------------------------
(* The write phase. *)

\* A message that is new becomes the source of just the reviews ingest() answers with.
LEMMA StoredSources ==
  ASSUME ViewsInv, NEW m \in MessageId, NEW p \in Payload, p.sender # None, Ingest(m, p)
  PROVE  Stored(p) \subseteq Review /\ Provenance(m)' = Stored(p)
<1>1. ASSUME NEW j \in Named(p)
      PROVE  j \in Job /\ NewestAfter(j, p) \in 1..MaxRevision
  <2>1. j \in Job /\ content[j] \in Seq(Content) /\ Len(content[j]) \in 0..MaxRevision
    BY DEF Named, ViewsInv, LedgerTypeOK, ChainBounded
  <2>2. CASE j \in Revised(p)
    <3>1. Len(content[j]) < MaxRevision /\ NewestAfter(j, p) = Len(content[j]) + 1
      BY <2>2 DEF Ingest, NewestAfter
    <3> QED
      BY <2>1, <3>1, LedgerAssumption
  <2>3. CASE j \notin Revised(p)
    <3>1. content[j] # <<>>
      BY <2>3 DEF Revised
    <3>2. NewestAfter(j, p) = Len(content[j])
      BY <2>1, <2>3 DEF NewestAfter
    <3> QED
      BY <2>1, <3>1, <3>2
  <2> QED
    BY <2>2, <2>3
<1>2. Stored(p) \subseteq Review
  BY <1>1 DEF Stored, Review
<1>3. ASSUME NEW r \in Review
      PROVE  m \in ToSet(sources'[r]) <=> r \in Stored(p)
  <2>1. m \notin ToSet(sources[r]) /\ sources[r] \in Seq(MessageId)
    <3>1. sources[r] \in Seq(MessageId) /\ m \notin DOMAIN messages
      BY DEF ViewsInv, LedgerTypeOK, Ingest
    <3>2. \A k \in 1..Len(sources[r]) : sources[r][k] \in DOMAIN messages
      BY DEF ViewsInv, LedgerTypeOK
    <3>3. DOMAIN sources[r] = 1..Len(sources[r])
      BY <3>1
    <3> QED
      BY <3>1, <3>2, <3>3 DEF ToSet
  <2>2. r \in Stored(p) <=> r[1] \in Named(p) /\ r[2] = NewestAfter(r[1], p)
    BY DEF Stored, Review
  <2>3. CASE r \in Stored(p)
    <3>1. sources'[r] = Append(sources[r], m)
      BY <2>2, <2>3 DEF Ingest, SourcesAfter
    <3>2. ToSet(Append(sources[r], m)) = ToSet(sources[r]) \cup {m}
      BY <2>1, AppendSet
    <3> QED
      BY <2>3, <3>1, <3>2
  <2>4. CASE r \notin Stored(p)
    <3>1. sources'[r] = sources[r]
      BY <2>2, <2>4 DEF Ingest, SourcesAfter
    <3> QED
      BY <2>1, <2>4, <3>1
  <2> QED
    BY <2>3, <2>4
<1>4. Provenance(m)' = Stored(p)
  BY <1>2, <1>3 DEF Provenance
<1> QED
  BY <1>2, <1>4

\* Whether a message is new or a replay, its entry says what the record holds of it.
LEMMA StoredEntry ==
  ASSUME ViewsInv, NEW m \in Mail, Admit(m, Carries[m])
  PROVE  [message |-> m, reviews |-> Answered(m, Carries[m])] \in KnownEntries'
<1> DEFINE p == Carries[m]
           n == [message |-> m, reviews |-> Answered(m, p)]
<1>1. m \in MessageId /\ p \in Payload /\ p.sender # None
  OBVIOUS
<1>2. CASE Ingest(m, p)
  <2>1. m \notin DOMAIN messages
    BY <1>2 DEF Ingest
  <2>2. Answered(m, p) = Stored(p)
    BY <2>1 DEF Answered
  <2>3. m \in DOMAIN messages' /\ messages'[m] = p
    BY <1>1, <1>2, IngestKeeps DEF ViewsInv
  <2>4. Stored(p) \subseteq Review /\ Provenance(m)' = Stored(p)
    BY <1>1, <1>2, StoredSources
  <2> HIDE DEF p
  <2>5. n \in Entry /\ n.message = m /\ n.reviews = Stored(p)
    BY <1>1, <2>2, <2>4 DEF Entry
  <2> QED
    BY <2>3, <2>4, <2>5 DEF KnownEntries, Provenance, p
<1>3. CASE m \in DOMAIN messages /\ messages[m] = p /\ UNCHANGED ledgerVars
  <2>1. Answered(m, p) = Provenance(m) /\ Provenance(m) \subseteq Review
    BY <1>3 DEF Answered, Provenance
  <2>2. UNCHANGED <<messages, sources>>
    BY <1>3 DEF ledgerVars
  <2>3. n \in Entry /\ n.message = m /\ n.reviews = Provenance(m)
    BY <1>1, <2>1 DEF Entry
  <2> QED
    BY <1>3, <2>2, <2>3 DEF KnownEntries, Provenance
<1> QED
  BY <1>2, <1>3 DEF Admit

LEMMA StoreKnown ==
  ASSUME IntakeInv, NEW i \in Run, Store(i), KnownRuns \subseteq KnownRuns'
  PROVE  \E new \in KnownRuns' : Become(i, new)
<1>1. PICK k : k = run[i]
  OBVIOUS
<1>2. /\ k \in KnownRuns' /\ k \in Locals /\ k.stage = "storing"
      /\ k.found \in Seq(Mail) /\ k.records \in Seq(Entry) /\ k.records \in Seq(KnownEntries')
      /\ k.fetched = Len(k.found) /\ Len(k.records) < Len(k.found)
  BY <1>1 DEF IntakeInv, KnownRuns, Locals, Batch, Store, At
<1>3. Here(i) \in Mail
  <2>1. Len(k.records) + 1 \in 1..Len(k.found)
    BY <1>2
  <2> QED
    BY <1>1, <1>2, <2>1 DEF Here
<1>4. PICK n : n = [message |-> Here(i), reviews |-> Answered(Here(i), Carries[Here(i)])]
  OBVIOUS
<1>5. n \in KnownEntries'
  BY <1>3, <1>4, StoredEntry DEF IntakeInv, Store
<1>6. n \in Entry
  BY <1>5 DEF KnownEntries
<1>7. PICK new : new = [k EXCEPT !.records = Append(k.records, n)]
  OBVIOUS
<1>8. Become(i, new)
  BY <1>1, <1>4, <1>7 DEF Store
<1>9. /\ Append(k.records, n) \in Seq(Entry) /\ Append(k.records, n) \in Seq(KnownEntries')
      /\ Len(Append(k.records, n)) <= Len(k.found)
  BY <1>2, <1>5, <1>6
<1>10. /\ new \in Locals /\ new.stage = "storing" /\ new.begin = k.begin
       /\ new.found = k.found /\ new.offset = k.offset /\ new.pages = k.pages
       /\ new.fetched = k.fetched /\ new.records = Append(k.records, n)
  BY <1>2, <1>7, <1>9 DEF Locals
<1>11. new \in KnownRuns'
  BY <1>2, <1>9, <1>10 DEF KnownRuns, Reading, Seen
<1> QED
  BY <1>8, <1>11

-----------------------------------------------------------------------------
(* Every step. *)

LEMMA IntakeInit == Init => IntakeInv
<1> SUFFICES ASSUME Init
             PROVE  IntakeInv
  OBVIOUS
<1>1. ViewsInv
  BY ViewsInit DEF Init
<1>2. run \in [Run -> KnownRuns]
  BY UnstartedKnown DEF Init
<1>3. mailbox \in Seq(Mail) /\ owner \in {"declared", "other"}
  BY DEF Init
<1>4. verified \in BOOLEAN /\ ~verified
  BY DEF Init
<1> QED
  BY <1>1, <1>2, <1>3, <1>4 DEF IntakeInv

LEMMA IntakeStep == IntakeInv /\ [Next]_vars => IntakeInv'
<1> SUFFICES ASSUME IntakeInv, [Next]_vars
             PROVE  IntakeInv'
  OBVIOUS
<1>0. /\ ViewsInv /\ LedgerTypeOK /\ mailbox \in Seq(Mail) /\ owner \in {"declared", "other"}
      /\ verified \in BOOLEAN /\ (owner = "other" => ~verified) /\ run \in [Run -> KnownRuns]
  BY DEF IntakeInv, ViewsInv
<1>1. [LedgerNext]_ledgerVars
  BY IntakeLedgerStep
<1>2. ViewsInv'
  BY <1>0, <1>1, ViewsStep
<1>3. ASSUME verified => verified', mailbox' = mailbox
      PROVE  KnownRuns \subseteq KnownRuns'
  BY <1>0, <1>1, <1>3, RunsKept
<1>4. ASSUME NEW i \in Run, Identify(i)
      PROVE  IntakeInv'
  <2>1. verified => verified'
    BY <1>4 DEF Identify
  <2>2. UNCHANGED <<mailbox, owner>>
    BY <1>4 DEF Identify
  <2>3. KnownRuns \subseteq KnownRuns'
    BY <1>3, <2>1, <2>2
  <2>4. /\ \E new \in KnownRuns' : Become(i, new)
        /\ verified' \in BOOLEAN /\ (owner = "other" => ~verified')
    BY <1>4, <2>3, IdentifyKnown
  <2>5. run' \in [Run -> KnownRuns']
    BY <1>0, <2>3, <2>4 DEF Become
  <2> QED
    BY <1>0, <1>2, <2>2, <2>4, <2>5 DEF IntakeInv
<1>5. ASSUME NEW i \in Run,
             \/ Start(i) \/ Unreadable(i) \/ List(i) \/ Fetch(i) \/ Store(i) \/ Report(i)
             \/ Decline(i) \/ Raise(i)
      PROVE  IntakeInv'
  <2>1. UNCHANGED <<mailbox, owner, verified>>
    BY <1>5 DEF Start, Unreadable, List, Fetch, Store, Report, Decline, Raise
  <2>2. KnownRuns \subseteq KnownRuns'
    BY <1>3, <2>1
  <2>3. ASSUME Report(i) \/ Decline(i) \/ Raise(i)
        PROVE  \E new \in KnownRuns : Become(i, new)
    <3>1. \A stage \in {"reported", "rejected", "raised"} : Ending(i, stage) \in KnownRuns
      BY EndingKnown DEF Over
    <3> QED
      BY <2>3, <3>1 DEF Report, Decline, Raise
  <2>4. \E new \in KnownRuns' : Become(i, new)
    BY <1>5, <2>2, <2>3, StartKnown, UnreadableKnown, ListKnown, FetchKnown, StoreKnown
  <2>5. run' \in [Run -> KnownRuns']
    BY <1>0, <2>2, <2>4 DEF Become
  <2> QED
    BY <1>0, <1>2, <2>1, <2>5 DEF IntakeInv
<1>6. ASSUME NEW m \in Mail, Deliver(m)
      PROVE  IntakeInv'
  <2>1. mailbox' = <<m>> \o mailbox /\ UNCHANGED <<owner, verified, run>>
    BY <1>6 DEF Deliver
  <2>2. KnownRuns \subseteq KnownRuns'
    BY <1>0, <1>1, <2>1, RunsKept
  <2>3. mailbox' \in Seq(Mail)
    BY <1>0, <2>1
  <2>4. run' \in [Run -> KnownRuns']
    BY <1>0, <2>1, <2>2
  <2> QED
    BY <1>0, <1>2, <2>1, <2>3, <2>4 DEF IntakeInv
<1>7. ASSUME UNCHANGED intakeVars
      PROVE  IntakeInv'
  <2>1. UNCHANGED <<mailbox, owner, verified, run>>
    BY <1>7 DEF intakeVars
  <2>2. KnownRuns \subseteq KnownRuns'
    BY <1>3, <2>1
  <2>3. run' \in [Run -> KnownRuns']
    BY <1>0, <2>1, <2>2
  <2> QED
    BY <1>0, <1>2, <2>1, <2>3 DEF IntakeInv
<1> QED
  BY <1>4, <1>5, <1>6, <1>7 DEF Next, Step, ImportFile, vars

LEMMA IntakeHolds == Spec => []IntakeInv
  BY IntakeInit, IntakeStep, PTL DEF Spec

-----------------------------------------------------------------------------
(* What an import promises. *)

\* Imports change the record only by the transactions of data/repository.py, so whatever is
\* proved of LedgerSpec holds with any number of them.
THEOREM IntakeUsesLedger == Spec => LedgerSpec
<1>1. Init => LedgerInit
  BY DEF Init
<1> QED
  BY <1>1, IntakeLedgerStep, IntakeHolds, PTL DEF Spec, LedgerSpec

\* Runs have their types, and what is fetched and stored follows what was found.
THEOREM IntakeTypes == Spec => []IntakeTypeOK
<1>1. IntakeInv => IntakeTypeOK
  BY DEF IntakeInv, KnownRuns, Locals, Batch, IntakeTypeOK
<1> QED
  BY <1>1, IntakeHolds, PTL

\* Nothing of a mailbox the operator did not declare is read or stored, however many runs
\* share the reader that verify_identity() of communications/gmail.py asks only once.
THEOREM OnlyOwnMailbox == Spec => []OwnMailboxOnly
<1>1. IntakeInv => OwnMailboxOnly
  <2> SUFFICES ASSUME IntakeInv, owner = "other", NEW i \in Run
               PROVE  run[i].found = <<>> /\ run[i].records = <<>>
    BY DEF OwnMailboxOnly
  <2>1. run[i] \in KnownRuns /\ ~verified
    BY DEF IntakeInv
  <2> QED
    BY <2>1 DEF KnownRuns, Reading
<1> QED
  BY <1>1, IntakeHolds, PTL

\* A read that fails at any message of any page has stored nothing (SourceUnreadable of
\* system/intake.py).
THEOREM UnreadableStored == Spec => []UnreadableStoresNothing
<1>1. IntakeInv => UnreadableStoresNothing
  BY DEF IntakeInv, KnownRuns, UnreadableStoresNothing, At
<1> QED
  BY <1>1, IntakeHolds, PTL

\* Each entry of a report names the reviews its message is the source of (ingest() of
\* data/repository.py answers a replay from provenance), whatever was stored meanwhile.
THEOREM ReportsHold == Spec => []ReportsAgree
<1>1. IntakeInv => ReportsAgree
  <2> SUFFICES ASSUME IntakeInv, NEW i \in Run, NEW k \in DOMAIN run[i].records
               PROVE  run[i].records[k] \in KnownEntries
    BY DEF ReportsAgree, KnownEntries
  <2>1. run[i].records \in Seq(KnownEntries)
    BY DEF IntakeInv, KnownRuns
  <2> QED
    BY <2>1
<1> QED
  BY <1>1, IntakeHolds, PTL

\* The identifiers of a batch are all different.
LEMMA BatchSize ==
  ASSUME NEW s \in Batch
  PROVE  Cardinality(ToSet(s)) = Len(s)
<1>1. PICK n \in Nat : n = Len(s)
  BY DEF Batch
<1>2. /\ DOMAIN s = 1..n
      /\ s = [i \in 1..n |-> s[i]]
      /\ \A i, k \in 1..n : s[i] = s[k] => i = k
      /\ ToSet(s) = {s[i] : i \in 1..n}
  BY <1>1 DEF Batch, ToSet
<1>3. s \in [1..n -> ToSet(s)]
  <2>1. \A i \in 1..n : s[i] \in ToSet(s)
    BY <1>2
  <2> QED
    BY <1>2, <2>1, Zenon
<1>4. s \in Injection(1..n, ToSet(s))
  BY <1>2, <1>3, Zenon DEF Injection, IsInjective
<1>5. s \in Surjection(1..n, ToSet(s))
  BY <1>2, <1>3 DEF Surjection
<1>6. ExistsBijection(1..n, ToSet(s))
  BY <1>4, <1>5, Zenon DEF ExistsBijection, Bijection
<1>7. /\ 1 \in Int /\ n \in Int
      /\ (IF 1 > n THEN 0 ELSE n - 1 + 1) = n
  OBVIOUS
<1>8. IsFiniteSet(1..n) /\ Cardinality(1..n) = n
  <2>1. /\ IsFiniteSet(1..n)
        /\ Cardinality(1..n) = IF 1 > n THEN 0 ELSE n - 1 + 1
    BY <1>7, FS_Interval, Zenon
  <2> QED
    BY <1>7, <2>1
<1>9. Cardinality(ToSet(s)) = Cardinality(1..n)
  BY <1>6, <1>8, FS_Bijection, Zenon
<1> QED
  BY <1>1, <1>8, <1>9

\* A batch that is shorter than was asked for misses nothing that was there when the run began
\* (identifiers() counts unique identifiers, "because letting a repeat spend the budget would
\* silently drop a distinct message"), unless MAX_PAGES ended the walk.
THEOREM BatchesComplete == Spec => []BatchComplete
<1>1. IntakeInv => BatchComplete
  <2> SUFFICES ASSUME IntakeInv, NEW i \in Run, run[i].stage \in {"fetching", "storing"},
                      Cardinality(ToSet(run[i].found)) # Limit, run[i].pages # MaxPages,
                      NEW k \in 1..run[i].begin
               PROVE  mailbox[Len(mailbox) + 1 - k] \in ToSet(run[i].found)
    BY DEF BatchComplete
  <2>1. run[i] \in KnownRuns /\ run[i].found \in Batch /\ run[i].begin \in Nat
        /\ mailbox \in Seq(Mail)
    BY DEF IntakeInv, KnownRuns, Locals
  <2>2. Len(run[i].found) # Limit
    BY <2>1, BatchSize
  <2>3. Seen(run[i], Len(mailbox))
    BY <2>1, <2>2 DEF KnownRuns
  <2>4. Len(mailbox) + 1 - k <= Len(mailbox)
    BY <2>1
  <2> QED
    BY <2>3, <2>4 DEF Seen
<1> QED
  BY <1>1, IntakeHolds, PTL
=============================================================================
