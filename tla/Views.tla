------------------------------- MODULE Views --------------------------------
(***************************************************************************)
(* What an operator is shown of the record: the projections of             *)
(* data/repository.py and the classification of system/views.py.  Nothing  *)
(* here changes state; the question is whether what is shown agrees with   *)
(* what the write transactions of Ledger would do next.                    *)
(***************************************************************************)
EXTENDS Ledger

\* The opportunities that have a review, which are all that intake ever stores.
Listed == {j \in Job : content[j] # <<>>}

CurrentReview(j) == <<j, Len(content[j])>>

Summary(j) ==
  [review |-> CurrentReview(j), status |-> LatestEvent(j).status, event |-> LatestEvent(j).id,
   advances |-> ContentOf(CurrentReview(j)) \in Advancing]

\* Mutant: a decision is said to bind as long as the wording is the same.
BindsWording(row, to) == row # NoDecision

\* Whether a decision binds the material shown beside it: the same recipient, for a wording
\* that cannot differ within one review, and a destination, which every row has here.
Binds(row, to) == row # NoDecision /\ row.to = to

Action(row, attempt, to) ==
  [decision |-> row.verdict, binds |-> Binds(row, to), attempted |-> attempt # "none",
   draft |-> attempt]

\* The order of the tests is the rule.
Queue(summary, action) ==
  LET approved == action.decision = "approved" IN
  CASE action.draft \in {"attempting", "uncertain"} -> "reconcile"
    [] action.draft = "confirmed" -> "created"
    [] OTHER ->
         IF approved /\ ~action.binds THEN "stale"
         ELSE IF approved /\ summary.status \notin Terminal THEN "draft"
         ELSE IF summary.advances /\ action.decision = "none"
                 /\ summary.status \notin Terminal THEN "decide"
         ELSE IF action.decision = "rejected" THEN "rejected"
         ELSE "none"

\* The queue of an opportunity when nothing moves while it is read.
QueueOf(j) ==
  LET r == CurrentReview(j) IN
  Queue(Summary(j), Action(decision[r], intent[r].state, Addressing(r)))

\* What approval() tells the operator to do about a standing approval.
Advice(action) ==
  IF action.decision # "approved" \/ action.binds THEN "none"
  ELSE IF ~action.attempted THEN "reapprove"
  ELSE IF action.draft = "confirmed" THEN "the earlier draft stands" ELSE "reconcile"

AdviceOf(j) ==
  LET r == CurrentReview(j) IN
  Advice(Action(decision[r], intent[r].state, Addressing(r)))

\* The messages that are listed: those with a message_sources row.
Communications == {m \in DOMAIN messages : messages[m].sender # None}

\* Mutant: a message addresses whatever it ever contributed to.
AddressesEver(m) == {j \in Listed : messages[m].jobs[j] # None}

\* What a message's page says it addresses: the jobs whose newest provenance row it is.
Addresses(m) == {j \in Job : provenance[j] = m}

-----------------------------------------------------------------------------
\* claim() would reserve the review for some destination.
Draftable(r) == intent[r] = NoIntent /\ \E mailbox \in Mailbox : Authorized(r, mailbox)

\* decide() would accept an approval.
Approvable(r) ==
  /\ Current(r) /\ ContentOf(r) \in Advancing /\ ~Ended(r[1])
  /\ intent[r] = NoIntent

\* The queue an opportunity is listed in, computed from projections that repeat none of the
\* write paths' code, is what the write paths would do: "draft" exactly when a reservation
\* would be granted, "decide" only where an approval would be accepted, "reconcile" and
\* "created" exactly when the row says so, and "stale" only where nothing can be drafted.  The
\* advice beside a standing approval, another rule over the same facts, agrees with it.
QueueIsHonest ==
  \A j \in Listed : LET r == CurrentReview(j) IN
    /\ QueueOf(j) = "draft" <=> Draftable(r)
    /\ QueueOf(j) = "decide" => Approvable(r) /\ decision[r] = NoDecision
    /\ QueueOf(j) = "reconcile" <=> intent[r].state \in {"attempting", "uncertain"}
    /\ QueueOf(j) = "created" <=> intent[r].state = "confirmed"
    /\ QueueOf(j) = "stale" => intent[r] = NoIntent /\ Approved(r)
    /\ AdviceOf(j) = "reapprove" <=> QueueOf(j) = "stale"
    /\ AdviceOf(j) = "reconcile" => QueueOf(j) = "reconcile"

\* A message's page and the draft path choose a job's source over different rows: the page
\* the newest row of provenance, the draft path the newest one that is joined to a sender.
\* Where the page names a job, the draft path agrees: a draft for its current review would go
\* to the sender of that very message, whatever other messages said of the job before.
AddressesAreBound ==
  \A m \in Communications : \A j \in Addresses(m) : SourceOf(CurrentReview(j)) = m
=============================================================================
