------------------------------ MODULE Outward -------------------------------
(***************************************************************************)
(* The outward commands: OutwardActions.draft() and .reconcile() of        *)
(* system/workflow.py and the answer outward.attempt() gives about them,   *)
(* run by any number of invocations at once (CLI processes and threads of  *)
(* the web server) over one record, against a mail provider that may       *)
(* answer, deny, answer late or never answer.                              *)
(*                                                                         *)
(* An invocation is one call; it takes one step per repository call or     *)
(* provider request, and everything else (intake, status events, decisions,*)
(* other invocations, the provider) may move between two steps.  A local   *)
(* composition check makes no request and joins the read it judges.        *)
(***************************************************************************)
EXTENDS Ledger

CONSTANTS
  Invocation,  \* calls of draft() or reconcile(); each runs once
  Composable,  \* the senders a draft can be composed for; "" (None) never is
  Faults       \* whether processes may die and write reservations may time out

ASSUME OutwardAssumption ==
  /\ Invocation \subseteq Receipt   \* a create request yields its own receipt
  /\ Composable \subseteq Sender
  /\ Faults \in BOOLEAN

VARIABLES
  call,      \* invocation -> its arguments and the credential it was launched with
  pc,        \* invocation -> where it stands
  seen,      \* invocation -> the draft_intents row its first read returned
  approval,  \* invocation -> the mailbox approved_identity() returned, or None
  request,   \* invocation -> the material claim() verified, which create() is given
  value,     \* invocation -> the receipt create() or lookup() returned, or None
  result,    \* invocation -> how draft() or reconcile() ended
  report,    \* invocation -> what attempt() answered
  wire       \* invocation -> its draft-create request, as the provider has it

callVars == <<seen, approval, request, value>>
outwardVars == <<call, pc, seen, approval, request, value, result, report, wire>>
vars == <<ledgerVars, outwardVars>>

Call == [command : {"draft", "reconcile"}, review : Review,
         declared : Mailbox, credential : Mailbox]

DraftPC == {"approval", "binding", "addressing", "identity", "refuse", "claim", "create",
            "await", "unsettle", "interrupted", "release", "settle"}
ReconcilePC == {"verify", "lookup", "record"}
PC == {"start", "bound", "report", "done"} \cup DraftPC \cup ReconcilePC

Result == {"none", "returned", "DraftRefused", "ProviderRejected", "DraftUncertain",
           "ValueError", "fault"}

Material == [to : Sender \cup {None}, content : Content \cup {None}]
NoMaterial == [to |-> None, content |-> None]
Answers == [outcome : {"none", "ACCEPTED", "REFUSED", "PROVIDER_REJECTED", "UNCERTAIN", "raised"},
            state : {"none", "attempting", "uncertain", "confirmed"},
            receipt : Receipt \cup {None}]
NoReport == [outcome |-> "none", state |-> "none", receipt |-> None]

R(i) == call[i].review
Row(i) == intent[R(i)]

\* The drafts this program put into a mailbox for a review: each create request that
\* landed is one, and its receipt is the request's own.
Landed(r, mailbox) ==
  {k \in Invocation :
     wire[k] = "landed" /\ call[k].review = r /\ call[k].credential = mailbox}

\* compose() of a draft to this address would pass recipient(), subject() and _verify().
Composes(to) == to \in Composable

-----------------------------------------------------------------------------
(* Control. *)

Goto(i, label) ==
  /\ pc' = [pc EXCEPT ![i] = label]
  /\ UNCHANGED <<result, report>>

\* draft() or reconcile() returns v, or raises; its locals are gone.
Leave(i, how, v) ==
  /\ pc' = [pc EXCEPT ![i] = "report"]
  /\ result' = [result EXCEPT ![i] = how]
  /\ value' = [value EXCEPT ![i] = v]
  /\ seen' = [seen EXCEPT ![i] = NoIntent]
  /\ approval' = [approval EXCEPT ![i] = None]
  /\ UNCHANGED <<request, report>>

Raise(i, how) == Leave(i, how, None)

\* Mutant: the answer is the first column of (state, receipt), not the second.
AnswerState(i, row) ==
  Leave(i, "returned", IF row.state = "confirmed" THEN row.state ELSE None)

\* Both commands answer a standing row with its receipt, or None while it is unsettled.
Answer(i, row) ==
  Leave(i, "returned", IF row.state = "confirmed" THEN row.receipt ELSE None)

At(i, label) ==
  /\ pc[i] = label
  /\ UNCHANGED <<call, wire>>

-----------------------------------------------------------------------------
(* draft() and reconcile(): the standing intent. *)

ReadIntent(i) ==
  /\ At(i, "start")
  /\ IF Row(i) # NoIntent
       THEN /\ seen' = [seen EXCEPT ![i] = Row(i)]
            /\ Goto(i, "bound")
            /\ UNCHANGED <<approval, request, value>>
       ELSE IF call[i].command = "draft"
              THEN Goto(i, "approval") /\ UNCHANGED callVars
              ELSE Raise(i, "ValueError")
  /\ UNCHANGED ledgerVars

\* intent_identity() is a second read; the row may have been released since the first.
CheckBound(i) ==
  /\ At(i, "bound")
  /\ IF Row(i).mailbox # call[i].declared
       THEN Raise(i, "ValueError")
       ELSE IF call[i].command = "draft" \/ seen[i].state = "confirmed"
              THEN Answer(i, seen[i])
              ELSE Goto(i, "verify") /\ UNCHANGED callVars
  /\ UNCHANGED ledgerVars

-----------------------------------------------------------------------------
(* draft(): from the approval to the reservation. *)

ReadApproval(i) ==
  /\ At(i, "approval")
  /\ IF ~Approved(R(i))
       THEN Goto(i, "binding") /\ UNCHANGED callVars
       ELSE IF decision[R(i)].mailbox # call[i].declared
              THEN Raise(i, "ValueError")
              ELSE /\ approval' = [approval EXCEPT ![i] = decision[R(i)].mailbox]
                   /\ Goto(i, "binding")
                   /\ UNCHANGED <<seen, request, value>>
  /\ UNCHANGED ledgerVars

\* draft_material() reads the review and then, in another statement, its addressing.
ReadBinding(i) ==
  /\ At(i, "binding")
  /\ IF Current(R(i)) THEN Goto(i, "addressing") /\ UNCHANGED callVars
                      ELSE Raise(i, "ValueError")
  /\ UNCHANGED ledgerVars

ReadAddressing(i) ==
  /\ At(i, "addressing")
  /\ Goto(i, IF Composes(Addressing(R(i))) THEN "identity" ELSE "refuse")
  /\ UNCHANGED <<callVars, ledgerVars>>

\* identity(): the credential's own mailbox, or a failure that refuses.
Identify(i) ==
  /\ At(i, "identity")
  /\ \/ Goto(i, "refuse") /\ UNCHANGED callVars
     \/ IF approval[i] \in {None, call[i].credential}
          THEN Goto(i, "claim") /\ UNCHANGED callVars
          ELSE Raise(i, "ValueError")
  /\ UNCHANGED ledgerVars

RefuseStep(i) ==
  /\ At(i, "refuse")
  /\ IF Row(i) # NoIntent THEN Answer(i, Row(i)) /\ UNCHANGED ledgerVars
                          ELSE Refuse(R(i)) /\ Raise(i, "DraftRefused")

ClaimStep(i) ==
  /\ At(i, "claim")
  /\ \/ /\ Claim(R(i), call[i].credential)
        /\ request' = [request EXCEPT ![i] =
             [to |-> Addressing(R(i)), content |-> ContentOf(R(i))]]
        /\ Goto(i, "create")
        /\ UNCHANGED <<seen, approval, value>>
     \/ /\ Current(R(i)) /\ Approved(R(i)) /\ Row(i) # NoIntent
        /\ Answer(i, Row(i))
        /\ UNCHANGED ledgerVars
     \/ /\ IF Row(i) = NoIntent THEN ~Authorized(R(i), call[i].credential)
                                ELSE ~(Current(R(i)) /\ Approved(R(i)))
        /\ Raise(i, "ValueError")
        /\ UNCHANGED ledgerVars

-----------------------------------------------------------------------------
(* draft(): the create request and what is recorded of it. *)

\* Mutant: the address is read again after the reservation.
SendCreateRereads(i) ==
  /\ pc[i] = "create"
  /\ Composes(Addressing(R(i)))
  /\ request' = [request EXCEPT ![i].to = Addressing(R(i))]
  /\ Goto(i, "await")
  /\ wire' = [wire EXCEPT ![i] = "sent"]
  /\ UNCHANGED <<call, seen, approval, value, ledgerVars>>

\* create() composes first.  What it cannot compose it refuses without a request, and the
\* `except Exception` of draft() takes that for an unknown outcome.
SendCreate(i) ==
  /\ pc[i] = "create"
  /\ IF Composes(request[i].to)
       THEN Goto(i, "await") /\ wire' = [wire EXCEPT ![i] = "sent"]
       ELSE Goto(i, "unsettle") /\ UNCHANGED wire
  /\ UNCHANGED <<call, callVars, ledgerVars>>

\* Mutant: an accepted request is taken for a created draft.
GetReceiptEarly(i) ==
  /\ At(i, "await")
  /\ wire[i] \in {"sent", "landed"}
  /\ value' = [value EXCEPT ![i] = i]
  /\ Goto(i, "settle")
  /\ UNCHANGED <<seen, approval, request, ledgerVars>>

GetReceipt(i) ==
  /\ At(i, "await")
  /\ wire[i] = "landed"
  /\ value' = [value EXCEPT ![i] = i]
  /\ Goto(i, "settle")
  /\ UNCHANGED <<seen, approval, request, ledgerVars>>

\* Mutant: any failing status is taken for proof that nothing was created.
GetRejectionLoose(i) ==
  /\ At(i, "await")
  /\ wire[i] \in {"sent", "denied"}
  /\ Goto(i, "release")
  /\ UNCHANGED <<callVars, ledgerVars>>

GetRejection(i) ==
  /\ At(i, "await")
  /\ wire[i] = "denied"
  /\ Goto(i, "release")
  /\ UNCHANGED <<callVars, ledgerVars>>

\* A timeout, a reset, a status that proves nothing or an unusable body; or an interrupt.
LoseAnswer(i) ==
  /\ At(i, "await")
  /\ \/ Goto(i, "unsettle")
     \/ Faults /\ Goto(i, "interrupted")
  /\ UNCHANGED <<callVars, ledgerVars>>

\* Mutant: the provider's own exception escapes instead of DraftUncertain.
UnsettleReraises(i) ==
  /\ At(i, "unsettle")
  /\ Finish(R(i), None)
  /\ Raise(i, "ValueError")

\* Mutant: an unknown outcome releases the reservation.
UnsettleReleases(i) ==
  /\ At(i, "unsettle")
  /\ Reject(R(i))
  /\ Raise(i, "DraftUncertain")

Unsettle(i) ==
  /\ At(i, "unsettle")
  /\ IF FinishRaises(R(i), None)
       THEN Raise(i, "ValueError") /\ UNCHANGED ledgerVars
       ELSE Finish(R(i), None) /\ Raise(i, "DraftUncertain")

\* Mutant: a proven rejection is reported and the reservation forgotten.
ReleaseSkipped(i) ==
  /\ At(i, "release")
  /\ Raise(i, "ProviderRejected")
  /\ UNCHANGED ledgerVars

Release(i) ==
  /\ At(i, "release")
  /\ IF Row(i).state # "attempting"
       THEN Raise(i, "ValueError") /\ UNCHANGED ledgerVars
       ELSE Reject(R(i)) /\ Raise(i, "ProviderRejected")

\* finish(receipt) of a created draft, or of one reconcile() found.
Settle(i) ==
  /\ At(i, pc[i]) /\ pc[i] \in {"settle", "record"}
  /\ IF FinishRaises(R(i), value[i])
       THEN Raise(i, "DraftUncertain") /\ UNCHANGED ledgerVars
       ELSE Finish(R(i), value[i]) /\ Leave(i, "returned", value[i])

-----------------------------------------------------------------------------
(* reconcile(): prove the mailbox, search it. *)

Verify(i) ==
  /\ At(i, "verify")
  /\ \/ Raise(i, "DraftRefused")
     \/ IF call[i].credential # call[i].declared
          THEN Raise(i, "ValueError")
          ELSE Goto(i, "lookup") /\ UNCHANGED callVars
  /\ UNCHANGED ledgerVars

\* lookup() answers with the one draft that carries the review's intent key, or None: the
\* listing may be cut off, the draft not listed yet, or gone.  It may also fail.
Lookup(i) ==
  /\ At(i, "lookup")
  /\ \/ \E k \in Landed(R(i), call[i].credential) :
          /\ Landed(R(i), call[i].credential) = {k}
          /\ value' = [value EXCEPT ![i] = k]
          /\ Goto(i, "record")
          /\ UNCHANGED <<seen, approval, request>>
     \/ Leave(i, "returned", None)
     \/ Raise(i, "DraftUncertain")
  /\ UNCHANGED ledgerVars

-----------------------------------------------------------------------------
(* attempt(): the answer, over a fresh read of the row. *)

Outcome(i) ==
  CASE result[i] \in {"DraftRefused", "ValueError"} -> "REFUSED"
    [] result[i] = "ProviderRejected" -> "PROVIDER_REJECTED"
    [] result[i] = "DraftUncertain" -> "UNCERTAIN"
    [] result[i] = "fault" -> IF Row(i) = NoIntent THEN "raised" ELSE "UNCERTAIN"
    [] OTHER -> IF value[i] # None THEN "ACCEPTED"
                ELSE IF call[i].command = "draft" /\ Row(i).state = "attempting"
                       THEN "REFUSED" ELSE "UNCERTAIN"

Report(i) ==
  /\ At(i, "report")
  /\ pc' = [pc EXCEPT ![i] = "done"]
  /\ report' = [report EXCEPT ![i] =
       [outcome |-> Outcome(i), state |-> Row(i).state,
        receipt |-> IF result[i] = "returned" THEN value[i] ELSE Row(i).receipt]]
  /\ UNCHANGED <<callVars, result, ledgerVars>>

-----------------------------------------------------------------------------
(* Faults, the provider, and everyone else. *)

\* The process ends without an answer: a kill, or an interrupt that draft() records on
\* its way out.
Vanish(i) ==
  /\ pc' = [pc EXCEPT ![i] = "done"]
  /\ value' = [value EXCEPT ![i] = None]
  /\ seen' = [seen EXCEPT ![i] = NoIntent]
  /\ approval' = [approval EXCEPT ![i] = None]
  /\ UNCHANGED <<request, result, report>>

Interrupted(i) ==
  /\ At(i, "interrupted")
  /\ IF FinishRaises(R(i), None) THEN UNCHANGED ledgerVars ELSE Finish(R(i), None)
  /\ Vanish(i)

Crash(i) ==
  /\ Faults
  /\ At(i, pc[i]) /\ pc[i] # "done"
  /\ Vanish(i)
  /\ UNCHANGED ledgerVars

\* Mutant: the receipt is returned though it could not be recorded.
BusyIgnored(i) ==
  /\ Faults
  /\ At(i, pc[i]) /\ pc[i] \in {"settle", "record"}
  /\ Leave(i, "returned", value[i])
  /\ UNCHANGED ledgerVars

\* "Write reservation exhausted": the transaction raises and nothing is written.
Busy(i) ==
  /\ Faults
  /\ At(i, pc[i])
  /\ \/ pc[i] \in {"refuse", "claim", "unsettle", "release"} /\ Raise(i, "fault")
     \/ pc[i] \in {"settle", "record"} /\ Raise(i, "DraftUncertain")
  /\ UNCHANGED ledgerVars

\* The provider carries the request out, perhaps after the caller gave up on it.
Land(i) ==
  /\ wire[i] = "sent"
  /\ wire' = [wire EXCEPT ![i] = "landed"]
  /\ UNCHANGED <<call, pc, callVars, result, report, ledgerVars>>

\* The provider declines it with one of REJECTED_CREATE_STATUSES.
Deny(i) ==
  /\ wire[i] = "sent"
  /\ wire' = [wire EXCEPT ![i] = "denied"]
  /\ UNCHANGED <<call, pc, callVars, result, report, ledgerVars>>

\* Intake and the operator, from any surface.
Elsewhere ==
  /\ \/ \E m \in MessageId, p \in Payload : Ingest(m, p)
     \/ \E j \in Job, s \in Status : RecordStatus(j, s, None)
     \/ \E r \in Review, approved \in BOOLEAN, mailbox \in Mailbox :
          Decide(r, approved, mailbox, None)
  /\ UNCHANGED outwardVars

Init ==
  /\ LedgerInit
  /\ call \in [Invocation -> Call]
  /\ pc = [i \in Invocation |-> "start"]
  /\ seen = [i \in Invocation |-> NoIntent]
  /\ approval = [i \in Invocation |-> None]
  /\ request = [i \in Invocation |-> NoMaterial]
  /\ value = [i \in Invocation |-> None]
  /\ result = [i \in Invocation |-> "none"]
  /\ report = [i \in Invocation |-> NoReport]
  /\ wire = [i \in Invocation |-> "idle"]

\* What invocation i does of its own accord.
Step(i) ==
  \/ ReadIntent(i) \/ CheckBound(i)
  \/ ReadApproval(i) \/ ReadBinding(i) \/ ReadAddressing(i)
  \/ Identify(i) \/ RefuseStep(i) \/ ClaimStep(i)
  \/ SendCreate(i) \/ GetReceipt(i) \/ GetRejection(i) \/ LoseAnswer(i)
  \/ Unsettle(i) \/ Release(i) \/ Settle(i)
  \/ Verify(i) \/ Lookup(i)
  \/ Interrupted(i) \/ Report(i)

Next ==
  \/ \E i \in Invocation : Step(i)
  \/ \E i \in Invocation : Crash(i)
  \/ \E i \in Invocation : Busy(i)
  \/ \E i \in Invocation : Land(i)
  \/ \E i \in Invocation : Deny(i)
  \/ Elsewhere

Spec == Init /\ [][Next]_vars

\* Each transaction and request ends, the create request too (its transport has a timeout);
\* only the provider owes nothing.
FairSpec == Spec /\ \A i \in Invocation : WF_vars(Step(i))

-----------------------------------------------------------------------------
(* What the commands promise. *)

OutwardTypeOK ==
  /\ call \in [Invocation -> Call]
  /\ pc \in [Invocation -> PC]
  /\ seen \in [Invocation -> Intent]
  /\ approval \in [Invocation -> Mailbox \cup {None}]
  /\ request \in [Invocation -> Material]
  /\ value \in [Invocation -> Receipt \cup {None}]
  /\ result \in [Invocation -> Result]
  /\ report \in [Invocation -> Answers]
  /\ wire \in [Invocation -> {"idle", "sent", "landed", "denied"}]

\* One review never yields two provider drafts, over every mailbox, however many
\* invocations race, die, time out or are repeated, and however late a request lands.
AtMostOneDraft ==
  \A k, l \in Invocation :
    wire[k] = "landed" /\ wire[l] = "landed" /\ R(k) = R(l) => k = l

\* A draft in a mailbox, and a request still under way, is exactly what the operator
\* approved and where, and its row stands: neither a later source, nor a later decision,
\* nor a release can make the record deny or misstate it.
DraftIsApproved ==
  \A k \in Invocation : wire[k] \in {"sent", "landed"} =>
    /\ Row(k) # NoIntent
    /\ Row(k).mailbox = call[k].credential
    /\ Approved(R(k))
    /\ decision[R(k)].mailbox = call[k].credential
    /\ request[k] = [to |-> decision[R(k)].to, content |-> decision[R(k)].content]

\* A confirmed row names a draft that exists, for that review, in the mailbox it names,
\* whichever of draft() and reconcile() recorded it.
ConfirmedExists ==
  \A r \in Review : intent[r].state = "confirmed" =>
    intent[r].receipt \in Landed(r, intent[r].mailbox)

\* No write that follows the provider's answer can find the record in its way: the row of
\* the attempt still stands, unconfirmed or confirmed with the same receipt, whatever a
\* concurrent reconciliation did.  "No draft intent exists", "Receipt conflict" and
\* "No attempting draft intent to reject" are unreachable.
SettlementNeverConflicts ==
  \A i \in Invocation :
    /\ pc[i] \in {"unsettle", "interrupted", "settle", "record"} =>
         ~FinishRaises(R(i), value[i])
    /\ pc[i] = "release" => Row(i).state = "attempting"

\* An operator told REFUSED or PROVIDER_REJECTED may draft again: no request of that
\* invocation has created a draft or ever will.
RefusalIsFinal ==
  \A i \in Invocation :
    report[i].outcome \in {"REFUSED", "PROVIDER_REJECTED"} => wire[i] \in {"idle", "denied"}

\* An operator told ACCEPTED holds the receipt the record confirms, for good.
AcceptedIsRecorded ==
  \A i \in Invocation : report[i].outcome = "ACCEPTED" =>
    /\ Row(i).state = "confirmed"
    /\ Row(i).receipt = report[i].receipt

\* It made a reservation, and its process died or was denied the write that records the outcome.
Undone(i) ==
  /\ request[i] # NoMaterial
  /\ \/ pc[i] = "done" /\ report[i] = NoReport
     \/ result[i] \in {"fault", "DraftUncertain"}

\* No reservation stays "attempting" forever: the invocation that made it releases or settles
\* it, unless its process died or a write reservation ran out on it; whatever became of the
\* other invocations for that review is no excuse.
AttemptSettles ==
  \A r \in Review :
    intent[r].state = "attempting" ~>
      \/ intent[r].state # "attempting"
      \/ \E i \in Invocation : R(i) = r /\ Undone(i)

\* The commands implement DraftPromise, with the drafts in the mailboxes as the world.
Promise == INSTANCE DraftPromise WITH
  attempt <- [r \in Review |-> intent[r].state],
  created <- {r \in Review : \E k \in Invocation : wire[k] = "landed" /\ R(k) = r}

\* No draft appears for a review whose attempt was never reserved, or was released, or is
\* confirmed already; nothing confirmed was not created; nothing created is released.
PromiseKept == Promise!Spec

-----------------------------------------------------------------------------
(* What the documents say and the code does not do. *)

\* docs/approved-drafts.md, "A refusal is not an uncertain external write, and must not be
\* recorded as one": an uncertain row means a create request was sent.
UncertainMeansSent ==
  \A r \in Review : intent[r].state = "uncertain" =>
    \E i \in Invocation : R(i) = r /\ wire[i] # "idle"

\* outward.py, on UNCERTAIN: "A request was sent, its outcome cannot be established, and an
\* unsettled intent already stands"; and "an answer that contradicts the row it describes is
\* the one failure this whole vocabulary exists to prevent".
UncertainLeavesUnsettled ==
  \A i \in Invocation :
    report[i].outcome = "UNCERTAIN" => report[i].state \in {"attempting", "uncertain"}
=============================================================================
