---------------------------- MODULE OutwardProofs ----------------------------
(***************************************************************************)
(* Proofs about the outward commands, for any number of invocations,       *)
(* reviews, mailboxes and messages, with and without faults.               *)
(***************************************************************************)
EXTENDS Outward, LedgerProofs

USE OutwardAssumption

TypesOK == LedgerTypeOK /\ OutwardTypeOK

Control(i) ==
  Step(i) \/ Crash(i) \/ Busy(i) \/ Land(i) \/ Deny(i)

-----------------------------------------------------------------------------
(* Types. *)

LEMMA NoIntentType == NoIntent \in Intent
  BY DEF NoIntent, Intent

LEMMA RowType ==
  ASSUME TypesOK, NEW i \in Invocation
  PROVE  /\ R(i) \in Review
         /\ Row(i) \in Intent
         /\ call[i].credential \in Mailbox /\ call[i].declared \in Mailbox
<1>1. call[i] \in Call
  BY DEF TypesOK, OutwardTypeOK
<1>2. R(i) \in Review
  BY <1>1 DEF R, Call
<1> QED
  BY <1>1, <1>2 DEF Row, Call, TypesOK, LedgerTypeOK

\* The locals of an invocation keep their types when it moves on, answers or raises.
ControlTypes ==
  /\ pc \in [Invocation -> PC]
  /\ seen \in [Invocation -> Intent]
  /\ approval \in [Invocation -> Mailbox \cup {None}]
  /\ request \in [Invocation -> Material]
  /\ value \in [Invocation -> Receipt \cup {None}]
  /\ result \in [Invocation -> Result]
  /\ report \in [Invocation -> Answers]

LEMMA GotoType ==
  ASSUME TypesOK, NEW i \in Invocation, NEW label \in PC, Goto(i, label)
  PROVE  /\ pc' \in [Invocation -> PC]
         /\ result' \in [Invocation -> Result]
         /\ report' \in [Invocation -> Answers]
  BY DEF TypesOK, OutwardTypeOK, Goto

LEMMA StayType ==
  ASSUME TypesOK, NEW i \in Invocation, NEW label \in PC, Goto(i, label), UNCHANGED callVars
  PROVE  ControlTypes'
  BY GotoType DEF TypesOK, OutwardTypeOK, ControlTypes, callVars

LEMMA LeaveType ==
  ASSUME TypesOK, NEW i \in Invocation, NEW how \in Result, NEW v \in Receipt \cup {None},
         Leave(i, how, v)
  PROVE  ControlTypes'
<1>1. "report" \in PC
  BY DEF PC
<1> QED
  BY <1>1, NoIntentType DEF TypesOK, OutwardTypeOK, ControlTypes, Leave

LEMMA RaiseType ==
  ASSUME TypesOK, NEW i \in Invocation, NEW how \in Result, Raise(i, how)
  PROVE  ControlTypes'
  BY LeaveType DEF Raise

LEMMA AnswerType ==
  ASSUME TypesOK, NEW i \in Invocation, NEW row \in Intent, Answer(i, row)
  PROVE  ControlTypes'
<1>1. (IF row.state = "confirmed" THEN row.receipt ELSE None) \in Receipt \cup {None}
  BY DEF Intent
<1>2. "returned" \in Result
  BY DEF Result
<1> QED
  BY <1>1, <1>2, LeaveType DEF Answer

LEMMA VanishType ==
  ASSUME TypesOK, NEW i \in Invocation, Vanish(i)
  PROVE  ControlTypes'
<1>1. "done" \in PC
  BY DEF PC
<1> QED
  BY <1>1, NoIntentType DEF TypesOK, OutwardTypeOK, ControlTypes, Vanish

LEMMA ReportType ==
  ASSUME TypesOK, NEW i \in Invocation, Report(i)
  PROVE  ControlTypes'
<1>1. Row(i) \in Intent
  BY RowType
<1>2. Outcome(i) \in {"ACCEPTED", "REFUSED", "PROVIDER_REJECTED", "UNCERTAIN", "raised"}
  BY DEF Outcome
<1>3. value[i] \in Receipt \cup {None}
  BY DEF TypesOK, OutwardTypeOK
<1>4. [outcome |-> Outcome(i), state |-> Row(i).state,
       receipt |-> IF result[i] = "returned" THEN value[i] ELSE Row(i).receipt] \in Answers
  BY <1>1, <1>2, <1>3 DEF Intent, Answers
<1>5. "done" \in PC
  BY DEF PC
<1> QED
  BY <1>4, <1>5 DEF TypesOK, OutwardTypeOK, ControlTypes, Report, callVars

\* The steps that do more than move on, answer or raise.
LEMMA ReadsType ==
  ASSUME TypesOK, NEW i \in Invocation, ReadIntent(i) \/ CheckBound(i) \/ ReadApproval(i)
  PROVE  ControlTypes'
<1>0. /\ {"bound", "approval", "binding", "verify"} \subseteq PC
      /\ "ValueError" \in Result
      /\ Row(i) \in Intent /\ seen[i] \in Intent
      /\ R(i) \in Review
  BY RowType DEF PC, DraftPC, ReconcilePC, Result, TypesOK, OutwardTypeOK
<1>1. CASE ReadIntent(i)
  <2>1. CASE Row(i) # NoIntent
    <3>1. Goto(i, "bound") /\ seen' = [seen EXCEPT ![i] = Row(i)]
          /\ UNCHANGED <<approval, request, value>>
      BY <1>1, <2>1 DEF ReadIntent
    <3> QED
      BY <1>0, <3>1, GotoType DEF ControlTypes, TypesOK, OutwardTypeOK
  <2>2. CASE Row(i) = NoIntent /\ call[i].command = "draft"
    BY <1>0, <1>1, <2>2, StayType DEF ReadIntent
  <2>3. CASE Row(i) = NoIntent /\ call[i].command # "draft"
    BY <1>0, <1>1, <2>3, RaiseType DEF ReadIntent
  <2> QED
    BY <2>1, <2>2, <2>3
<1>2. CASE CheckBound(i)
  <2>1. \/ Raise(i, "ValueError")
        \/ Answer(i, seen[i])
        \/ Goto(i, "verify") /\ UNCHANGED callVars
    BY <1>2 DEF CheckBound
  <2> QED
    BY <1>0, <2>1, RaiseType, AnswerType, StayType
<1>3. CASE ReadApproval(i)
  <2>1. \/ Goto(i, "binding") /\ UNCHANGED callVars
        \/ Raise(i, "ValueError")
        \/ /\ Approved(R(i))
           /\ approval' = [approval EXCEPT ![i] = decision[R(i)].mailbox]
           /\ Goto(i, "binding")
           /\ UNCHANGED <<seen, request, value>>
    BY <1>3 DEF ReadApproval
  <2>2. decision[R(i)].mailbox \in Mailbox \cup {None}
    BY <1>0 DEF TypesOK, LedgerTypeOK, Decision
  <2>3. CASE /\ approval' = [approval EXCEPT ![i] = decision[R(i)].mailbox]
             /\ Goto(i, "binding")
             /\ UNCHANGED <<seen, request, value>>
    BY <1>0, <2>2, <2>3, GotoType DEF ControlTypes, TypesOK, OutwardTypeOK
  <2> QED
    BY <1>0, <2>1, <2>3, RaiseType, StayType
<1> QED
  BY <1>1, <1>2, <1>3

LEMMA ChecksType ==
  ASSUME TypesOK, NEW i \in Invocation,
         ReadBinding(i) \/ ReadAddressing(i) \/ Identify(i) \/ RefuseStep(i) \/ Verify(i)
  PROVE  ControlTypes'
<1>0. /\ {"addressing", "identity", "refuse", "claim", "lookup"} \subseteq PC
      /\ {"ValueError", "DraftRefused"} \subseteq Result
      /\ Row(i) \in Intent
  BY RowType DEF PC, DraftPC, ReconcilePC, Result
<1>1. \/ Raise(i, "ValueError")
      \/ Raise(i, "DraftRefused")
      \/ Answer(i, Row(i))
      \/ \E label \in {"addressing", "identity", "refuse", "claim", "lookup"} :
           Goto(i, label) /\ UNCHANGED callVars
  BY DEF ReadBinding, ReadAddressing, Identify, RefuseStep, Verify
<1> QED
  BY <1>0, <1>1, RaiseType, AnswerType, StayType

LEMMA ClaimStepType ==
  ASSUME TypesOK, NEW i \in Invocation, ClaimStep(i)
  PROVE  ControlTypes'
<1>0. "create" \in PC /\ "ValueError" \in Result /\ Row(i) \in Intent /\ R(i) \in Review
  BY RowType DEF PC, DraftPC, Result
<1>1. CASE /\ Claim(R(i), call[i].credential)
           /\ request' = [request EXCEPT ![i] =
                [to |-> Addressing(R(i)), content |-> ContentOf(R(i))]]
           /\ Goto(i, "create")
           /\ UNCHANGED <<seen, approval, value>>
  <2>1. Addressing(R(i)) \in Sender \cup {None} /\ ContentOf(R(i)) \in Content
    BY <1>0, <1>1, ReadTypes DEF TypesOK, Claim, Authorized
  <2>2. [to |-> Addressing(R(i)), content |-> ContentOf(R(i))] \in Material
    BY <2>1 DEF Material
  <2> QED
    BY <1>0, <1>1, <2>2, GotoType DEF ControlTypes, TypesOK, OutwardTypeOK
<1> QED
  BY <1>0, <1>1, RaiseType, AnswerType DEF ClaimStep

LEMMA RequestType ==
  ASSUME TypesOK, NEW i \in Invocation,
         SendCreate(i) \/ GetReceipt(i) \/ GetRejection(i) \/ LoseAnswer(i)
  PROVE  ControlTypes'
<1>0. {"await", "unsettle", "interrupted", "release", "settle"} \subseteq PC
  BY DEF PC, DraftPC
<1>1. CASE GetReceipt(i)
  <2>1. /\ value' = [value EXCEPT ![i] = i] /\ Goto(i, "settle")
        /\ UNCHANGED <<seen, approval, request>>
    BY <1>1 DEF GetReceipt
  <2>2. i \in Receipt
    BY DEF OutwardAssumption
  <2> QED
    BY <1>0, <2>1, <2>2, GotoType DEF ControlTypes, TypesOK, OutwardTypeOK
<1>2. CASE ~GetReceipt(i)
  <2>1. \E label \in {"await", "unsettle", "interrupted", "release"} :
          Goto(i, label) /\ UNCHANGED callVars
    BY <1>2 DEF SendCreate, GetRejection, LoseAnswer
  <2> QED
    BY <1>0, <2>1, StayType
<1> QED
  BY <1>1, <1>2

LEMMA RecordType ==
  ASSUME TypesOK, NEW i \in Invocation,
         \/ Unsettle(i) \/ Release(i) \/ Settle(i) \/ Busy(i)
         \/ Interrupted(i) \/ Crash(i)
  PROVE  ControlTypes'
<1>0. /\ {"ValueError", "DraftUncertain", "ProviderRejected", "returned", "fault"}
           \subseteq Result
      /\ value[i] \in Receipt \cup {None}
  BY DEF Result, TypesOK, OutwardTypeOK
<1>1. \/ \E how \in {"ValueError", "DraftUncertain", "ProviderRejected", "fault"} : Raise(i, how)
      \/ Leave(i, "returned", value[i])
      \/ Vanish(i)
  BY DEF Unsettle, Release, Settle, Busy, Interrupted, Crash
<1> QED
  BY <1>0, <1>1, RaiseType, LeaveType, VanishType

LEMMA LookupType ==
  ASSUME TypesOK, NEW i \in Invocation, Lookup(i)
  PROVE  ControlTypes'
<1>0. /\ "record" \in PC
      /\ {"returned", "DraftUncertain"} \subseteq Result
      /\ None \in Receipt \cup {None}
  BY DEF PC, ReconcilePC, Result
<1>1. ASSUME NEW k \in Landed(R(i), call[i].credential),
             value' = [value EXCEPT ![i] = k],
             Goto(i, "record"),
             UNCHANGED <<seen, approval, request>>
      PROVE  ControlTypes'
  <2>1. k \in Receipt
    BY OutwardAssumption DEF Landed
  <2> QED
    BY <1>0, <1>1, <2>1, GotoType DEF ControlTypes, TypesOK, OutwardTypeOK
<1>2. \/ \E k \in Landed(R(i), call[i].credential) :
           /\ value' = [value EXCEPT ![i] = k]
           /\ Goto(i, "record")
           /\ UNCHANGED <<seen, approval, request>>
      \/ Leave(i, "returned", None)
      \/ Raise(i, "DraftUncertain")
  BY DEF Lookup
<1> QED
  BY <1>0, <1>1, <1>2, LeaveType, RaiseType

LEMMA WireType ==
  ASSUME TypesOK, NEW i \in Invocation, Control(i)
  PROVE  /\ call' = call
         /\ wire' \in [Invocation -> {"idle", "sent", "landed", "denied"}]
<1>1. \/ UNCHANGED <<call, wire>>
      \/ SendCreate(i) \/ Land(i) \/ Deny(i)
  BY DEF Control, Step, At, ReadIntent, CheckBound, ReadApproval, ReadBinding,
         ReadAddressing, Identify, RefuseStep, ClaimStep, GetReceipt, GetRejection,
         LoseAnswer, Unsettle, Release, Settle, Verify, Lookup, Interrupted, Report,
         Crash, Busy
<1> QED
  BY <1>1 DEF TypesOK, OutwardTypeOK, SendCreate, Land, Deny

LEMMA ControlType ==
  ASSUME TypesOK, NEW i \in Invocation, Control(i)
  PROVE  OutwardTypeOK'
<1>1. ControlTypes'
  <2>1. CASE Land(i) \/ Deny(i)
    BY <2>1 DEF Land, Deny, TypesOK, OutwardTypeOK, ControlTypes, callVars
  <2>2. CASE Report(i)
    BY <2>2, ReportType
  <2>3. CASE ~(Land(i) \/ Deny(i) \/ Report(i))
    BY <2>3, ReadsType, ChecksType, ClaimStepType, RequestType, RecordType, LookupType
       DEF Control, Step
  <2> QED
    BY <2>1, <2>2, <2>3
<1> QED
  BY <1>1, WireType DEF ControlTypes, TypesOK, OutwardTypeOK

-----------------------------------------------------------------------------
(* Every step of the commands is a transaction of the record, or leaves it alone. *)

LEMMA LedgerSteps ==
  ASSUME TypesOK, [Next]_vars
  PROVE  [LedgerNext]_ledgerVars
<1>1. CASE UNCHANGED vars
  BY <1>1 DEF vars
<1>2. CASE Elsewhere
  BY <1>2 DEF Elsewhere, LedgerNext
<1>3. ASSUME NEW i \in Invocation, Control(i)
      PROVE  [LedgerNext]_ledgerVars
  <2>0. /\ R(i) \in Review /\ call[i].credential \in Mailbox
        /\ value[i] \in Receipt \cup {None}
    BY RowType DEF TypesOK, OutwardTypeOK
  <2>1. \/ UNCHANGED ledgerVars
        \/ Refuse(R(i))
        \/ Claim(R(i), call[i].credential)
        \/ Finish(R(i), None)
        \/ Finish(R(i), value[i])
        \/ Reject(R(i))
    BY <1>3 DEF Control, Step, ReadIntent, CheckBound, ReadApproval, ReadBinding,
         ReadAddressing, Identify, RefuseStep, ClaimStep, SendCreate, GetReceipt, GetRejection,
         LoseAnswer, Unsettle, Release, Settle, Verify, Lookup, Interrupted, Report,
         Crash, Busy, Land, Deny
  <2> QED
    BY <2>0, <2>1 DEF LedgerNext
<1> QED
  BY <1>1, <1>2, <1>3 DEF Next, Control

LEMMA TypesInit == Init => TypesOK
<1> SUFFICES ASSUME Init PROVE TypesOK
  OBVIOUS
<1>1. LedgerTypeOK
  BY LedgerTypeInit DEF Init
<1>2. OutwardTypeOK
  BY NoIntentType DEF Init, OutwardTypeOK, PC, Result, NoMaterial, Material, NoReport, Answers
<1> QED
  BY <1>1, <1>2 DEF TypesOK

LEMMA TypesStep == TypesOK /\ [Next]_vars => TypesOK'
<1> SUFFICES ASSUME TypesOK, [Next]_vars PROVE TypesOK'
  OBVIOUS
<1>1. LedgerTypeOK'
  BY LedgerSteps, LedgerTypeStep DEF TypesOK
<1>2. OutwardTypeOK'
  <2>1. CASE UNCHANGED outwardVars
    BY <2>1 DEF outwardVars, TypesOK, OutwardTypeOK
  <2>2. ASSUME NEW i \in Invocation, Control(i)
        PROVE  OutwardTypeOK'
    BY <2>2, ControlType
  <2> QED
    BY <2>1, <2>2 DEF Next, Control, Elsewhere, vars
<1> QED
  BY <1>1, <1>2 DEF TypesOK

\* The record and every local of every invocation keep their types, under any faults.
THEOREM TypesCorrect == Spec => [](LedgerTypeOK /\ OutwardTypeOK)
<1>1. TypesOK => LedgerTypeOK /\ OutwardTypeOK
  BY DEF TypesOK
<1> QED
  BY <1>1, TypesInit, TypesStep, PTL DEF Spec

\* The commands never change the record except by its transactions, so whatever is proved of
\* LedgerSpec holds of them.
THEOREM OutwardUsesLedger == Spec => LedgerSpec
<1>1. Init => LedgerInit
  BY DEF Init
<1>2. TypesOK /\ [Next]_vars => [LedgerNext]_ledgerVars
  BY LedgerSteps
<1> QED
  BY <1>1, <1>2, TypesInit, TypesStep, PTL DEF Spec, LedgerSpec

-----------------------------------------------------------------------------
(* How an invocation's request follows its control. *)

Unsent == {"start", "bound", "approval", "binding", "addressing", "identity", "refuse",
           "claim", "create", "verify", "lookup", "record"}

Unanswered == {"start", "bound", "approval", "binding", "addressing", "identity", "refuse",
               "claim", "create", "await", "unsettle", "interrupted", "release"}

WireOK(i) ==
  /\ pc[i] \in Unsent => wire[i] = "idle"
  /\ pc[i] \in Unanswered => value[i] = None
  /\ pc[i] = "settle" => wire[i] = "landed" /\ value[i] = i
  /\ pc[i] = "release" => wire[i] = "denied"
  /\ pc[i] = "record" => value[i] \in Landed(R(i), call[i].credential)

WireFollows == \A i \in Invocation : WireOK(i)

\* A step of one invocation touches nothing of another.
LEMMA Frame ==
  ASSUME TypesOK, NEW i \in Invocation, Control(i), NEW k \in Invocation \ {i}
  PROVE  /\ pc'[k] = pc[k] /\ wire'[k] = wire[k]
         /\ value'[k] = value[k] /\ request'[k] = request[k]
<1> DEFINE Same == /\ pc'[k] = pc[k] /\ wire'[k] = wire[k]
                   /\ value'[k] = value[k] /\ request'[k] = request[k]
<1>0. /\ pc \in [Invocation -> PC] /\ DOMAIN wire = Invocation
      /\ DOMAIN value = Invocation /\ DOMAIN request = Invocation
  BY DEF TypesOK, OutwardTypeOK
<1>1. ASSUME NEW l, Goto(i, l)
      PROVE  pc'[k] = pc[k]
  BY <1>0, <1>1 DEF Goto
<1>2. ASSUME NEW how, NEW v, Leave(i, how, v)
      PROVE  pc'[k] = pc[k] /\ value'[k] = value[k] /\ request'[k] = request[k]
  BY <1>0, <1>2 DEF Leave
<1>3. CASE ReadIntent(i) \/ CheckBound(i) \/ ReadApproval(i) \/ ReadBinding(i)
  BY <1>1, <1>2, <1>3
     DEF At, callVars, Raise, Answer, ReadIntent, CheckBound, ReadApproval, ReadBinding
<1>4. CASE ReadAddressing(i) \/ Identify(i) \/ RefuseStep(i) \/ Verify(i)
  BY <1>1, <1>2, <1>4 DEF At, callVars, Raise, Answer, ReadAddressing, Identify, RefuseStep, Verify
<1>5. CASE ClaimStep(i) \/ GetReceipt(i) \/ Lookup(i)
  BY <1>0, <1>1, <1>2, <1>5 DEF At, Raise, Answer, ClaimStep, GetReceipt, Lookup
<1>6. CASE SendCreate(i) \/ GetRejection(i) \/ LoseAnswer(i)
  BY <1>0, <1>1, <1>6 DEF At, callVars, SendCreate, GetRejection, LoseAnswer
<1>7. CASE Unsettle(i) \/ Release(i) \/ Settle(i) \/ Busy(i)
  BY <1>2, <1>7 DEF At, Raise, Unsettle, Release, Settle, Busy
<1>8. CASE Interrupted(i) \/ Crash(i) \/ Report(i)
  BY <1>0, <1>8 DEF At, callVars, Vanish, Interrupted, Crash, Report
<1>9. CASE Land(i) \/ Deny(i)
  BY <1>0, <1>9 DEF callVars, Land, Deny
<1> QED
  BY <1>3, <1>4, <1>5, <1>6, <1>7, <1>8, <1>9 DEF Control, Step

\* A draft that landed stays in its mailbox.
LEMMA LandedStays ==
  ASSUME TypesOK, WireFollows, NEW i \in Invocation, Control(i),
         NEW k \in Invocation, wire[k] = "landed"
  PROVE  wire'[k] = "landed"
<1>1. UNCHANGED wire \/ SendCreate(i) \/ Land(i) \/ Deny(i)
  BY DEF Control, Step, At, ReadIntent, CheckBound, ReadApproval, ReadBinding,
     ReadAddressing, Identify, RefuseStep, ClaimStep, GetReceipt, GetRejection,
     LoseAnswer, Unsettle, Release, Settle, Verify, Lookup, Interrupted, Report,
     Crash, Busy
<1>2. SendCreate(i) => wire[i] = "idle"
  BY DEF SendCreate, WireFollows, WireOK, Unsent
<1>3. DOMAIN wire = Invocation
  BY DEF TypesOK, OutwardTypeOK
<1> QED
  BY <1>1, <1>2, <1>3 DEF SendCreate, Land, Deny

LEMMA WireStep ==
  ASSUME TypesOK, WireFollows, NEW i \in Invocation, Control(i)
  PROVE  WireFollows'
<1>0. /\ pc \in [Invocation -> PC] /\ wire \in [Invocation -> {"idle", "sent", "landed", "denied"}]
      /\ DOMAIN value = Invocation /\ call' = call /\ None \notin Receipt
      /\ i \in Receipt
  BY WireType, LedgerAssumption DEF TypesOK, OutwardTypeOK, OutwardAssumption
<1>1. \A k \in Invocation : wire[k] = "landed" => wire'[k] = "landed"
  BY LandedStays
<1>2. ASSUME NEW k \in Invocation \ {i}
      PROVE  WireOK(k)'
  <2>1. WireOK(k) /\ R(k)' = R(k)
    BY <1>0 DEF WireFollows, R
  <2>2. /\ pc'[k] = pc[k] /\ wire'[k] = wire[k] /\ value'[k] = value[k]
    BY Frame
  <2> QED
    BY <1>0, <1>1, <2>1, <2>2 DEF WireOK, Landed
<1>3. WireOK(i)'
  <2>0. WireOK(i)
    BY DEF WireFollows
  <2>1. ASSUME NEW l \in PC, pc[i] \in Unsent, l \in Unsent \ {"record"},
               l \in Unanswered => pc[i] \in Unanswered,
               Goto(i, l), UNCHANGED <<value, wire>>
        PROVE  WireOK(i)'
    BY <1>0, <2>0, <2>1 DEF WireOK, Goto, Unsent, Unanswered
  <2>2. ASSUME NEW how, NEW v, Leave(i, how, v)
        PROVE  WireOK(i)'
    BY <1>0, <2>2 DEF Leave, WireOK, Unsent, Unanswered
  <2>3. CASE Vanish(i)
    BY <1>0, <2>3 DEF Vanish, WireOK, Unsent, Unanswered
  <2>4. CASE ReadIntent(i) \/ CheckBound(i) \/ ReadApproval(i) \/ ReadBinding(i)
    BY <2>1, <2>2, <2>4 DEF At, callVars, Raise, Answer, ReadIntent, CheckBound, ReadApproval,
         ReadBinding, Unsent, Unanswered, PC, DraftPC, ReconcilePC
  <2>5. CASE ReadAddressing(i) \/ Identify(i) \/ RefuseStep(i) \/ Verify(i)
    BY <2>1, <2>2, <2>5 DEF At, callVars, Raise, Answer, ReadAddressing, Identify, RefuseStep,
         Verify, Unsent, Unanswered, PC, DraftPC, ReconcilePC
  <2>6. CASE ClaimStep(i)
    BY <2>1, <2>2, <2>6 DEF At, Raise, Answer, ClaimStep, Unsent, Unanswered, PC, DraftPC
  <2>7. CASE SendCreate(i)
    BY <1>0, <2>0, <2>7 DEF SendCreate, callVars, Goto, WireOK, Unsent, Unanswered
  <2>8. CASE GetReceipt(i)
    BY <1>0, <2>0, <2>8 DEF GetReceipt, At, Goto, WireOK, Unsent, Unanswered
  <2>9. CASE GetRejection(i) \/ LoseAnswer(i)
    BY <1>0, <2>0, <2>9 DEF GetRejection, LoseAnswer, At, callVars, Goto, WireOK, Unsent, Unanswered
  <2>10. CASE Unsettle(i) \/ Release(i) \/ Settle(i) \/ Busy(i)
    BY <2>2, <2>10 DEF Raise, Unsettle, Release, Settle, Busy
  <2>11. CASE Interrupted(i) \/ Crash(i)
    BY <2>3, <2>11 DEF Interrupted, Crash
  <2>12. CASE Report(i)
    BY <1>0, <2>12 DEF Report, WireOK, Unsent, Unanswered
  <2>13. CASE Lookup(i)
    <3>1. ASSUME NEW x \in Landed(R(i), call[i].credential),
                 value' = [value EXCEPT ![i] = x], Goto(i, "record"), UNCHANGED wire
          PROVE  WireOK(i)'
      <4>1. /\ x \in Invocation /\ wire'[x] = "landed"
            /\ call[x].review = R(i) /\ call[x].credential = call[i].credential
        BY <1>1, <3>1 DEF Landed
      <4>2. /\ R(i)' = R(i) /\ pc'[i] = "record" /\ wire'[i] = "idle" /\ value'[i] = x
        BY <1>0, <2>0, <2>13, <3>1 DEF R, Goto, Lookup, At, WireOK, Unsent
      <4>3. value'[i] \in Landed(R(i), call[i].credential)'
        BY <1>0, <4>1, <4>2 DEF Landed
      <4> QED
        BY <4>2, <4>3 DEF WireOK, Unsent, Unanswered
    <3> QED
      BY <2>2, <2>13, <3>1 DEF Lookup, Raise, At
  <2>14. CASE Land(i) \/ Deny(i)
    BY <1>0, <2>0, <2>14 DEF Land, Deny, callVars, WireOK, Unsent, Unanswered
  <2> QED
    BY <2>4, <2>5, <2>6, <2>7, <2>8, <2>9, <2>10, <2>11, <2>12, <2>13, <2>14
       DEF Control, Step
<1> QED
  BY <1>2, <1>3 DEF WireFollows

-----------------------------------------------------------------------------
(* One live attempt per review, and the approval it was reserved under. *)

\* An invocation whose request is to be sent, is under way or has landed, or whose outcome
\* is still to be recorded.
Live(i) ==
  \/ pc[i] \in {"create", "await", "unsettle", "interrupted", "settle", "release"}
  \/ wire[i] \in {"sent", "landed"}

\* The row and the decision of a live invocation.
Standing(i) ==
  /\ Row(i) # NoIntent
  /\ Row(i).mailbox = call[i].credential
  /\ Approved(R(i))
  /\ decision[R(i)].mailbox = call[i].credential
  /\ request[i] = [to |-> decision[R(i)].to, content |-> decision[R(i)].content]

RowsHeld == \A i \in Invocation : Live(i) => Standing(i)

OneLive == \A i, k \in Invocation : Live(i) /\ Live(k) /\ R(i) = R(k) => i = k

\* A standing row keeps its mailbox and its decision until it is released.
LEMMA RowsKept ==
  ASSUME LedgerTypeOK, [LedgerNext]_ledgerVars, NEW r \in Review, intent[r] # NoIntent
  PROVE  \/ intent'[r] = NoIntent
         \/ /\ intent'[r] # NoIntent
            /\ intent'[r].mailbox = intent[r].mailbox
            /\ decision'[r] = decision[r]
<1>0. intent \in [Review -> Intent] /\ decision \in [Review -> Decision]
  BY DEF LedgerTypeOK
<1> DEFINE Kept == intent'[r] = intent[r] /\ decision'[r] = decision[r]
<1>1. ASSUME NEW q \in Review, NEW approved \in BOOLEAN, NEW mailbox \in Mailbox,
             Decide(q, approved, mailbox, None)
      PROVE  Kept
  BY <1>0, <1>1 DEF Decide
<1>2. ASSUME NEW q \in Review, NEW mailbox \in Mailbox, Claim(q, mailbox)
      PROVE  Kept
  BY <1>0, <1>2 DEF Claim
<1>3. ASSUME NEW q \in Review, NEW receipt \in Receipt \cup {None}, Finish(q, receipt)
      PROVE  /\ decision'[r] = decision[r]
             /\ intent'[r].mailbox = intent[r].mailbox
             /\ intent'[r] # NoIntent
  <2>1. CASE q = r /\ intent[r].state # "confirmed"
    <3>1. /\ intent'[r].state # "none" /\ intent'[r].mailbox = intent[r].mailbox
          /\ decision' = decision
      BY <1>0, <1>3, <2>1 DEF Finish, Intent
    <3> QED
      BY <3>1 DEF NoIntent
  <2>2. CASE ~(q = r /\ intent[r].state # "confirmed")
    BY <1>0, <1>3, <2>2 DEF Finish
  <2> QED
    BY <2>1, <2>2
<1>4. ASSUME NEW q \in Review, Reject(q)
      PROVE  decision' = decision /\ (intent'[r] = NoIntent \/ Kept)
  BY <1>0, <1>4 DEF Reject
<1>5. \/ Kept
      \/ \E q \in Review, approved \in BOOLEAN, mailbox \in Mailbox :
           Decide(q, approved, mailbox, None)
      \/ \E q \in Review, mailbox \in Mailbox : Claim(q, mailbox)
      \/ \E q \in Review, receipt \in Receipt \cup {None} : Finish(q, receipt)
      \/ \E q \in Review : Reject(q)
  BY DEF LedgerNext, ledgerVars, Ingest, RecordStatus, Refuse
<1> QED
  BY <1>1, <1>2, <1>3, <1>4, <1>5

\* Only the invocation that holds the provider's rejection gives a row up.
LEMMA OnlyReleased ==
  ASSUME TypesOK, NEW i \in Invocation, Control(i), NEW r \in Review,
         intent[r] # NoIntent, intent'[r] = NoIntent
  PROVE  Release(i) /\ R(i) = r
<1>0. /\ intent \in [Review -> Intent] /\ R(i) \in Review
      /\ value[i] \in Receipt \cup {None}
  BY RowType DEF TypesOK, LedgerTypeOK, OutwardTypeOK
<1>1. ASSUME NEW v, Finish(R(i), v)
      PROVE  FALSE
  <2>1. CASE intent[R(i)].state = "confirmed"
    BY <1>1, <2>1 DEF Finish
  <2>2. CASE intent[R(i)].state # "confirmed"
    <3>1. intent'[r] = intent[r] \/ intent'[r].state # "none"
      BY <1>0, <1>1, <2>2 DEF Finish, Intent
    <3> QED
      BY <3>1 DEF NoIntent
  <2> QED
    BY <2>1, <2>2
<1>2. CASE Claim(R(i), call[i].credential)
  BY <1>0, <1>2 DEF Claim, NoIntent
<1>3. CASE intent' = intent
  BY <1>3
<1>4. CASE Release(i)
  BY <1>0, <1>4 DEF Release, Reject, ledgerVars
<1>5. \/ intent' = intent
      \/ Claim(R(i), call[i].credential)
      \/ \E v : Finish(R(i), v)
      \/ Release(i)
  BY DEF Control, Step, ReadIntent, CheckBound, ReadApproval, ReadBinding,
         ReadAddressing, Identify, RefuseStep, Refuse, ClaimStep, SendCreate, GetReceipt,
         GetRejection, LoseAnswer, Unsettle, Settle, Verify, Lookup, Interrupted, Report,
         Crash, Busy, Land, Deny, ledgerVars
<1> QED
  BY <1>1, <1>2, <1>3, <1>4, <1>5

\* An invocation comes to life by a reservation and in no other way, with the material the
\* reservation verified.
LEMMA LiveFrom ==
  ASSUME TypesOK, WireFollows, NEW i \in Invocation, Control(i), Live(i)'
  PROVE  \/ Live(i) /\ request'[i] = request[i]
         \/ /\ Claim(R(i), call[i].credential)
            /\ request'[i] = [to |-> Addressing(R(i)), content |-> ContentOf(R(i))]
<1>0. /\ pc \in [Invocation -> PC] /\ DOMAIN wire = Invocation
      /\ DOMAIN request = Invocation /\ WireOK(i)
  BY DEF TypesOK, OutwardTypeOK, WireFollows
<1> DEFINE Before == Live(i) /\ request'[i] = request[i]
<1>1. ASSUME NEW l, Goto(i, l), UNCHANGED <<wire, request>>,
             l \in {"create", "await", "unsettle", "interrupted", "settle", "release"} => Live(i)
      PROVE  Before
  BY <1>0, <1>1 DEF Goto, Live
<1>2. ASSUME NEW how, NEW v, Leave(i, how, v), UNCHANGED wire
      PROVE  Before
  BY <1>0, <1>2 DEF Leave, Live
<1>3. CASE Vanish(i) /\ UNCHANGED wire
  BY <1>0, <1>3 DEF Vanish, Live
<1>4. CASE ReadIntent(i) \/ CheckBound(i) \/ ReadApproval(i) \/ ReadBinding(i)
  BY <1>1, <1>2, <1>4 DEF At, callVars, Raise, Answer, ReadIntent, CheckBound, ReadApproval,
       ReadBinding
<1>5. CASE ReadAddressing(i) \/ Identify(i) \/ RefuseStep(i) \/ Verify(i)
  BY <1>1, <1>2, <1>5 DEF At, callVars, Raise, Answer, ReadAddressing, Identify, RefuseStep, Verify
<1>6. CASE ClaimStep(i)
  <2>1. CASE /\ Claim(R(i), call[i].credential)
             /\ request' = [request EXCEPT ![i] =
                  [to |-> Addressing(R(i)), content |-> ContentOf(R(i))]]
    BY <1>0, <2>1
  <2> QED
    BY <1>2, <1>6, <2>1 DEF At, Raise, Answer, ClaimStep
<1>7. CASE SendCreate(i) \/ GetReceipt(i) \/ GetRejection(i) \/ LoseAnswer(i)
  <2>1. Live(i)
    BY <1>7 DEF SendCreate, GetReceipt, GetRejection, LoseAnswer, At, Live
  <2> QED
    BY <1>7, <2>1 DEF SendCreate, GetReceipt, GetRejection, LoseAnswer, callVars
<1>8. CASE Unsettle(i) \/ Release(i) \/ Settle(i) \/ Busy(i)
  BY <1>2, <1>8 DEF At, Raise, Unsettle, Release, Settle, Busy
<1>9. CASE Interrupted(i) \/ Crash(i)
  BY <1>3, <1>9 DEF At, Interrupted, Crash
<1>10. CASE Report(i)
  BY <1>0, <1>10 DEF Report, At, callVars, Live
<1>11. CASE Lookup(i)
  BY <1>1, <1>2, <1>11 DEF At, Raise, Lookup
<1>12. CASE Land(i) \/ Deny(i)
  BY <1>0, <1>12 DEF Land, Deny, callVars, Live
<1> QED
  BY <1>4, <1>5, <1>6, <1>7, <1>8, <1>9, <1>10, <1>11, <1>12 DEF Control, Step

LiveInv == TypesOK /\ WireFollows /\ RowsHeld /\ OneLive

\* The invocation that releases a row is no longer live afterwards.
LEMMA ReleaseEnds ==
  ASSUME TypesOK, WireFollows, NEW i \in Invocation, Release(i)
  PROVE  ~Live(i)'
<1>1. wire[i] = "denied" /\ wire' = wire
  BY DEF Release, At, WireFollows, WireOK
<1>2. pc'[i] = "report"
  BY DEF Release, Raise, Leave, TypesOK, OutwardTypeOK
<1> QED
  BY <1>1, <1>2 DEF Live

\* An attempt that was live and still is, is still the one the operator approved.
LEMMA StandingStays ==
  ASSUME LiveInv, NEW i \in Invocation, Control(i), NEW k \in Invocation,
         Live(k), Live(k)', request'[k] = request[k]
  PROVE  Standing(k)'
<1>0. TypesOK /\ WireFollows /\ Standing(k) /\ call' = call /\ R(k) \in Review
  BY RowType, WireType DEF LiveInv, RowsHeld
<1>1. [LedgerNext]_ledgerVars
  BY <1>0, LedgerSteps DEF Next, Control
<1>2. intent[R(k)] # NoIntent
  BY <1>0 DEF Standing, Row
<1>3. intent'[R(k)] # NoIntent
  <2>1. SUFFICES ASSUME intent'[R(k)] = NoIntent PROVE FALSE
    OBVIOUS
  <2>2. Release(i) /\ R(i) = R(k)
    BY <1>0, <1>2, <2>1, OnlyReleased
  <2>3. Live(i)
    BY <2>2 DEF Release, At, Live
  <2>4. i = k
    BY <2>2, <2>3 DEF LiveInv, OneLive
  <2> QED
    BY <1>0, <2>2, <2>4, ReleaseEnds
<1>4. intent'[R(k)].mailbox = intent[R(k)].mailbox /\ decision'[R(k)] = decision[R(k)]
  BY <1>0, <1>1, <1>2, <1>3, RowsKept DEF TypesOK
<1>5. R(k)' = R(k)
  BY <1>0 DEF R
<1> QED
  BY <1>0, <1>3, <1>4, <1>5 DEF Standing, Row, Approved

\* A reservation makes its invocation the approved attempt of its review.
LEMMA StandingClaimed ==
  ASSUME TypesOK, NEW i \in Invocation, call' = call,
         Claim(R(i), call[i].credential),
         request'[i] = [to |-> Addressing(R(i)), content |-> ContentOf(R(i))]
  PROVE  Standing(i)'
<1>0. R(i) \in Review /\ intent \in [Review -> Intent]
  BY RowType DEF TypesOK, LedgerTypeOK
<1>1. /\ decision[R(i)].verdict = "approved"
      /\ decision[R(i)].to = Addressing(R(i))
      /\ decision[R(i)].content = ContentOf(R(i))
      /\ decision[R(i)].mailbox = call[i].credential
      /\ decision' = decision
  BY DEF Claim, Authorized, Approved
<1>2. intent'[R(i)].state = "attempting" /\ intent'[R(i)].mailbox = call[i].credential
  BY <1>0 DEF Claim
<1>3. intent'[R(i)] # NoIntent
  BY <1>2 DEF NoIntent
<1>4. R(i)' = R(i)
  BY DEF R
<1> QED
  BY <1>1, <1>2, <1>3, <1>4 DEF Standing, Row, Approved

LEMMA LiveControl ==
  ASSUME LiveInv, NEW i \in Invocation, Control(i)
  PROVE  RowsHeld' /\ OneLive'
<1>0. TypesOK /\ WireFollows /\ RowsHeld /\ OneLive /\ call' = call
  BY WireType DEF LiveInv
<1> DEFINE Claims(k) == /\ k = i /\ Claim(R(i), call[i].credential)
                        /\ request'[i] = [to |-> Addressing(R(i)), content |-> ContentOf(R(i))]
<1>1. ASSUME NEW k \in Invocation, Live(k)'
      PROVE  (Live(k) /\ request'[k] = request[k]) \/ Claims(k)
  <2>1. CASE k = i
    BY <1>0, <1>1, <2>1, LiveFrom
  <2>2. CASE k # i
    <3>1. pc'[k] = pc[k] /\ wire'[k] = wire[k] /\ request'[k] = request[k]
      BY <1>0, <2>2, Frame
    <3> QED
      BY <1>1, <3>1 DEF Live
  <2> QED
    BY <2>1, <2>2
<1>2. RowsHeld'
  BY <1>0, <1>1, StandingStays, StandingClaimed DEF RowsHeld
<1>3. ASSUME NEW k \in Invocation, NEW l \in Invocation, Live(k)', Live(l)', R(k) = R(l)
      PROVE  k = l
  <2>1. ASSUME NEW x \in Invocation, Claims(x), NEW y \in Invocation, R(x) = R(y)
        PROVE  ~Live(y)
    <3>1. intent[R(y)] = NoIntent
      BY <2>1 DEF Claim
    <3> QED
      BY <1>0, <3>1 DEF RowsHeld, Standing, Row
  <2> QED
    BY <1>0, <1>1, <1>3, <2>1 DEF OneLive
<1>4. OneLive'
  BY <1>0, <1>3 DEF OneLive, R
<1> QED
  BY <1>2, <1>4

LEMMA LiveInit == Init => LiveInv
<1> SUFFICES ASSUME Init PROVE LiveInv
  OBVIOUS
<1>1. TypesOK
  BY TypesInit
<1>2. \A i \in Invocation : pc[i] = "start" /\ wire[i] = "idle" /\ value[i] = None
  BY DEF Init
<1>3. \A i \in Invocation : ~Live(i) /\ WireOK(i)
  BY <1>2 DEF Live, WireOK, Unsent, Unanswered
<1> QED
  BY <1>1, <1>3 DEF LiveInv, WireFollows, RowsHeld, OneLive

\* Intake, status events and decisions of others leave every live attempt standing.
LEMMA LiveElsewhere ==
  ASSUME LiveInv, [LedgerNext]_ledgerVars, UNCHANGED outwardVars,
         \A r \in Review : intent'[r] = intent[r]
  PROVE  WireFollows' /\ RowsHeld' /\ OneLive'
<1>0. TypesOK /\ WireFollows /\ RowsHeld /\ OneLive
  BY DEF LiveInv
<1>1. ASSUME NEW k \in Invocation, Live(k)
      PROVE  Standing(k)'
  <2>1. R(k) \in Review /\ Standing(k)
    BY <1>0, <1>1, RowType DEF RowsHeld
  <2>2. intent[R(k)] # NoIntent
    BY <2>1 DEF Standing, Row
  <2>3. intent'[R(k)] = intent[R(k)] /\ decision'[R(k)] = decision[R(k)]
    BY <1>0, <2>1, <2>2, RowsKept DEF TypesOK
  <2> QED
    BY <2>1, <2>3 DEF Standing, Row, Approved, R, outwardVars
<1> QED
  BY <1>0, <1>1
     DEF WireFollows, WireOK, Landed, R, RowsHeld, OneLive, Live, outwardVars

LEMMA LiveStep == LiveInv /\ [Next]_vars => LiveInv'
<1> SUFFICES ASSUME LiveInv, [Next]_vars PROVE LiveInv'
  OBVIOUS
<1>0. TypesOK /\ WireFollows /\ TypesOK' /\ [LedgerNext]_ledgerVars
  BY TypesStep, LedgerSteps DEF LiveInv
<1>1. ASSUME NEW i \in Invocation, Control(i)
      PROVE  LiveInv'
  BY <1>0, <1>1, WireStep, LiveControl DEF LiveInv
<1>2. CASE Elsewhere \/ UNCHANGED vars
  <2>1. UNCHANGED outwardVars /\ \A r \in Review : intent'[r] = intent[r]
    BY <1>2 DEF Elsewhere, vars, ledgerVars, Ingest, RecordStatus, Decide
  <2> QED
    BY <1>0, <2>1, LiveElsewhere DEF LiveInv
<1>3. Elsewhere \/ UNCHANGED vars \/ \E i \in Invocation : Control(i)
  BY DEF Next, Control
<1> QED
  BY <1>1, <1>2, <1>3

LEMMA LiveHolds == Spec => []LiveInv
  BY LiveInit, LiveStep, PTL DEF Spec

\* One review never yields two provider drafts, over every mailbox: a row stands while any
\* request of its review may still land, and claim() reserves only where none stands.
THEOREM OneDraft == Spec => []AtMostOneDraft
<1>1. LiveInv => AtMostOneDraft
  BY DEF LiveInv, OneLive, Live, AtMostOneDraft
<1> QED
  BY <1>1, LiveHolds, PTL

\* So a draft that lookup() finds in a mailbox by the review's intent is the only one there: that
\* Lookup asks for one draft leaves out no answer the provider could give.
THEOREM LandedAlone ==
  Spec => []\A r \in Review, m \in Mailbox : \A k \in Landed(r, m) : Landed(r, m) = {k}
<1>1. AtMostOneDraft =>
        \A r \in Review, m \in Mailbox : \A k \in Landed(r, m) : Landed(r, m) = {k}
  BY DEF AtMostOneDraft, Landed, R
<1> QED
  BY <1>1, OneDraft, PTL

\* Every draft there is, or may still be, is what was approved and where, and its row stands.
THEOREM DraftsApproved == Spec => []DraftIsApproved
<1>1. LiveInv => DraftIsApproved
  BY DEF LiveInv, RowsHeld, Live, Standing, DraftIsApproved
<1> QED
  BY <1>1, LiveHolds, PTL

-----------------------------------------------------------------------------
(* Receipts name drafts, and no settlement meets a conflict. *)

ReceiptsHeld ==
  \A r \in Review :
    /\ intent[r].receipt # None => intent[r].state = "confirmed"
    /\ intent[r].state = "none" => intent[r] = NoIntent

\* A row whose invocation has not yet given up on its request is not "uncertain".
StillAttempting ==
  \A i \in Invocation :
    pc[i] \in {"create", "await", "release"} => Row(i).state \in {"attempting", "confirmed"}

SettleInv == LiveInv /\ ReceiptsHeld /\ StillAttempting /\ ConfirmedExists

LEMMA LandedMember ==
  ASSUME NEW r, NEW m, NEW k
  PROVE  k \in Landed(r, m) <=>
           k \in Invocation /\ wire[k] = "landed" /\ R(k) = r /\ call[k].credential = m
  BY DEF Landed, R

\* The receipt an invocation is about to record is a draft of its review, in the mailbox
\* its row names.
LEMMA RecordedExists ==
  ASSUME LiveInv, NEW i \in Invocation, pc[i] \in {"settle", "record"}
  PROVE  /\ value[i] \in Landed(R(i), Row(i).mailbox)
         /\ value[i] \in Invocation /\ value[i] # None
         /\ Row(i) # NoIntent
<1>0. WireOK(i) /\ RowsHeld /\ call[i].credential \in Mailbox
  BY RowType DEF LiveInv, WireFollows
<1>1. value[i] \in Landed(R(i), call[i].credential)
  BY <1>0, LandedMember DEF WireOK
<1>2. PICK k \in Invocation :
        k = value[i] /\ wire[k] = "landed" /\ R(k) = R(i)
        /\ call[k].credential = call[i].credential
  BY <1>1, LandedMember
<1>3. Standing(k)
  BY <1>0, <1>2 DEF RowsHeld, Live
<1>4. Row(i) # NoIntent /\ Row(i).mailbox = call[i].credential
  BY <1>2, <1>3 DEF Standing, Row
<1>5. k \in Receipt /\ None \notin Receipt
  BY OutwardAssumption, LedgerAssumption
<1> QED
  BY <1>1, <1>2, <1>4, <1>5

\* Two drafts of one review are one draft.
LEMMA SameDraft ==
  ASSUME LiveInv, NEW r, NEW m, NEW n, NEW k \in Landed(r, m), NEW l \in Landed(r, n)
  PROVE  k = l
  BY LandedMember DEF LiveInv, OneLive, Live

LEMMA NeverConflicts ==
  ASSUME SettleInv
  PROVE  SettlementNeverConflicts
<1>0. LiveInv /\ WireFollows /\ RowsHeld /\ ReceiptsHeld /\ ConfirmedExists
  BY DEF SettleInv, LiveInv
<1>1. ASSUME NEW i \in Invocation, pc[i] \in {"unsettle", "interrupted"}
      PROVE  ~FinishRaises(R(i), value[i])
  <2>1. value[i] = None /\ Row(i) # NoIntent
    BY <1>0, <1>1 DEF WireFollows, WireOK, Unanswered, RowsHeld, Live, Standing
  <2> QED
    BY <2>1 DEF FinishRaises, Row
<1>2. ASSUME NEW i \in Invocation, pc[i] \in {"settle", "record"}
      PROVE  ~FinishRaises(R(i), value[i])
  <2>1. /\ value[i] \in Landed(R(i), Row(i).mailbox) /\ value[i] # None
        /\ Row(i) # NoIntent /\ R(i) \in Review
    BY <1>0, <1>2, RecordedExists, RowType DEF LiveInv
  <2>2. ASSUME Row(i).state = "confirmed"
        PROVE  value[i] = Row(i).receipt
    BY <1>0, <2>1, <2>2, SameDraft DEF ConfirmedExists, Row
  <2>3. ASSUME NEW q \in Review \ {R(i)}, intent[q].receipt = value[i]
        PROVE  FALSE
    <3>1. intent[q].state = "confirmed"
      BY <1>0, <2>1, <2>3 DEF ReceiptsHeld
    <3>2. value[i] \in Landed(q, intent[q].mailbox)
      BY <1>0, <2>3, <3>1 DEF ConfirmedExists
    <3> QED
      BY <2>1, <2>3, <3>2, LandedMember
  <2> QED
    BY <2>1, <2>2, <2>3 DEF FinishRaises, Row
<1>3. ASSUME NEW i \in Invocation, pc[i] = "release"
      PROVE  Row(i).state = "attempting"
  <2>1. Row(i).state \in {"attempting", "confirmed"} /\ R(i) \in Review
    BY <1>3, RowType DEF SettleInv, StillAttempting, LiveInv
  <2>2. Row(i).state # "confirmed"
    <3> SUFFICES ASSUME Row(i).state = "confirmed" PROVE FALSE
      OBVIOUS
    <3>1. Row(i).receipt \in Landed(R(i), Row(i).mailbox)
      BY <1>0, <2>1 DEF ConfirmedExists, Row
    <3>2. PICK k \in Invocation : wire[k] = "landed" /\ R(k) = R(i)
      BY <3>1, LandedMember
    <3>3. k = i
      BY <1>0, <1>3, <3>2 DEF LiveInv, OneLive, Live
    <3> QED
      BY <1>0, <1>3, <3>2, <3>3 DEF WireFollows, WireOK
  <2> QED
    BY <2>1, <2>2
<1> QED
  BY <1>1, <1>2, <1>3 DEF SettlementNeverConflicts

\* What one step of an invocation does to the rows.
LEMMA IntentMoves ==
  ASSUME SettleInv, NEW i \in Invocation, Control(i)
  PROVE  \/ intent' = intent
         \/ Claim(R(i), call[i].credential)
         \/ Finish(R(i), None) /\ pc[i] \in {"unsettle", "interrupted"}
         \/ Finish(R(i), value[i]) /\ pc[i] \in {"settle", "record"}
         \/ Release(i) /\ Reject(R(i))
  BY NeverConflicts
     DEF SettlementNeverConflicts, Row, Control, Step, At, ReadIntent, CheckBound,
       ReadApproval, ReadBinding, ReadAddressing, Identify, RefuseStep, Refuse, ClaimStep,
       SendCreate, GetReceipt, GetRejection, LoseAnswer, Unsettle, Release, Settle, Verify,
       Lookup, Interrupted, Report, Crash, Busy, Land, Deny, ledgerVars

\* finish() that finds the row unsettled, spelt out.
LEMMA FinishMoves ==
  ASSUME TypesOK, NEW r \in Review, NEW v \in Receipt \cup {None}, Finish(r, v)
  PROVE  /\ \A q \in Review \ {r} : intent'[q] = intent[q]
         /\ intent[r] # NoIntent
         /\ intent[r].state = "confirmed" => intent'[r] = intent[r]
         /\ intent[r].state # "confirmed" =>
              /\ intent'[r].state = (IF v = None THEN "uncertain" ELSE "confirmed")
              /\ intent'[r].receipt = v
              /\ intent'[r].mailbox = intent[r].mailbox
<1>0. intent \in [Review -> Intent]
  BY DEF TypesOK, LedgerTypeOK
<1>1. intent[r] # NoIntent
  BY DEF Finish, FinishRaises
<1>2. CASE intent[r].state = "confirmed"
  BY <1>0, <1>1, <1>2 DEF Finish
<1>3. CASE intent[r].state # "confirmed"
  BY <1>0, <1>1, <1>3 DEF Finish, Intent
<1> QED
  BY <1>2, <1>3

\* An invocation comes to hold an unanswered request by a reservation, and keeps it while
\* the rows stay as they are.
LEMMA Advances ==
  ASSUME TypesOK, NEW i \in Invocation, Control(i), pc'[i] \in {"create", "await", "release"}
  PROVE  \/ Claim(R(i), call[i].credential)
         \/ pc[i] \in {"create", "await", "release"} /\ intent' = intent
<1>0. pc \in [Invocation -> PC]
  BY DEF TypesOK, OutwardTypeOK
<1>1. ASSUME NEW l, Goto(i, l)
      PROVE  l \in {"create", "await", "release"}
  BY <1>0, <1>1 DEF Goto
<1>2. ASSUME NEW how, NEW v, Leave(i, how, v)
      PROVE  FALSE
  BY <1>0, <1>2 DEF Leave
<1>3. ~Vanish(i)
  BY <1>0 DEF Vanish
<1>4. CASE ReadIntent(i) \/ CheckBound(i) \/ ReadApproval(i) \/ ReadBinding(i)
  BY <1>1, <1>2, <1>4
     DEF Raise, Answer, ReadIntent, CheckBound, ReadApproval, ReadBinding
<1>5. CASE ReadAddressing(i) \/ Identify(i) \/ RefuseStep(i) \/ Verify(i)
  BY <1>1, <1>2, <1>5 DEF Raise, Answer, ReadAddressing, Identify, RefuseStep, Verify
<1>6. CASE ClaimStep(i)
  BY <1>2, <1>6 DEF Raise, Answer, ClaimStep
<1>7. CASE SendCreate(i) \/ GetReceipt(i) \/ GetRejection(i) \/ LoseAnswer(i)
  BY <1>7 DEF At, SendCreate, GetReceipt, GetRejection, LoseAnswer, ledgerVars
<1>8. CASE Unsettle(i) \/ Release(i) \/ Settle(i) \/ Busy(i) \/ Interrupted(i) \/ Crash(i)
  BY <1>2, <1>3, <1>8 DEF Raise, Unsettle, Release, Settle, Busy, Interrupted, Crash
<1>9. CASE Lookup(i) \/ Report(i)
  BY <1>0, <1>1, <1>2, <1>9 DEF Raise, Lookup, Report
<1>10. CASE Land(i) \/ Deny(i)
  BY <1>10 DEF Land, Deny, ledgerVars
<1> QED
  BY <1>4, <1>5, <1>6, <1>7, <1>8, <1>9, <1>10 DEF Control, Step

LEMMA SettleControl ==
  ASSUME SettleInv, LiveInv', NEW i \in Invocation, Control(i)
  PROVE  ReceiptsHeld' /\ StillAttempting' /\ ConfirmedExists'
<1>0. /\ LiveInv /\ TypesOK /\ WireFollows /\ RowsHeld /\ OneLive /\ ReceiptsHeld
      /\ StillAttempting /\ ConfirmedExists
      /\ call' = call /\ R(i) \in Review /\ intent \in [Review -> Intent]
      /\ value[i] \in Receipt \cup {None}
  BY RowType, WireType DEF SettleInv, LiveInv, TypesOK, LedgerTypeOK, OutwardTypeOK
<1>1. ASSUME NEW k, NEW r, NEW m, k \in Landed(r, m)
      PROVE  k \in Landed(r, m)'
  <2>1. k \in Invocation /\ wire[k] = "landed"
    BY <1>1 DEF Landed
  <2>2. wire'[k] = "landed"
    BY <1>0, <2>1, LandedStays
  <2> QED
    BY <1>0, <1>1, <2>1, <2>2 DEF Landed
<1> DEFINE RowOK(r) ==
      /\ intent'[r].receipt # None => intent'[r].state = "confirmed"
      /\ intent'[r].state = "none" => intent'[r] = NoIntent
      /\ intent'[r].state = "confirmed" => intent'[r].receipt \in Landed(r, intent[r].mailbox)
      /\ intent'[r].state = "confirmed" => intent'[r].mailbox = intent[r].mailbox
<1>2. ASSUME NEW r \in Review
      PROVE  RowOK(r)
  <2>1. CASE intent'[r] = intent[r]
    BY <1>0, <2>1 DEF ReceiptsHeld, ConfirmedExists
  <2>2. CASE r = R(i) /\ Claim(R(i), call[i].credential)
    BY <1>0, <2>2 DEF Claim
  <2>3. CASE r = R(i) /\ Finish(R(i), None) /\ intent[r].state # "confirmed"
    <3>1. intent'[r].state = "uncertain" /\ intent'[r].receipt = None
      BY <1>0, <2>3, FinishMoves
    <3> QED
      BY <3>1
  <2>4. CASE r = R(i) /\ Finish(R(i), value[i]) /\ intent[r].state # "confirmed"
             /\ pc[i] \in {"settle", "record"}
    <3>1. value[i] \in Landed(r, intent[r].mailbox) /\ value[i] # None
      BY <1>0, <2>4, RecordedExists DEF Row
    <3>2. /\ intent'[r].state = "confirmed" /\ intent'[r].receipt = value[i]
          /\ intent'[r].mailbox = intent[r].mailbox
      BY <1>0, <2>4, <3>1, FinishMoves
    <3> QED
      BY <3>1, <3>2
  <2>5. CASE r = R(i) /\ Reject(R(i))
    BY <1>0, <2>5 DEF Reject, NoIntent
  <2>6. ASSUME intent'[r] # intent[r]
        PROVE  /\ r = R(i)
               /\ \/ Claim(R(i), call[i].credential)
                  \/ Finish(R(i), None) /\ intent[r].state # "confirmed"
                  \/ /\ Finish(R(i), value[i]) /\ intent[r].state # "confirmed"
                     /\ pc[i] \in {"settle", "record"}
                  \/ Reject(R(i))
    <3>1. ASSUME Claim(R(i), call[i].credential) \/ Reject(R(i))
          PROVE  r = R(i)
      BY <1>0, <2>6, <3>1 DEF Claim, Reject
    <3>2. ASSUME NEW v \in Receipt \cup {None}, Finish(R(i), v)
          PROVE  r = R(i) /\ intent[r].state # "confirmed"
      BY <1>0, <2>6, <3>2, FinishMoves
    <3> QED
      BY <1>0, <2>6, <3>1, <3>2, IntentMoves
  <2> QED
    BY <2>1, <2>2, <2>3, <2>4, <2>5, <2>6
<1>3. ReceiptsHeld'
  BY <1>2 DEF ReceiptsHeld
<1>4. ConfirmedExists'
  <2>1. ASSUME NEW r \in Review, intent'[r].state = "confirmed"
        PROVE  /\ intent'[r].receipt \in Invocation
               /\ wire'[intent'[r].receipt] = "landed"
               /\ call'[intent'[r].receipt].review = r
               /\ call'[intent'[r].receipt].credential = intent'[r].mailbox
    <3>1. /\ intent'[r].receipt \in Landed(r, intent[r].mailbox)
          /\ intent'[r].mailbox = intent[r].mailbox
      BY <1>2, <2>1
    <3>2. PICK k \in Invocation :
            /\ k = intent'[r].receipt /\ wire[k] = "landed"
            /\ call[k].review = r /\ call[k].credential = intent[r].mailbox
      BY <3>1 DEF Landed
    <3>3. wire'[k] = "landed"
      BY <1>0, <3>2, LandedStays
    <3> QED
      BY <1>0, <3>1, <3>2, <3>3
  <2> QED
    BY <2>1 DEF ConfirmedExists, Landed
<1>5. ASSUME NEW k \in Invocation, pc'[k] \in {"create", "await", "release"}
      PROVE  intent'[R(k)].state \in {"attempting", "confirmed"}
  <2>0. R(k) \in Review /\ R(k) = R(k)'
    BY <1>0, RowType DEF R
  <2>1. CASE k = i
    <3>1. \/ Claim(R(i), call[i].credential)
          \/ pc[i] \in {"create", "await", "release"} /\ intent' = intent
      BY <1>0, <1>5, <2>1, Advances
    <3>2. Claim(R(i), call[i].credential) => intent'[R(i)].state = "attempting"
      BY <1>0 DEF Claim
    <3> QED
      BY <1>0, <2>1, <3>1, <3>2 DEF StillAttempting, Row
  <2>2. CASE k # i
    <3>1. pc[k] \in {"create", "await", "release"}
      BY <1>0, <1>5, <2>2, Frame
    <3>2. /\ intent[R(k)].state \in {"attempting", "confirmed"}
          /\ intent[R(k)] # NoIntent /\ Live(k)
      BY <1>0, <3>1 DEF StillAttempting, RowsHeld, Standing, Row, Live
    <3>3. CASE intent' = intent \/ R(i) # R(k)
      <4>1. intent'[R(k)] = intent[R(k)]
        <5>1. ASSUME R(i) # R(k), Claim(R(i), call[i].credential) \/ Reject(R(i))
              PROVE  intent'[R(k)] = intent[R(k)]
          BY <1>0, <2>0, <5>1 DEF Claim, Reject
        <5>2. ASSUME NEW v \in Receipt \cup {None}, R(i) # R(k), Finish(R(i), v)
              PROVE  intent'[R(k)] = intent[R(k)]
          BY <1>0, <2>0, <5>2, FinishMoves
        <5> QED
          BY <1>0, <3>3, <5>1, <5>2, IntentMoves
      <4> QED
        BY <3>2, <4>1
    <3>4. CASE R(i) = R(k) /\ Live(i)
      BY <1>0, <2>2, <3>2, <3>4 DEF OneLive
    <3>5. CASE R(i) = R(k) /\ ~Live(i) /\ intent' # intent
      <4>1. Finish(R(i), value[i]) /\ pc[i] = "record"
        BY <1>0, <3>2, <3>5, IntentMoves DEF Live, Claim, Release, At
      <4>2. value[i] # None
        BY <1>0, <4>1, RecordedExists
      <4>3. intent'[R(k)].state = "confirmed"
        BY <1>0, <3>5, <4>1, <4>2, FinishMoves
      <4> QED
        BY <4>3
    <3> QED
      BY <3>3, <3>4, <3>5
  <2> QED
    BY <2>1, <2>2
<1>6. StillAttempting'
  <2>1. \A k \in Invocation : R(k)' = R(k)
    BY <1>0 DEF R
  <2> QED
    BY <1>5, <2>1 DEF StillAttempting, Row
<1> QED
  BY <1>3, <1>4, <1>6

LEMMA SettleInit == Init => SettleInv
<1> SUFFICES ASSUME Init PROVE SettleInv
  OBVIOUS
<1>1. LiveInv
  BY LiveInit
<1>2. \A r \in Review : intent[r] = NoIntent
  BY DEF Init, LedgerInit
<1>3. \A i \in Invocation : pc[i] = "start"
  BY DEF Init
<1>4. ReceiptsHeld /\ ConfirmedExists /\ StillAttempting
  BY <1>2, <1>3 DEF ReceiptsHeld, ConfirmedExists, StillAttempting, NoIntent
<1> QED
  BY <1>1, <1>4 DEF SettleInv

LEMMA SettleStep == SettleInv /\ [Next]_vars => SettleInv'
<1> SUFFICES ASSUME SettleInv, [Next]_vars PROVE SettleInv'
  OBVIOUS
<1>0. LiveInv /\ LiveInv'
  BY LiveStep DEF SettleInv
<1>1. ASSUME NEW i \in Invocation, Control(i)
      PROVE  SettleInv'
  BY <1>0, <1>1, SettleControl DEF SettleInv
<1>2. CASE Elsewhere \/ UNCHANGED vars
  <2>1. UNCHANGED outwardVars /\ intent' = intent
    BY <1>2 DEF Elsewhere, vars, ledgerVars, Ingest, RecordStatus, Decide
  <2>2. ReceiptsHeld' /\ StillAttempting'
    BY <2>1 DEF SettleInv, ReceiptsHeld, StillAttempting, Row, R, outwardVars
  <2>3. ConfirmedExists'
    BY <2>1 DEF SettleInv, ConfirmedExists, Landed, outwardVars
  <2> QED
    BY <1>0, <2>2, <2>3 DEF SettleInv
<1>3. Elsewhere \/ UNCHANGED vars \/ \E i \in Invocation : Control(i)
  BY DEF Next, Control
<1> QED
  BY <1>1, <1>2, <1>3

LEMMA SettleHolds == Spec => []SettleInv
  BY SettleInit, SettleStep, PTL DEF Spec

\* A confirmed row names a draft that exists, in the mailbox it names, whether draft() or a
\* reconcile() that raced it recorded the receipt.
THEOREM ConfirmedDraftsExist == Spec => []ConfirmedExists
<1>1. SettleInv => ConfirmedExists
  BY DEF SettleInv
<1> QED
  BY <1>1, SettleHolds, PTL

\* finish() and reject() never find the record in the way of an answer the provider gave.
THEOREM SettlementsNeverConflict == Spec => []SettlementNeverConflicts
<1>1. SettleInv => SettlementNeverConflicts
  BY NeverConflicts
<1> QED
  BY <1>1, SettleHolds, PTL

-----------------------------------------------------------------------------
(* What the operator is told. *)

\* How an invocation that is over, and the row it remembers, agree with the record.
AnswerOK(i) ==
  /\ pc[i] = "report" =>
       /\ result[i] # "none"
       /\ result[i] \in {"DraftRefused", "ValueError"} => wire[i] = "idle"
       /\ result[i] = "ProviderRejected" => wire[i] = "denied"
       /\ result[i] = "returned" /\ value[i] = None => wire[i] = "idle"
       /\ result[i] = "returned" /\ value[i] # None =>
            Row(i).state = "confirmed" /\ Row(i).receipt = value[i]
  /\ seen[i].state = "confirmed" => Row(i) = seen[i]
  /\ report[i].outcome # "none" => pc[i] = "done"

AnswersFollow == \A i \in Invocation : AnswerOK(i)

AnswerInv == SettleInv /\ AnswersFollow /\ RefusalIsFinal /\ AcceptedIsRecorded

\* A step of one invocation leaves what another was told or remembers.
LEMMA FrameAnswers ==
  ASSUME TypesOK, NEW i \in Invocation, Control(i), NEW k \in Invocation \ {i}
  PROVE  result'[k] = result[k] /\ report'[k] = report[k] /\ seen'[k] = seen[k]
<1>0. /\ DOMAIN result = Invocation /\ DOMAIN report = Invocation /\ DOMAIN seen = Invocation
  BY DEF TypesOK, OutwardTypeOK
<1>1. ASSUME NEW l, Goto(i, l)
      PROVE  result'[k] = result[k] /\ report'[k] = report[k]
  BY <1>1 DEF Goto
<1>2. ASSUME NEW how, NEW v, Leave(i, how, v)
      PROVE  result'[k] = result[k] /\ report'[k] = report[k] /\ seen'[k] = seen[k]
  BY <1>0, <1>2 DEF Leave
<1>3. CASE ReadIntent(i) \/ CheckBound(i) \/ ReadApproval(i) \/ ReadBinding(i)
  BY <1>0, <1>1, <1>2, <1>3
     DEF callVars, Raise, Answer, ReadIntent, CheckBound, ReadApproval, ReadBinding
<1>4. CASE ReadAddressing(i) \/ Identify(i) \/ RefuseStep(i) \/ Verify(i)
  BY <1>1, <1>2, <1>4 DEF callVars, Raise, Answer, ReadAddressing, Identify, RefuseStep, Verify
<1>5. CASE ClaimStep(i) \/ GetReceipt(i) \/ Lookup(i)
  BY <1>1, <1>2, <1>5 DEF Raise, Answer, ClaimStep, GetReceipt, Lookup
<1>6. CASE SendCreate(i) \/ GetRejection(i) \/ LoseAnswer(i)
  BY <1>1, <1>6 DEF callVars, SendCreate, GetRejection, LoseAnswer
<1>7. CASE Unsettle(i) \/ Release(i) \/ Settle(i) \/ Busy(i)
  BY <1>2, <1>7 DEF Raise, Unsettle, Release, Settle, Busy
<1>8. CASE Interrupted(i) \/ Crash(i) \/ Report(i)
  BY <1>0, <1>8 DEF callVars, Vanish, Interrupted, Crash, Report
<1>9. CASE Land(i) \/ Deny(i)
  BY <1>9 DEF callVars, Land, Deny
<1> QED
  BY <1>3, <1>4, <1>5, <1>6, <1>7, <1>8, <1>9 DEF Control, Step

\* An invocation's own step: its locals, and what it answers, agree with the record after it.
LEMMA AnswerOwn ==
  ASSUME AnswerInv, NEW i \in Invocation, Control(i),
         \A r \in Review : intent[r].state = "confirmed" => intent'[r] = intent[r]
  PROVE  AnswerOK(i)'
<1>0. /\ SettleInv /\ LiveInv /\ TypesOK /\ WireOK(i) /\ AnswerOK(i) /\ call' = call
      /\ R(i) \in Review /\ R(i)' = R(i)
      /\ pc \in [Invocation -> PC] /\ DOMAIN wire = Invocation
      /\ DOMAIN value = Invocation /\ DOMAIN result = Invocation
      /\ DOMAIN report = Invocation /\ DOMAIN seen = Invocation
      /\ value[i] \in Receipt \cup {None}
  BY RowType, WireType
     DEF AnswerInv, AnswersFollow, SettleInv, LiveInv, WireFollows, TypesOK, OutwardTypeOK, R
<1>1. ASSUME Row(i).state = "confirmed"
      PROVE  Row(i)' = Row(i)
  BY <1>0, <1>1 DEF Row
<1>2. ASSUME NEW l, l \notin {"report", "done"}, pc[i] # "done", Goto(i, l),
             seen' = seen \/ seen' = [seen EXCEPT ![i] = Row(i)]
      PROVE  AnswerOK(i)'
  BY <1>0, <1>1, <1>2 DEF AnswerOK, Goto
<1>3. ASSUME NEW how, NEW v, Leave(i, how, v), pc[i] # "done", UNCHANGED wire,
             how \in {"DraftRefused", "ValueError"} => wire[i] = "idle",
             how = "ProviderRejected" => wire[i] = "denied",
             how = "returned" /\ v = None => wire[i] = "idle",
             how = "returned" /\ v # None =>
               Row(i)'.state = "confirmed" /\ Row(i)'.receipt = v,
             how # "none"
      PROVE  AnswerOK(i)'
  BY <1>0, <1>3 DEF AnswerOK, Leave, NoIntent
<1>4. ASSUME NEW how \in {"DraftRefused", "ValueError"}, Raise(i, how), pc[i] \in Unsent,
             UNCHANGED wire
      PROVE  AnswerOK(i)'
  BY <1>0, <1>3, <1>4 DEF Raise, WireOK, Unsent
<1>5. ASSUME NEW row, Answer(i, row), pc[i] \in Unsent, UNCHANGED wire,
             row.state = "confirmed" => row = Row(i)
      PROVE  AnswerOK(i)'
  BY <1>0, <1>1, <1>3, <1>5 DEF Answer, WireOK, Unsent
<1>6. CASE ReadIntent(i) \/ ReadApproval(i) \/ ReadBinding(i) \/ ReadAddressing(i)
  BY <1>2, <1>4, <1>6
     DEF At, callVars, ReadIntent, ReadApproval, ReadBinding, ReadAddressing, Unsent
<1>7. CASE CheckBound(i)
  BY <1>0, <1>2, <1>4, <1>5, <1>7 DEF At, callVars, CheckBound, Unsent, AnswerOK
<1>8. CASE Identify(i) \/ RefuseStep(i) \/ Verify(i)
  BY <1>2, <1>4, <1>5, <1>8 DEF At, callVars, Identify, RefuseStep, Verify, Unsent
<1>9. CASE ClaimStep(i)
  BY <1>2, <1>4, <1>5, <1>9 DEF At, callVars, ClaimStep, Unsent
<1>10. CASE SendCreate(i) \/ GetReceipt(i) \/ GetRejection(i) \/ LoseAnswer(i)
  BY <1>2, <1>10 DEF At, callVars, SendCreate, GetReceipt, GetRejection, LoseAnswer
<1>11. CASE Unsettle(i)
  BY <1>0, <1>3, <1>11, NeverConflicts
     DEF At, Unsettle, Raise, SettlementNeverConflicts, WireOK, Unanswered
<1>12. CASE Release(i)
  BY <1>0, <1>3, <1>12, NeverConflicts DEF At, Release, Raise, SettlementNeverConflicts, WireOK
<1>13. CASE Settle(i)
  <2>1. /\ ~FinishRaises(R(i), value[i]) /\ value[i] # None
        /\ Finish(R(i), value[i]) /\ Leave(i, "returned", value[i]) /\ UNCHANGED wire
        /\ pc[i] # "done"
    BY <1>0, <1>13, NeverConflicts, RecordedExists DEF At, Settle, SettlementNeverConflicts
  <2>2. Row(i)'.state = "confirmed" /\ Row(i)'.receipt = value[i]
    BY <1>0, <2>1, FinishMoves DEF Row, FinishRaises
  <2> QED
    BY <1>3, <2>1, <2>2
<1>14. CASE Lookup(i)
  BY <1>0, <1>2, <1>3, <1>14 DEF At, Lookup, Raise, WireOK, Unsent
<1>15. CASE Busy(i)
  BY <1>3, <1>15 DEF At, Busy, Raise
<1>16. CASE Interrupted(i) \/ Crash(i)
  BY <1>0, <1>16 DEF Interrupted, Crash, Vanish, AnswerOK, NoIntent
<1>17. CASE Report(i)
  BY <1>0, <1>1, <1>17 DEF Report, callVars, AnswerOK
<1>18. CASE Land(i) \/ Deny(i)
  BY <1>0, <1>1, <1>18 DEF Land, Deny, callVars, AnswerOK
<1> QED
  BY <1>6, <1>7, <1>8, <1>9, <1>10, <1>11, <1>12, <1>13, <1>14, <1>15, <1>16, <1>17, <1>18
     DEF Control, Step

\* What an invocation has reported it reported before, or reports now.
LEMMA ReportMoves ==
  ASSUME TypesOK, NEW i \in Invocation, Control(i)
  PROVE  report'[i] = report[i] \/ Report(i)
<1>1. CASE ReadIntent(i) \/ CheckBound(i) \/ ReadApproval(i) \/ ReadBinding(i)
  BY <1>1 DEF Goto, Leave, Raise, Answer, ReadIntent, CheckBound, ReadApproval, ReadBinding
<1>2. CASE ReadAddressing(i) \/ Identify(i) \/ RefuseStep(i) \/ Verify(i) \/ ClaimStep(i)
  BY <1>2 DEF Goto, Leave, Raise, Answer, ReadAddressing, Identify, RefuseStep, Verify, ClaimStep
<1>3. CASE SendCreate(i) \/ GetReceipt(i) \/ GetRejection(i) \/ LoseAnswer(i) \/ Lookup(i)
  BY <1>3 DEF Goto, Leave, Raise, SendCreate, GetReceipt, GetRejection, LoseAnswer, Lookup
<1>4. CASE Unsettle(i) \/ Release(i) \/ Settle(i) \/ Busy(i)
  BY <1>4 DEF Leave, Raise, Unsettle, Release, Settle, Busy
<1>5. CASE Interrupted(i) \/ Crash(i) \/ Land(i) \/ Deny(i)
  BY <1>5 DEF Vanish, Interrupted, Crash, Land, Deny
<1> QED
  BY <1>1, <1>2, <1>3, <1>4, <1>5 DEF Control, Step

\* Only an invocation that is about to send, or has sent, changes what the provider holds.
LEMMA WireMoves ==
  ASSUME TypesOK, NEW i \in Invocation, Control(i)
  PROVE  wire'[i] = wire[i] \/ pc[i] = "create" \/ wire[i] = "sent"
  BY DEF Control, Step, At, ReadIntent, CheckBound, ReadApproval, ReadBinding, ReadAddressing,
     Identify, RefuseStep, ClaimStep, SendCreate, GetReceipt, GetRejection, LoseAnswer, Unsettle,
     Release, Settle, Verify, Lookup, Interrupted, Report, Crash, Busy, Land, Deny

LEMMA AnswerControl ==
  ASSUME AnswerInv, NEW i \in Invocation, Control(i),
         \A r \in Review : intent[r].state = "confirmed" => intent'[r] = intent[r]
  PROVE  AnswersFollow' /\ RefusalIsFinal' /\ AcceptedIsRecorded'
<1>0. /\ TypesOK /\ AnswersFollow /\ RefusalIsFinal /\ AcceptedIsRecorded /\ call' = call
  BY WireType DEF AnswerInv, SettleInv, LiveInv
<1>1. ASSUME NEW k \in Invocation
      PROVE  /\ R(k) \in Review /\ R(k)' = R(k)
             /\ Row(k).state = "confirmed" => Row(k)' = Row(k)
  BY <1>0, RowType DEF R, Row
<1>2. ASSUME NEW k \in Invocation \ {i}
      PROVE  /\ pc'[k] = pc[k] /\ wire'[k] = wire[k] /\ value'[k] = value[k]
             /\ result'[k] = result[k] /\ report'[k] = report[k] /\ seen'[k] = seen[k]
  BY <1>0, Frame, FrameAnswers
<1>3. AnswersFollow'
  <2>1. ASSUME NEW k \in Invocation \ {i}
        PROVE  AnswerOK(k)'
    <3>1. AnswerOK(k)
      BY <1>0 DEF AnswersFollow
    <3> QED
      BY <3>1, <1>1, <1>2 DEF AnswerOK
  <2> QED
    BY <2>1, AnswerOwn DEF AnswersFollow
<1>4. AnswerOK(i)
  BY <1>0 DEF AnswersFollow
<1>5. CASE Report(i)
  <2>1. /\ pc[i] = "report" /\ UNCHANGED <<wire, intent, value, result>>
        /\ report'[i].outcome = Outcome(i)
        /\ report'[i].receipt = IF result[i] = "returned" THEN value[i] ELSE Row(i).receipt
    BY <1>0, <1>5 DEF Report, At, callVars, ledgerVars, TypesOK, OutwardTypeOK
  <2>2. /\ Outcome(i) \in {"REFUSED", "PROVIDER_REJECTED"} => wire[i] \in {"idle", "denied"}
        /\ Outcome(i) = "ACCEPTED" => result[i] = "returned" /\ value[i] # None
    <3>1. result[i] \in Result
      BY <1>0 DEF TypesOK, OutwardTypeOK
    <3> QED
      BY <1>4, <2>1, <3>1 DEF Outcome, AnswerOK, Result
  <2>3. RefusalIsFinal'
    BY <1>0, <1>2, <2>1, <2>2 DEF RefusalIsFinal
  <2>4. AcceptedIsRecorded'
    BY <1>0, <1>1, <1>2, <1>4, <2>1, <2>2 DEF AcceptedIsRecorded, AnswerOK
  <2> QED
    BY <1>3, <2>3, <2>4
<1>6. CASE ~Report(i)
  <2>1. report'[i] = report[i]
    BY <1>0, <1>6, ReportMoves
  <2>2. RefusalIsFinal'
    <3>1. ASSUME report[i].outcome \in {"REFUSED", "PROVIDER_REJECTED"}
          PROVE  wire'[i] \in {"idle", "denied"}
      BY <1>0, <1>4, <3>1, WireMoves DEF RefusalIsFinal, AnswerOK
    <3> QED
      BY <1>0, <1>2, <2>1, <3>1 DEF RefusalIsFinal
  <2>3. AcceptedIsRecorded'
    BY <1>0, <1>1, <1>2, <2>1 DEF AcceptedIsRecorded
  <2> QED
    BY <1>3, <2>2, <2>3
<1> QED
  BY <1>5, <1>6

LEMMA AnswerInit == Init => AnswerInv
<1> SUFFICES ASSUME Init PROVE AnswerInv
  OBVIOUS
<1>1. \A i \in Invocation :
        pc[i] = "start" /\ seen[i].state = "none" /\ report[i].outcome = "none"
  BY DEF Init, NoIntent, NoReport
<1> QED
  BY <1>1, SettleInit
     DEF AnswerInv, AnswersFollow, AnswerOK, RefusalIsFinal, AcceptedIsRecorded

LEMMA AnswerStep == AnswerInv /\ [Next]_vars => AnswerInv'
<1> SUFFICES ASSUME AnswerInv, [Next]_vars PROVE AnswerInv'
  OBVIOUS
<1>0. SettleInv /\ SettleInv' /\ TypesOK /\ LedgerTypeOK /\ [LedgerNext]_ledgerVars
  BY SettleStep, LedgerSteps DEF AnswerInv, SettleInv, LiveInv, TypesOK
<1>1. \A r \in Review : intent[r].state = "confirmed" => intent'[r] = intent[r]
  BY <1>0, ReceiptStep
<1>2. ASSUME NEW i \in Invocation, Control(i)
      PROVE  AnswerInv'
  BY <1>0, <1>1, <1>2, AnswerControl DEF AnswerInv
<1>3. CASE Elsewhere \/ UNCHANGED vars
  <2>1. UNCHANGED outwardVars /\ \A r \in Review : intent'[r] = intent[r]
    BY <1>3 DEF Elsewhere, vars, ledgerVars, Ingest, RecordStatus, Decide
  <2>2. \A k \in Invocation : R(k) \in Review /\ R(k)' = R(k) /\ Row(k)' = Row(k)
    BY <1>0, <2>1, RowType DEF R, Row, outwardVars
  <2> QED
    BY <1>0, <2>1, <2>2
       DEF AnswerInv, AnswersFollow, AnswerOK, RefusalIsFinal, AcceptedIsRecorded, outwardVars
<1>4. Elsewhere \/ UNCHANGED vars \/ \E i \in Invocation : Control(i)
  BY DEF Next, Control
<1> QED
  BY <1>2, <1>3, <1>4

LEMMA AnswerHolds == Spec => []AnswerInv
  BY AnswerInit, AnswerStep, PTL DEF Spec

\* An operator told REFUSED or PROVIDER_REJECTED may draft again: no request of that invocation
\* has created a draft or ever will, under any faults and whatever raced it.
THEOREM RefusalsFinal == Spec => []RefusalIsFinal
<1>1. AnswerInv => RefusalIsFinal
  BY DEF AnswerInv
<1> QED
  BY <1>1, AnswerHolds, PTL

\* An operator told ACCEPTED holds the receipt of a row that is confirmed, and stays so.
THEOREM AcceptedRecorded == Spec => []AcceptedIsRecorded
<1>1. AnswerInv => AcceptedIsRecorded
  BY DEF AnswerInv
<1> QED
  BY <1>1, AnswerHolds, PTL

-----------------------------------------------------------------------------
(* The commands implement DraftPromise. *)

\* The world as the promise sees it.
attempts == [r \in Review |-> intent[r].state]
drafts == {r \in Review : \E k \in Invocation : wire[k] = "landed" /\ R(k) = r}

\* A review that has a draft is held by the invocation that sent the request.
LEMMA DraftsHeld ==
  ASSUME SettleInv, NEW r \in drafts
  PROVE  \E k \in Invocation : wire[k] = "landed" /\ R(k) = r /\ intent[r] # NoIntent
<1>1. PICK k \in Invocation : wire[k] = "landed" /\ R(k) = r
  BY DEF drafts
<1>2. Standing(k)
  BY <1>1 DEF SettleInv, LiveInv, RowsHeld, Live
<1> QED
  BY <1>1, <1>2 DEF Standing, Row

\* A row that changes while no draft does is a move of the promise.
LEMMA RowMoves ==
  ASSUME SettleInv, NEW i \in Invocation, Control(i), wire' = wire
  PROVE  [Promise!Next]_<<attempts, drafts>>
<1>0. /\ TypesOK /\ LiveInv /\ WireFollows /\ OneLive /\ ReceiptsHeld
      /\ R(i) \in Review /\ intent \in [Review -> Intent] /\ call' = call
      /\ value[i] \in Receipt \cup {None}
  BY RowType, WireType DEF SettleInv, LiveInv, TypesOK, LedgerTypeOK, OutwardTypeOK
<1>1. drafts' = drafts
  BY <1>0 DEF drafts, R
<1> DEFINE state(r) == intent[r].state
           To(s) == attempts' = [attempts EXCEPT ![R(i)] = s]
<1>2. ASSUME NEW s, intent'[R(i)].state = s, \A q \in Review \ {R(i)} : intent'[q] = intent[q]
      PROVE  To(s)
  BY <1>0, <1>2 DEF attempts
<1>3. attempts[R(i)] = intent[R(i)].state
  BY <1>0 DEF attempts
<1>4. CASE intent' = intent
  BY <1>1, <1>4 DEF attempts
<1>5. CASE Claim(R(i), call[i].credential)
  <2>1. intent[R(i)] = NoIntent /\ To("attempting")
    BY <1>0, <1>2, <1>5 DEF Claim
  <2>2. R(i) \notin drafts
    BY <2>1, DraftsHeld
  <2>3. intent[R(i)].state = "none"
    BY <2>1 DEF NoIntent
  <2>4. Promise!Reserve(R(i))
    BY <1>0, <1>1, <1>3, <2>1, <2>2, <2>3 DEF Promise!Reserve, Promise!Move, attempts, drafts
  <2>5. Promise!Next
    BY <1>0, <2>4 DEF Promise!Next, Promise!Reserve, Promise!Move
  <2> QED
    BY <2>5
<1>6. CASE Reject(R(i)) /\ Release(i)
  <2>1. intent[R(i)].state = "attempting" /\ To("none")
    BY <1>0, <1>2, <1>6 DEF Reject, NoIntent
  <2>2. R(i) \notin drafts
    <3> SUFFICES ASSUME NEW k \in Invocation, wire[k] = "landed", R(k) = R(i) PROVE FALSE
      BY DEF drafts
    <3>1. Live(i) /\ Live(k)
      BY <1>6 DEF Release, At, Live
    <3>2. i = k
      BY <1>0, <3>1 DEF OneLive
    <3> QED
      BY <1>0, <1>6, <3>2 DEF Release, At, WireFollows, WireOK
  <2> QED
    BY <1>0, <1>1, <1>3, <2>1, <2>2 DEF Promise!Next, Promise!Release, Promise!Move, attempts, drafts
<1>7. ASSUME NEW v \in Receipt \cup {None}, Finish(R(i), v), intent[R(i)].state = "confirmed"
      PROVE  intent' = intent
  BY <1>7 DEF Finish
<1>8. ASSUME Finish(R(i), None), intent[R(i)].state # "confirmed"
      PROVE  [Promise!Next]_<<attempts, drafts>>
  <2>1. To("uncertain")
    BY <1>0, <1>2, <1>8, FinishMoves
  <2>2. intent[R(i)].state \in {"attempting", "uncertain"}
    BY <1>0, <1>8, FinishMoves DEF Intent, ReceiptsHeld
  <2>3. CASE intent[R(i)].state = "attempting"
    BY <1>0, <1>1, <1>3, <2>1, <2>3 DEF Promise!Next, Promise!LoseTrack, Promise!Move, attempts, drafts
  <2>4. CASE intent[R(i)].state = "uncertain"
    <3>1. attempts' = attempts
      BY <1>0, <2>1, <2>4 DEF attempts
    <3> QED
      BY <1>1, <3>1
  <2> QED
    BY <2>2, <2>3, <2>4
<1>9. ASSUME Finish(R(i), value[i]), pc[i] \in {"settle", "record"},
             intent[R(i)].state # "confirmed"
      PROVE  [Promise!Next]_<<attempts, drafts>>
  <2>1. value[i] # None /\ value[i] \in Landed(R(i), Row(i).mailbox)
    BY <1>0, <1>9, RecordedExists
  <2>2. To("confirmed")
    BY <1>0, <1>2, <1>9, <2>1, FinishMoves
  <2>3. intent[R(i)].state \in {"attempting", "uncertain"}
    BY <1>0, <1>9, FinishMoves DEF Intent, ReceiptsHeld
  <2>4. R(i) \in drafts
    BY <1>0, <2>1, LandedMember DEF drafts
  <2> QED
    BY <1>0, <1>1, <1>3, <2>2, <2>3, <2>4 DEF Promise!Next, Promise!Confirm, Promise!Move, attempts, drafts
<1> QED
  BY <1>0, <1>4, <1>5, <1>6, <1>7, <1>8, <1>9, IntentMoves

\* A request that lands is a draft the promise allows.
LEMMA LandCreates ==
  ASSUME SettleInv, NEW i \in Invocation, Land(i)
  PROVE  Promise!Next
<1>0. /\ TypesOK /\ OneLive /\ RowsHeld /\ ReceiptsHeld /\ ConfirmedExists
      /\ R(i) \in Review /\ intent \in [Review -> Intent]
      /\ wire[i] = "sent" /\ wire' = [wire EXCEPT ![i] = "landed"] /\ DOMAIN wire = Invocation
      /\ call' = call /\ intent' = intent
  BY RowType DEF SettleInv, LiveInv, TypesOK, LedgerTypeOK, OutwardTypeOK, Land, ledgerVars
<1>1. Live(i) /\ Standing(i)
  BY <1>0 DEF Live, RowsHeld
<1>2. ASSUME NEW k \in Invocation, wire[k] = "landed"
      PROVE  R(k) # R(i)
  BY <1>0, <1>1, <1>2 DEF OneLive, Live
<1>3. R(i) \notin drafts
  BY <1>2 DEF drafts
<1>4. intent[R(i)].state \in {"attempting", "uncertain"}
  <2>1. intent[R(i)].state # "none"
    BY <1>0, <1>1 DEF Standing, Row, ReceiptsHeld
  <2>2. ASSUME intent[R(i)].state = "confirmed"
        PROVE  FALSE
    <3>1. intent[R(i)].receipt \in Landed(R(i), intent[R(i)].mailbox)
      BY <1>0, <2>2 DEF ConfirmedExists
    <3> QED
      BY <1>2, <3>1, LandedMember
  <2> QED
    BY <1>0, <2>1, <2>2 DEF Intent
<1>5. drafts' = drafts \cup {R(i)}
  BY <1>0 DEF drafts, R
<1>6. attempts' = attempts
  BY <1>0 DEF attempts
<1> QED
  BY <1>0, <1>3, <1>4, <1>5, <1>6 DEF Promise!Next, Promise!Create, attempts, drafts

LEMMA PromiseStep == SettleInv /\ [Next]_vars => [Promise!Next]_<<attempts, drafts>>
<1> SUFFICES ASSUME SettleInv, [Next]_vars PROVE [Promise!Next]_<<attempts, drafts>>
  OBVIOUS
<1>0. TypesOK /\ WireFollows /\ DOMAIN wire = Invocation
  BY DEF SettleInv, LiveInv, TypesOK, OutwardTypeOK
<1>1. ASSUME NEW i \in Invocation, SendCreate(i) \/ Deny(i)
      PROVE  [Promise!Next]_<<attempts, drafts>>
  <2>1. wire[i] # "landed" /\ wire'[i] # "landed"
        /\ \A k \in Invocation \ {i} : wire'[k] = wire[k]
    BY <1>0, <1>1 DEF SendCreate, Deny, WireFollows, WireOK, Unsent
  <2>2. call' = call /\ intent' = intent
    BY <1>1 DEF SendCreate, Deny, ledgerVars
  <2>3. attempts' = attempts /\ drafts' = drafts
    BY <2>1, <2>2 DEF attempts, drafts, R
  <2> QED
    BY <2>3
<1>2. ASSUME NEW i \in Invocation, Control(i), ~SendCreate(i), ~Deny(i), ~Land(i)
      PROVE  wire' = wire
  BY <1>2 DEF Control, Step, At, ReadIntent, CheckBound, ReadApproval, ReadBinding,
     ReadAddressing, Identify, RefuseStep, ClaimStep, GetReceipt, GetRejection,
     LoseAnswer, Unsettle, Release, Settle, Verify, Lookup, Interrupted, Report,
     Crash, Busy
<1>3. ASSUME NEW i \in Invocation, Control(i)
      PROVE  [Promise!Next]_<<attempts, drafts>>
  BY <1>1, <1>2, <1>3, RowMoves, LandCreates
<1>4. CASE Elsewhere \/ UNCHANGED vars
  <2>1. UNCHANGED outwardVars /\ intent' = intent
    BY <1>4 DEF Elsewhere, vars, ledgerVars, Ingest, RecordStatus, Decide
  <2>2. attempts' = attempts /\ drafts' = drafts
    BY <2>1 DEF attempts, drafts, R, outwardVars
  <2> QED
    BY <2>2
<1>5. Elsewhere \/ UNCHANGED vars \/ \E i \in Invocation : Control(i)
  BY DEF Next, Control
<1> QED
  BY <1>3, <1>4, <1>5

\* draft() and reconcile() implement DraftPromise: a draft appears at most once, only while
\* its attempt is reserved and unsettled; what is confirmed exists; what is released does not.
THEOREM PromiseHolds == Spec => PromiseKept
<1>1. Init => Promise!Init
  BY DEF Init, LedgerInit, NoIntent, Promise!Init
<1>2. SettleInv /\ [Next]_vars => [Promise!Next]_<<attempts, drafts>>
  BY PromiseStep
<1>3. SettleInv /\ [Next]_vars => [Promise!Next]_(Promise!vars)
  BY <1>2 DEF attempts, drafts, Promise!vars
<1> QED
  BY <1>1, <1>3, SettleHolds, PTL DEF Spec, PromiseKept, Promise!Spec
=============================================================================
