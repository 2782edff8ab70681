------------------------------- MODULE Screen -------------------------------
(***************************************************************************)
(* The browser application: one tab of app.js, in which every click starts *)
(* a task of its own that is not cancelled by the next.  A command is sent *)
(* from the packet on display, and then the page of whatever was selected  *)
(* when it was clicked is read again; `selected` changes at the click and  *)
(* the page when the answer arrives, so the two can part.  One HTTP request*)
(* is one step here (Desk has the statements inside a read, Outward those  *)
(* inside a draft), but for the outward commands, which answer from a      *)
(* later read of the row; the lists are left out, nothing sent being made  *)
(* of them but an id.                                                      *)
(***************************************************************************)
EXTENDS Views

CONSTANTS
  Task,      \* bound: clicks being carried out at once
  MaxClick,  \* bound: clicks in one session
  Target,    \* /session's decision_target
  Faults     \* whether requests and answers may be lost, and write reservations run out

ASSUME ScreenAssumption ==
  /\ Target \in Mailbox /\ Faults \in BOOLEAN /\ MaxClick \in Nat
  /\ None \notin Nat \cup Job /\ Job \cap MessageId = {}

VARIABLES
  selected,   \* state.selected: the row that is marked
  detail,     \* state.detail: what the page shows
  task,       \* the work of guard(), per click
  clicks      \* how many there were

tabVars == <<selected, detail, task, clicks>>
screenVars == <<ledgerVars, tabVars>>

\* A packet, with what is sent back from it and the queue that says which controls it has.
NoPacket ==
  [review |-> <<>>, bound |-> [content |-> None, to |-> None, event |-> 0], queue |-> "none",
   elsewhere |-> FALSE]

\* Mutant: that there is an approved destination is taken for its being another one.
PacketDestination(j) ==
  LET r == CurrentReview(j) IN
  [review |-> r, bound |-> Facts(r), queue |-> QueueOf(j), elsewhere |-> decision[r].mailbox]

Packet(j) ==
  LET r == CurrentReview(j) IN
  [review |-> r, bound |-> Facts(r), queue |-> QueueOf(j),
   elsewhere |-> decision[r].mailbox \notin {None, Target}]

\* What a command found: the job and review it was about, the newest event of that job, what
\* the record said of its decision, and how an outward command ended and left its row.
NoAnswer == [job |-> None, review |-> <<>>, event |-> 0, verdict |-> "none",
             outcome |-> "none", draft |-> "none"]

Blank == [shows |-> None, packet |-> NoPacket, answer |-> NoAnswer]

Resting == [at |-> "idle", command |-> "open", id |-> None, of |-> NoPacket,
            answer |-> NoAnswer, pane |-> Blank]

-----------------------------------------------------------------------------
(* Clicks.  `const id = state.selected` is read when the button is pressed. *)

Click(t, command, id, packet) ==
  /\ task[t] = Resting
  /\ clicks < MaxClick /\ clicks' = clicks + 1
  /\ task' = [task EXCEPT ![t] =
       [Resting EXCEPT !.at = IF command = "open" THEN "answered" ELSE "sent",
                       !.command = command, !.id = id, !.of = packet]]

\* openOpportunity and openCommunication mark the row before anything is read.
Open(t, id) ==
  /\ id \in Listed \cup Communications
  /\ Click(t, "open", id, NoPacket)
  /\ selected' = id
  /\ UNCHANGED <<ledgerVars, detail>>

\* Mutant: an unsettled attempt may be drafted again.
ControlsAgain ==
  [decide |-> {"approve", "reject"}, stale |-> {"approve", "reject"},
   draft |-> {"reject", "draft"}, reconcile |-> {"reconcile", "draft"},
   created |-> {}, rejected |-> {}, none |-> {}]

\* Which commands a queue offers; a queue that is not listed offers none.
Controls ==
  [decide |-> {"approve", "reject"}, stale |-> {"approve", "reject"},
   draft |-> {"reject", "draft"}, reconcile |-> {"reconcile"},
   created |-> {}, rejected |-> {}, none |-> {}]

\* A status can always be recorded, and an approval for another destination renewed.
Offered(packet) ==
  {"status"} \cup Controls[packet.queue]
    \cup {c \in {"approve"} : packet.queue = "draft" /\ packet.elsewhere}

Press(t, command) ==
  /\ detail.packet # NoPacket
  /\ command \in Offered(detail.packet)
  /\ Click(t, command, selected, detail.packet)
  /\ UNCHANGED <<ledgerVars, selected, detail>>

\* The queue cards of the dashboard.  The page stays.
ShowApprovals ==
  /\ selected' = None
  /\ UNCHANGED <<ledgerVars, detail, task, clicks>>

-----------------------------------------------------------------------------
(* The server's answers. *)

Sent(t, commands) ==
  /\ task[t].at = "sent" /\ task[t].command \in commands
  /\ UNCHANGED <<selected, detail, clicks>>

\* The answer is of the record as the command left it.
Answered(t, answer) ==
  task' = [task EXCEPT ![t].at = "answered", ![t].of = NoPacket, ![t].answer = answer]

About(t, j) == [NoAnswer EXCEPT !.job = j, !.review = task[t].of.review]

\* The event recorded, or the one that was observed instead; 404 for what is no opportunity.
StatusAnswer(t) ==
  LET j == task[t].id
      event == IF j \in Job THEN history'[j][Len(history'[j])].id ELSE 0 IN
  Answered(t, [About(t, j) EXCEPT !.event = event])

\* Mutant: the status is sent without the event the page showed.
PostStatusBlind(t, s) ==
  /\ Sent(t, {"status"})
  /\ task[t].id \in Listed
  /\ RecordStatus(task[t].id, s, None)
  /\ StatusAnswer(t)

\* The address is what was selected, the expected event what the page showed.
PostStatus(t, s) ==
  /\ Sent(t, {"status"})
  /\ LET j == task[t].id
         expected == task[t].of.bound.event IN
     \/ j \in Listed /\ RecordStatus(j, s, expected)
     \/ /\ j \in Listed => LatestEvent(j).id # expected
        /\ UNCHANGED ledgerVars
  /\ StatusAnswer(t)

\* The review and the expectation are those of the packet; a rejection carries none.
PostDecision(t) ==
  /\ Sent(t, {"approve", "reject"})
  /\ LET r == task[t].of.review
         approved == task[t].command = "approve"
         expected == IF approved THEN task[t].of.bound ELSE None IN
     \/ Decide(r, approved, Target, expected)
     \/ /\ \/ ~Current(r) \/ intent[r] # NoIntent
           \/ approved /\ (expected # Facts(r) \/ Ended(r[1]))
        /\ UNCHANGED ledgerVars
  /\ LET r == task[t].of.review IN
     Answered(t, [About(t, r[1]) EXCEPT !.verdict = decision'[r].verdict])

\* draft() or reconcile() ended on the server; its row is still to be read for the answer.
Ran(t, outcome) ==
  LET about == About(t, task[t].of.review[1]) IN
  task' = [task EXCEPT ![t].at = "ran", ![t].of = NoPacket,
                       ![t].answer = [about EXCEPT !.outcome = outcome]]

\* draft() answers a standing row; "stopped" is its None.
Standing(row) ==
  IF row.mailbox # Target THEN "REFUSED"
  ELSE IF row.state = "confirmed" THEN "ACCEPTED" ELSE "stopped"

\* draft() reserves, answers the row that stands, or is refused: by the record, by the
\* identity it could not verify, or because it cannot be composed.  A write reservation that
\* runs out on it is a "fault".
PostDraft(t) ==
  /\ Sent(t, {"draft"})
  /\ LET r == task[t].of.review IN
     \/ /\ Claim(r, Target)
        /\ task' = [task EXCEPT ![t].at = "claimed"]
     \/ /\ intent[r] # NoIntent
        /\ Ran(t, Standing(intent[r]))
        /\ UNCHANGED ledgerVars
     \/ /\ intent[r] = NoIntent
        /\ Ran(t, "REFUSED")
        /\ \/ UNCHANGED ledgerVars
           \/ Current(r) /\ (Approved(r) => decision[r].mailbox = Target) /\ Refuse(r)
     \/ /\ Faults /\ intent[r] = NoIntent
        /\ Ran(t, "fault")
        /\ UNCHANGED ledgerVars

\* The provider creates the draft, leaves it unknown, or proves that it did not; what cannot
\* be recorded of that is unknown too, and the row stays as it was.
SettleDraft(t) ==
  /\ task[t].at = "claimed"
  /\ LET r == task[t].of.review IN
     \/ \E receipt \in Receipt : Finish(r, receipt) /\ Ran(t, "ACCEPTED")
     \/ Finish(r, None) /\ Ran(t, "UNCERTAIN")
     \/ Reject(r) /\ Ran(t, "PROVIDER_REJECTED")
     \/ Faults /\ Ran(t, "UNCERTAIN") /\ UNCHANGED ledgerVars
  /\ UNCHANGED <<selected, detail, clicks>>

\* reconcile() is refused without a row, by a row of another mailbox, or when the identity
\* cannot be verified.  A confirmed row is answered, a draft found recorded; a search that
\* finds none, or fails, leaves the row exactly as unsettled as it was.
PostReconcile(t) ==
  /\ Sent(t, {"reconcile"})
  /\ LET r == task[t].of.review IN
     \/ /\ intent[r].state = "confirmed" => intent[r].mailbox # Target
        /\ Ran(t, "REFUSED")
        /\ UNCHANGED ledgerVars
     \/ /\ intent[r].state = "confirmed" /\ intent[r].mailbox = Target
        /\ Ran(t, "ACCEPTED")
        /\ UNCHANGED ledgerVars
     \/ /\ intent[r].state \in {"attempting", "uncertain"} /\ intent[r].mailbox = Target
        /\ \/ \E receipt \in Receipt : Finish(r, receipt) /\ Ran(t, "ACCEPTED")
           \/ Ran(t, "UNCERTAIN") /\ UNCHANGED ledgerVars

\* A fault without a row is reported as the fault it is.
Thrown(t) ==
  /\ task[t].at = "ran" /\ task[t].answer.outcome = "fault"
  /\ intent[task[t].answer.review] = NoIntent

\* attempt() reads the row again: it may have been made, settled or released since.
Report(t) ==
  /\ task[t].at = "ran" /\ ~Thrown(t)
  /\ LET state == intent[task[t].answer.review].state
         stopped == IF state = "attempting" THEN "REFUSED" ELSE "UNCERTAIN"
     IN Answered(t, [task[t].answer EXCEPT
                       !.outcome = CASE @ = "stopped" -> stopped
                                     [] @ = "fault" -> "UNCERTAIN"
                                     [] OTHER -> @,
                       !.draft = state])
  /\ UNCHANGED <<ledgerVars, selected, detail, clicks>>

-----------------------------------------------------------------------------
(* Re-reading, and what a task leaves on display. *)

\* Mutant: a command keeps the page it was clicked on and puts the answer beside it.
PageKept(t) ==
  LET id == task[t].id IN
  IF task[t].command # "open" THEN [detail EXCEPT !.answer = task[t].answer]
  ELSE [shows |-> id, packet |-> IF id \in Listed THEN Packet(id) ELSE NoPacket,
        answer |-> NoAnswer]

\* What opportunityDetail() and communication() read for the id the click took.
Page(t) ==
  LET id == task[t].id IN
  [shows |-> id, packet |-> IF id \in Listed THEN Packet(id) ELSE NoPacket,
   answer |-> task[t].answer]

\* Whether there is such a page.  A command reads an opportunity, whatever was selected.
Readable(t) ==
  task[t].id \in IF task[t].command = "open" THEN Listed \cup Communications
                                              ELSE Listed

Read(t) ==
  /\ task[t].at = "answered"
  /\ Readable(t)
  /\ task' = [task EXCEPT ![t] = [Resting EXCEPT !.at = "read", !.pane = Page(t)]]
  /\ UNCHANGED <<ledgerVars, selected, detail, clicks>>

\* The requests behind a page are not cancelled: the last answer to arrive is what is shown.
Show(t) ==
  /\ task[t].at = "read"
  /\ detail' = task[t].pane
  /\ task' = [task EXCEPT ![t] = Resting]
  /\ UNCHANGED <<ledgerVars, selected, clicks>>

\* guard() reports what was thrown: the page that is read does not exist, the server failed, or
\* a request or its answer was lost, which may be after the server carried it out or gave it up.
Fail(t) ==
  /\ \/ task[t].at = "answered" /\ ~Readable(t)
     \/ Thrown(t)
     \/ Faults /\ task[t].at \in {"sent", "answered", "read"}
  /\ task' = [task EXCEPT ![t] = Resting]
  /\ UNCHANGED <<ledgerVars, selected, detail, clicks>>

-----------------------------------------------------------------------------
\* Messages, whether taken in from this tab or not, and the command line.
Arrive(m, p) == Ingest(m, p) /\ UNCHANGED tabVars

StatusElsewhere(j, s) == RecordStatus(j, s, LatestEvent(j).id) /\ UNCHANGED tabVars

Init ==
  /\ LedgerInit
  /\ selected = None
  /\ detail = Blank
  /\ task = [t \in Task |-> Resting]
  /\ clicks = 0

Next ==
  \/ \E t \in Task :
       \/ \E id \in Job \cup MessageId : Open(t, id)
       \/ \E command \in {"status", "approve", "reject", "draft", "reconcile"} : Press(t, command)
       \/ \E s \in Status : PostStatus(t, s)
       \/ PostDecision(t)
       \/ PostDraft(t) \/ SettleDraft(t) \/ PostReconcile(t) \/ Report(t)
       \/ Read(t) \/ Show(t) \/ Fail(t)
  \/ ShowApprovals
  \/ \E m \in MessageId, p \in Payload : Arrive(m, p)
  \/ \E j \in Job, s \in Status : StatusElsewhere(j, s)

Spec == Init /\ [][Next]_screenVars
-----------------------------------------------------------------------------
AnyPacket ==
  [review : Review \cup {<<>>},
   bound : [content : Content \cup {None}, to : Sender \cup {None}, event : Nat],
   queue : DOMAIN Controls, elsewhere : BOOLEAN]

AnyAnswer ==
  [job : Job \cup MessageId \cup {None}, review : Review \cup {<<>>}, event : Nat,
   verdict : {"none", "approved", "rejected"},
   outcome : {"none", "stopped", "fault", "ACCEPTED", "REFUSED", "PROVIDER_REJECTED", "UNCERTAIN"},
   draft : {"none", "attempting", "uncertain", "confirmed"}]

AnyPage ==
  [shows : Job \cup MessageId \cup {None}, packet : AnyPacket, answer : AnyAnswer]

\* The page and every task have their types, and only a task whose command has not been
\* answered still holds the packet it was clicked on.
ScreenTypeOK ==
  /\ selected \in Job \cup MessageId \cup {None}
  /\ detail \in AnyPage
  /\ task \in [Task ->
       [at : {"idle", "sent", "claimed", "ran", "answered", "read"},
        command : {"open", "status", "approve", "reject", "draft", "reconcile"},
        id : Job \cup MessageId \cup {None}, of : AnyPacket, answer : AnyAnswer,
        pane : AnyPage]]
  /\ \A t \in Task : task[t].at \in {"sent", "claimed"} <=> task[t].of.review # <<>>
  /\ clicks \in 0..MaxClick

\* A status is sent to the address of what is selected with the event of what is displayed,
\* which are not always the same opportunity.  It is recorded only for the opportunity that
\* was displayed at the click, and only as the successor of the event displayed.
StatusLandsOnShown ==
  [][\A t \in Task :
       task[t].command = "status" /\ task[t].at = "sent" /\ lastEvent' # lastEvent
         /\ task'[t].at = "answered" =>
         LET j == task[t].of.review[1] IN
           /\ Len(history'[j]) = Len(history[j]) + 1
           /\ history[j][Len(history[j])].id = task[t].of.bound.event]_screenVars

\* "The packet is re-read first and the refusal is shown against the new one": a page that
\* reports a command on its own opportunity is no older than the state the command found or
\* made.  It shows that status event or a later one, and a review whose decision the answer
\* tells is not offered as undecided.
PageFollowsAnswer ==
  detail.answer # NoAnswer /\ detail.answer.job = detail.shows =>
    /\ detail.packet.bound.event >= detail.answer.event
    /\ detail.answer.verdict # "none" /\ detail.answer.review = detail.packet.review =>
         detail.packet.queue # "decide"

\* outwardAction(): "After an unknown outcome the only command offered is Reconcile", unless the
\* provider's own word has come since: a page that reports UNCERTAIN offers that review a draft
\* or a decision only if the answer found a reservation that was not settled, or was just
\* released, and the record holds the proof that the provider created nothing.
AgainOnlyIfRejected ==
  LET r == detail.answer.review IN
  detail.answer.outcome = "UNCERTAIN" /\ r = detail.packet.review
    /\ ~(Offered(detail.packet) \subseteq {"status", "reconcile"}) =>
      /\ detail.answer.draft \in {"attempting", "none"}
      /\ audit[r]["draft_rejected"] > 0

\* decide() and outward(): "send, then re-read, on every outcome alike".  When a command that
\* was answered is over, the page of the opportunity it was about shows the answer.
EveryAnswerReread ==
  [][\A t \in Task :
       /\ \/ task[t].at = "answered" /\ task[t].command # "open"
          \/ task[t].at = "read" /\ task[t].pane.answer # NoAnswer
       /\ task'[t].at = "idle" =>
         /\ detail'.answer # NoAnswer
         /\ detail'.answer.review[1] = detail'.shows]_screenVars
=============================================================================
