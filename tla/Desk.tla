-------------------------------- MODULE Desk --------------------------------
(***************************************************************************)
(* Operators at work: pages of the web surface and terminals of the command*)
(* line that read an opportunity, and what they send back.  A page is      *)
(* Repository.opportunity(), which runs one autocommit statement after     *)
(* another, so intake and other operators may write between any two of     *)
(* them, and again before the operator acts on what is shown.              *)
(***************************************************************************)
EXTENDS Ledger

CONSTANTS
  Page,    \* pages and terminals, each showing at most one opportunity at a time
  Target   \* the destination of the launch, which no request can name

\* The facts of a packet, as a page hands them back with an approval.
Expectation == [content : Content \cup {None}, to : Sender \cup {None}, event : Nat]

ASSUME DeskAssumption == Target \in Mailbox /\ None \notin Expectation \cup Nat

VARIABLES
  page,    \* page -> how far its read is, and what it shows
  told     \* review -> what the page showed that its standing approval was given on

deskVars == <<page, told>>
vars == <<ledgerVars, deskVars>>

\* `content` and `event` come from the summary and the payload, `listed` from the history,
\* `bound` from the binding.  The decision and the attempt, read last, are displayed but
\* nothing sent back is made of them.
Blank ==
  [at |-> "closed", review |-> <<>>, content |-> None, event |-> 0, listed |-> 0,
   bound |-> [content |-> None, to |-> None, event |-> 0]]

Shown ==
  [at : {"closed", "history", "binding", "addressing", "shown"},
   review : Review \cup {<<>>}, content : Content \cup {None}, event : Nat, listed : Nat,
   bound : Expectation]

-----------------------------------------------------------------------------
(* opportunity(): one action per statement. *)

Reading(p, at) ==
  /\ page[p].at = at
  /\ UNCHANGED <<ledgerVars, told>>

\* The summary names the current review; the payload is read by its id and never changes.
Open(p, j) ==
  /\ Reading(p, "closed")
  /\ content[j] # <<>>
  /\ page' = [page EXCEPT ![p] =
       [at |-> "history", review |-> <<j, Len(content[j])>>,
        content |-> content[j][Len(content[j])], event |-> LatestEvent(j).id,
        listed |-> 0, bound |-> Blank.bound]]

ReadHistory(p) ==
  /\ Reading(p, "history")
  /\ page' = [page EXCEPT ![p].at = "binding", ![p].listed = LatestEvent(page[p].review[1]).id]

\* "Review is missing or stale" ends the read without an answer.
ReadBound(p) ==
  /\ Reading(p, "binding")
  /\ page' = [page EXCEPT ![p] =
       IF Current(page[p].review)
         THEN [page[p] EXCEPT !.at = "addressing",
                 !.bound = [content |-> ContentOf(page[p].review), to |-> None,
                            event |-> LatestEvent(page[p].review[1]).id]]
         ELSE Blank]

ReadAddress(p) ==
  /\ Reading(p, "addressing")
  /\ page' = [page EXCEPT ![p].at = "shown", ![p].bound.to = Addressing(page[p].review)]

-----------------------------------------------------------------------------
(* What the operator sends back, and everyone else. *)

\* Mutant: a page that is left keeps what it showed.
CloseKeeps(p) ==
  /\ page[p].at = "shown"
  /\ page' = [page EXCEPT ![p].at = "closed"]

\* A page is read again after a command, whatever the answer was.
Close(p) ==
  /\ page[p].at = "shown"
  /\ page' = [page EXCEPT ![p] = Blank]

Dismiss(p) == Close(p) /\ UNCHANGED <<ledgerVars, told>>

\* Mutant: the handler drops the expectation it was sent.
ApproveUnchecked(p) ==
  /\ Close(p)
  /\ Decide(page[p].review, TRUE, Target, None)
  /\ told' = [told EXCEPT ![page[p].review] = page[p]]

\* An approval carries bound.expected; a BindingConflict or a refusal writes nothing.
Approve(p) ==
  /\ Close(p)
  /\ Decide(page[p].review, TRUE, Target, page[p].bound)
  /\ told' = [told EXCEPT ![page[p].review] = page[p]]

\* A rejection carries nothing.
Deny(p) ==
  /\ Close(p)
  /\ Decide(page[p].review, FALSE, Target, None)
  /\ told' = [told EXCEPT ![page[p].review] = Blank]

\* Mutant: the status is appended whatever came since.
SetStatusBlind(p, s) ==
  /\ Close(p)
  /\ RecordStatus(page[p].review[1], s, None)
  /\ UNCHANGED told

\* A status carries the event of the summary.
SetStatus(p, s) ==
  /\ Close(p)
  /\ RecordStatus(page[p].review[1], s, page[p].event)
  /\ UNCHANGED told

\* The approve and reject commands of the command line send no expectation and may name
\* another mailbox.
DecideUnread(r, approved, mailbox) ==
  /\ Decide(r, approved, mailbox, None)
  /\ told' = [told EXCEPT ![r] = Blank]
  /\ UNCHANGED page

\* The status command must name an event; it succeeds for whoever read the latest one.
StatusElsewhere(j, s) ==
  /\ RecordStatus(j, s, LatestEvent(j).id)
  /\ UNCHANGED deskVars

Arrive(m, p) == Ingest(m, p) /\ UNCHANGED deskVars

\* The draft commands, as Ledger's transactions.
Attempt ==
  /\ \/ \E r \in Review : Claim(r, Target)
     \/ \E r \in Review, receipt \in Receipt \cup {None} : Finish(r, receipt)
     \/ \E r \in Review : Reject(r)
  /\ UNCHANGED deskVars

Init ==
  /\ LedgerInit
  /\ page = [p \in Page |-> Blank]
  /\ told = [r \in Review |-> Blank]

Next ==
  \/ \E p \in Page, j \in Job : Open(p, j)
  \/ \E p \in Page :
       \/ ReadHistory(p) \/ ReadBound(p) \/ ReadAddress(p)
       \/ Dismiss(p) \/ Approve(p) \/ Deny(p)
  \/ \E p \in Page, s \in Status : SetStatus(p, s)
  \/ \E r \in Review, approved \in BOOLEAN, mailbox \in Mailbox :
       DecideUnread(r, approved, mailbox)
  \/ \E j \in Job, s \in Status : StatusElsewhere(j, s)
  \/ \E m \in MessageId, p \in Payload : Arrive(m, p)
  \/ Attempt

Spec == Init /\ [][Next]_vars

-----------------------------------------------------------------------------
\* Every page and every approval has its type, and a page that is not being shown or read
\* holds nothing of the packet it showed last.
DeskTypeOK ==
  /\ page \in [Page -> Shown]
  /\ told \in [Review -> Shown]
  /\ \A p \in Page : page[p].at = "closed" <=> page[p].review = <<>>

\* An approval given on a page is of what that page showed: the review and wording it
\* displayed, the recipient it displayed, and a status no older than any it displayed,
\* though the page was put together from several statements and others wrote between them and
\* since.
ApprovalWasShown ==
  \A r \in Review : told[r] # Blank =>
    /\ Approved(r)
    /\ told[r].review = r
    /\ decision[r].content = told[r].content
    /\ decision[r].to = told[r].bound.to
    /\ decision[r].mailbox = Target
    /\ decision[r].event >= told[r].event /\ decision[r].event >= told[r].listed

\* From the screen to the reservation: a draft reserved under an approval given on a page
\* has the wording and the recipient that page displayed and the destination of the launch,
\* whatever intake, other operators and the command line wrote between the two.
ReservationWasShown ==
  \A r \in Review : intent[r] # NoIntent /\ told[r] # Blank =>
    /\ ContentOf(r) = told[r].content
    /\ AddressOf(intent[r].source) = told[r].bound.to
    /\ intent[r].mailbox = Target

\* A status recorded from a page answers the status that page displayed: the event it names
\* is the one the new event follows.
StatusFollowsPage ==
  [][\A p \in Page :
       page[p].at = "shown" /\ page'[p].at = "closed" /\ lastEvent' # lastEvent =>
         LET j == page[p].review[1] IN
           /\ Len(history'[j]) = Len(history[j]) + 1
           /\ history'[j][Len(history[j])].id = page[p].event]_vars
=============================================================================
