# CareerSignal in TLA+

CareerSignal reads recruiting messages, scores the jobs they describe, keeps a durable record of
reviews, statuses and decisions in SQLite, and, when the operator has approved a review, creates
one unsent draft in a mailbox. This directory models the part where mistakes cannot be taken back:
the record's write transactions, the commands that reach a mail provider, the pages operators
decide from and the browser tab they are shown in, the imports that fill the record, what is read
out of a message, and the start of processes on a database file. Paths below are relative to
`src/src/` unless they start with `docs/`.

## 1. Inventory

| Component | State | Operations | Interacts with |
|---|---|---|---|
| Record (`data/repository.py`, migrations) | `messages`, `message_sources`, `opportunities`, `reviews`, `provenance`, `opportunity_status_history`, `decisions`, `draft_intents`, `audit`, `extraction_items` | `ingest`, `record_status`, `decide`, `claim`, `finish`, `reject`, `refuse`; reads | called by every other component, from several processes and threads |
| Connections (`data/store.py`) | file, journal mode, write reservation, `schema_migrations` | `connection`, `transaction`, `migrate`, `verify_contract` | the record; other processes on the same file |
| Outward commands (`system/workflow.py`, `system/outward.py`) | locals of a running `draft()` or `reconcile()` | `draft`, `reconcile`, `attempt` | the record, between whose transactions they wait for the provider |
| Draft provider (`communications/gmail_draft.py`, `controlled.py`) | credential | `identity`, `refusal`, `create`, `lookup` | Gmail |
| Intake (`system/intake.py`, `communications/gmail.py`, `message.py`) | counts of one run | `ingest_eml`, `ingest_gmail` | Gmail (read), the record |
| Rules (`recruiting/`) | none | `extract`, `evaluate`, location matching, status vocabulary | intake |
| Packets and web commands (`system/web/server.py`, `system/views.py`, read half of the repository) | sessions of the server | packet, queue and timeline reads; approve, reject, status, draft, reconcile | the record, the outward commands |
| Browser (`system/web/static/`) | what is selected, what is displayed, work under way | open, decide, draft, reconcile, record a status, re-read | web commands |
| Command line (`system/cli.py`, `entrypoint.py`, `demo.py`) | none | the same commands | as the web commands |
| Release tools (`ops/tools`) | none | package and document checks | - |

What makes each hard, and what makes it correct:

* **Record.** Each method is one `BEGIN IMMEDIATE` transaction, so each is atomic, but the
  methods are called in any order by anyone. A newer message can supersede a review or move its
  addressee between any two of them. Correct means: a reservation is always backed by the
  approval it was made under, a receipt is final, the audit table tells the whole story, and an
  event id can serve as a compare-and-append token.
* **Outward commands.** They make up to six separate reads and writes with two network requests
  in between. Other invocations, intake, the operator, a crash, an exhausted write reservation, a
  lost or late answer may fall between any two. Correct means: one draft at most per review,
  exactly what was approved and where; no confirmation without a draft; no answer that invites a
  second attempt when a draft may exist.
* **Connections.** Retry until a deadline, several initializers of one file, of several releases.
  Correct means: a migration is applied once and whole or not at all, no process comes up on a
  schema it does not know, and a start outwaits another one's work.
* **Intake.** A run reads a mailbox page by page while mail arrives, then stores each message in
  a transaction of its own; any step can fail. Correct means: nothing of a mailbox that was not
  declared, nothing stored by a run that could not read, nothing missed between two pages, and a
  report that is true of the record whatever others stored first.
* **Packets.** A packet is read in several statements and its facts come back later in a
  decision.
* **Rules.** Pure functions over text, with state only inside their loops: the fields of one item
  must not leak into the next, and a negation must deny what it is about and nothing else.
* **Browser.** Each click starts work that no later click cancels; a command is addressed by what
  is selected and carries what is displayed, and answers may be late or lost. Correct means:
  nothing lands on what was not displayed, and a page that reports a command is not older than it.

`PROJECT.json` lists each hazard with its source line and the properties that watch it.

## 2. Modules

| Module | What it is |
|---|---|
| `Ledger` | The record: nine variables for the tables, one action per write transaction |
| `LedgerProofs` | Its theorems |
| `DraftPromise` | The abstract specification: per review, one attempt and at most one draft |
| `Outward` | Extends `Ledger`: any number of `draft()` and `reconcile()` calls, the provider, faults, and everyone else's writes |
| `OutwardProofs` | Its theorems, including that it implements `DraftPromise` |
| `MCOutward` | Constants for TLC |
| `Views` | Extends `Ledger` with what is shown of it: the summary, the action, the queue, the advice, and what a message addresses. No state |
| `ViewsProofs` | Its theorems |
| `Desk` | Extends `Ledger`: pages read statement by statement, and the decisions and statuses they send back |
| `DeskProofs` | Its theorems |
| `MCDesk` | Constants for TLC; it checks `Ledger`, `Views` and `Desk` together |
| `Screen` | Extends `Views` with one browser tab: clicks, commands, re-reads and what is on display |
| `ScreenProofs` | Its theorems |
| `MCScreen` | Constants for TLC |
| `GmailIntake` | Extends `Ledger`: imports of a mailbox by runs that share a reader, and of local files |
| `IntakeProofs` | Its theorems |
| `MCGmailIntake` | Constants for TLC |
| `SchemaPromise` | The abstract specification of `migrate()`: a file moves from whole release to whole release |
| `Store` | `connection()`, `transaction()` and `migrate()` by any number of processes of several releases |
| `StoreProofs` | Its theorems, including that it implements `SchemaPromise` |
| `MCStore` | Constants for TLC |
| `Extraction` | `extract()`: labeled lines into opportunities |
| `Markup` | `_VisibleHTML`: which text of an HTML body is read |
| `Location` | `Location.parse()` and `accepts()`, word by word |
| `DraftListing` | `lookup()`, page by page, over a mailbox that changes meanwhile |
| `ReadingProofs` | The theorems of these four |
| `MCReading` | Alphabets and headers for the four; a behaviour runs one of them |

Definitions whose comment starts with "Mutant:" are wrong versions of the definition that
follows them; they are used by no specification and serve to check that a property can fail.

### Ledger

`content[j]` is the chain of reviews of job `j`: a review id is the fingerprint of its content and
of the id it supersedes, so the n-th review of `j` is `<<j, n>>` and the last one is
`opportunities.current_review`. A message (`Payload`) says at most one content per job and has a
sender, unless it came through the structured JSON intake, which stores no `message_sources` row.
`sources[r]` is the provenance of `r` joined with `message_sources`, oldest first; its last
element addresses the draft. `provenance[j]` is the message of the job's newest provenance row
whether or not that message is joined, which is what `communication()` goes by. `history[j]` holds
status events whose ids come from one rowid sequence (`lastEvent`). `decision`, `intent` are the
rows of `decisions` and `draft_intents`. `audit` counts the rows of the append-only table per
review and event.

| Action | Code | Guards kept |
|---|---|---|
| `Ingest` | `Repository.ingest` | replay writes nothing, opening event only for a job without one, new review only if the content differs from the current one |
| `RecordStatus` | `record_status` | unknown job, compare-and-append |
| `Decide` | `decide` | current review, advancing if approved, expected facts, terminal status, draft-intent lock |
| `Claim` | `claim` | every re-check of the transaction (`Authorized`), in one conjunction because each failure writes nothing |
| `Finish`, `FinishRaises` | `finish` | no row, receipt conflict, UNIQUE receipt, confirmed row is left alone |
| `Reject`, `Refuse` | `reject`, `refuse` | `attempting` only; no row only |

A call that raises writes nothing (the transaction rolls back) and is a stutter here; where the
caller reacts to it, `Outward` models the reaction.

### Outward

An invocation is one call with its arguments: the command, the review, the mailbox the operator
declared and the credential it was launched with, which may belong to another mailbox. `pc` says
which repository call or provider request comes next; `seen`, `approval`, `request` and `value`
are the locals that survive a step. `result` is how the call ended and `report` what `attempt()`
answered after its own read of the row. `wire[i]` is the create request as the provider has it:
idle, sent, landed (a draft exists) or denied.

| Step | Code |
|---|---|
| `ReadIntent`, `CheckBound` | the replay check: `intent()` then `intent_identity()`, two reads |
| `ReadApproval` | `approved_identity()` and the comparison with the declared mailbox |
| `ReadBinding`, `ReadAddressing` | `draft_material()`, two statements, and `refusal()`, which makes no request |
| `Identify` | `identity()`, answering or failing |
| `RefuseStep` | `refuse()`, or the answer of the row found instead |
| `ClaimStep` | `claim()`: reserved, already reserved, or raised |
| `SendCreate` | `create()` up to the request; what cannot be composed raises before it |
| `GetReceipt`, `GetRejection`, `LoseAnswer` | the answer: a receipt, one of 400/401/403, or nothing usable; or an interrupt |
| `Unsettle`, `Interrupted`, `Release`, `Settle` | `finish(None)`, the same on the way out of an interrupt, `reject()`, `finish(receipt)` |
| `Verify`, `Lookup` | `reconcile()`: identity, then the listing |
| `Report` | `attempt()`: classification over a fresh read |
| `Crash`, `Busy` | the process ends; "Write reservation exhausted" |
| `Land`, `Deny` | the provider (external): carries a request out, at any time after it was sent, or declines it |
| `Elsewhere` | intake, status events and decisions of any other caller |

`Composes` stands for the checks of `compose()`, `recipient()` and `subject()`, which depend on
nothing but the address and the wording; a sender is composable or not.

`lookup()` answers with a draft only when exactly one carries the review's key; it may also
answer None at any time, which stands for a truncated listing, a draft not listed yet or deleted.
How it comes to its answer is `DraftListing`'s.

### DraftPromise

Two variables: `attempt`, the state of the row, and `created`, the reviews a draft exists for.
`Outward` implements it with `attempt[r] <- intent[r].state` and `created` <- the reviews of
landed requests (`PromiseKept`).

### Views

`Summary`, `Action` and `Binds` are the projections of `_summary()` and `_action()`, `Queue` and
`Advice` are `queue()` and `approval()` of `system/views.py`, in the order of their tests.
`actionable` is left out (it is about rows older than a migration), and so is the wording half of
`binds`: within one review the wording cannot change. `QueueIsHonest` compares the queue with
the guards of `Claim` and `Decide`, which share no code with it. `Communications` and
`Addresses` are `communications()` and `communication()`: which jobs a message's page says it
addresses. `AddressesAreBound` compares that with `_addressing()`, another query over other rows.

### Desk

A page is `Repository.opportunity()`, whose statements run in autocommit, so each is an action:

| Action | Code |
|---|---|
| `Open` | the summary, with the current review and the latest status event, and the payload of that review |
| `ReadHistory` | the status history |
| `ReadBound`, `ReadAddress` | `_binding()`: the facts an approval expects; a review superseded meanwhile ends the read |
| `Approve` | `POST` of an approval with `bound.expected`, through `decide()` |
| `Deny` | `POST` of a rejection, which may carry nothing |
| `SetStatus` | `POST` of a status with the summary's event |
| `Dismiss` | the page is left, or its command was refused: it is read again |
| `DecideUnread`, `StatusElsewhere` | the command line: decisions carry no expectation, a status must name the latest event to succeed |
| `Arrive`, `Attempt` | intake; the transactions of the outward commands |

The decision and the attempt a page displays are read last and are left out, because nothing
that is sent back is made of them; the queue only hides buttons, so an operator here may press
more than the browser offers. `told[r]` is a history variable: what the page showed when the
standing approval of `r` was given on it, or `Blank` if it was given elsewhere.

### GmailIntake

A run is one call of `ingest_gmail()`; `run[i]` holds its stage and locals, and what it leaves when
it ends is the list of records it made. `verified` is the flag of the reader all runs of a launch
share. The mailbox is external: newest first, growing at the front, listed by position, so a
message can be offered on two pages and none is skipped. Deletions are not modelled.

| Action | Code |
|---|---|
| `Start`, `Identify` | a command is accepted; `verify_identity()`, one profile read per reader |
| `List` | one round of the loop in `identifiers()`: at most the entries asked for, perhaps none, a token while there is more |
| `Fetch` | `fetch()` of the next message and `from_bytes()` |
| `Unreadable` | anything of the above fails: `SourceUnreadable` |
| `Store` | one round of the write loop: `intake_message()` and `ingest()`, which stores the message or answers a replay from provenance |
| `Decline`, `Raise`, `Report` | a `ValueError` of the message or its id; a database error; the report |
| `ImportFile` | `ingest_eml()`, whose id and namespace may be those of a mailbox message |
| `Deliver` | mail arrives (external) |

What is wrong with a message is one of two things, told apart by where it is found out: bytes
`from_bytes()` refuses, and HTML that is refused when its content is asked for.

### Store

A migration is a file name and the digest of its text, and a release the sequence of its files.
`ledger` and `schema` are what is committed: the rows of `schema_migrations` and the statements
whose effects the file has. `tx` is what the process inside `BEGIN IMMEDIATE` sees, and how far
its loop is (`at` the file, `done` its statements).

| Action | Code |
|---|---|
| `Start`, `Negotiate`, `Contend` | `connection()`: open, `_negotiate_wal()`, and its retry until the deadline |
| `Peek` | `_migrations_pending()`, outside any reservation, and the budget chosen from it |
| `Reserve`, `Exhaust` | `BEGIN IMMEDIATE`, and "Write reservation exhausted" |
| `Refuse` | "unknown migrations", "Applied migration was modified" |
| `Skip`, `Execute`, `Record` | the loop: applied before, one statement, the row of the file |
| `Commit` | `conn.commit()` |
| `Break`, `Die`, `Leave` | anything raises, the process is killed, it ends; the transaction is rolled back |
| `Tick` | time, while one process holds the reservation and others wait |

SQLite is taken to do what its calls say: one write reservation, nothing visible before COMMIT,
and a rollback when the process dies. The unit of time is the longest statement, so at most one
passes for taking the reservation and for each statement. Only starts hold the reservation here:
ordinary writes, which would lengthen the waits, change neither variable and are left out, so
`PatientStart` is about starts among themselves. `SchemaPromise` has the same two variables,
under the identity mapping.

### Screen

One tab. `selected` and `detail` are the fields of `state` in `app.js`, `task[t]` what one call of
`guard()` is doing; `guard()` does not wait for another, so tasks overlap. A page is an
opportunity's packet, a message or nothing, with the answer of the command it was re-read after.

| Action | Code |
|---|---|
| `Open` | `openOpportunity`, `openCommunication`: the selection moves at the click |
| `Press` | a button of the displayed packet, where its queue offers one (`Controls`); `const id = state.selected` is read here |
| `ShowApprovals` | nothing is selected, the page stays |
| `PostStatus` | `POST` to the *selected* opportunity with the *displayed* event |
| `PostDecision` | `POST` to the displayed review; a rejection carries no expectation |
| `PostDraft`, `SettleDraft` | `draft()` of the displayed review up to its reservation, and from there: accepted, unknown, proven rejected, or not recorded |
| `PostReconcile` | `reconcile()`: a refusal and a search that finds nothing leave the row as it was |
| `Report`, `Thrown` | `attempt()` reads the row again and words the answer; a fault without a row is thrown |
| `Read`, `Show` | `opportunityDetail(id)` or `communication(id)`, and its answer, which is displayed whenever it comes |
| `Fail` | `guard()`'s catch: there is no such page, or a request or its answer was lost |
| `Arrive`, `StatusElsewhere` | intake and the command line |

A read, a status and a decision are one step here: `Desk` has the statements inside a read,
`Outward` those inside a draft. The outward commands are two or three: what the operator is told is
of a row read after the command ended (`Ran`, then `Report`), when it may have been settled or
released by another. `Answered` keeps of an answer what the record said, whether the command was
carried out or refused, because a refusal reports what was observed. The timeline, the sources and
the authorization digests that are read beside the packet send nothing back. `composing` is left
out: the status form carries the event of the packet it was opened on, as the buttons do.

### Extraction, Markup, Location

The loop of each reader is its behaviour, so at every state what was read so far is a whole input
and the invariants compare the result for it with another way to say the same. `Extraction` has
one action per labeled line; a value is a member of a small set, with `clean()` and
`canonical_url()` as functions on it, so two spellings of one url and an unusable one are covered.
`Markup` keeps the code's stack beside the true stack of open elements and `nested`, whether the
body was well formed so far; what the code does with other bodies is modelled but only refused or
guessed at, so nothing is claimed about it. `Location` has a table entry of each kind that is
treated differently: a mode with two spellings, a mode of two words one of which is filler, a
region with an alias.

### DraftListing

One `lookup()`: `token`, `pages` and `matches` are its locals, `entries` what is left of the page
in hand. The mailbox lists drafts newest first, answers a page with up to `PageSize` of them,
perhaps none, and continues by position.

| Action | Code |
|---|---|
| `Begin`, `List` | the call, and one `drafts?maxResults` request |
| `Compare` | `_metadata_intent()` of the next entry, a request of its own |
| `Turn` | another page while there is a token and the budget lasts, else `Answer` |
| `Fail` | a request, a body or an identifier that raises; the entry's draft is gone |
| `Save`, `Discard` | the mailbox's owner (external) |

A draft saved between two pages pushes others onto the next page, so an entry may come twice; it is
then counted twice and the answer is None, which is safe. A draft discarded between two pages pulls
one back onto a page already read, where this listing never sees it. The code cannot know, so the
receipt is claimed to be undisputed only if nothing was discarded meanwhile. How Gmail really
continues a listing is its own affair; by position is the kind that can skip and repeat.

## 3. Runs

Deadlock is not checked in any run: every call ends, the bounds stop everyone else, and a
finished system is a legal end. `SYMMETRY` is used only in runs without liveness, over sets of
model values that no constant tells apart: in `screen` the two jobs and the two tasks.

| Run | Question | Bounds |
|---|---|---|
| `outward` | `OutwardTypeOK`, `DraftIsApproved`, `RefusalIsFinal`, `AcceptedIsRecorded` | 2 invocations, 2 messages, a composable and a hostile sender, 2 mailboxes, a terminal status, 2 approvals |
| `outward_races` | `AtMostOneDraft`, `ConfirmedExists`, `SettlementNeverConflicts`, `PromiseKept`, `AttemptSettles` | 3 invocations: an owner, a rival and a reconciliation, with faults, under weak fairness; the record's variety is left to `outward` |
| `desk` | `LedgerTypeOK`, `AttemptIsApproved`, `AttemptAudited`, `QueueIsHonest`, `AddressesAreBound`, `ReceiptFinal`, `DeskTypeOK`, `ApprovalWasShown`, `ReservationWasShown`, `StatusFollowsPage` | 1 page, 1 job with 2 reviews, 2 messages, 2 senders, 2 mailboxes, 3 status events, 2 approvals and 2 reservations per review, so a release is followed by a second attempt |
| `screen` | `ScreenTypeOK`, `PageFollowsAnswer`, `AgainOnlyIfRejected`, `StatusLandsOnShown` | 2 tasks, 5 clicks, 1 message about 2 jobs, 3 status events, each recorded command once per review (the audit row of a refused draft is left out), requests and answers lost, write reservations exhausted |
| `reading` | `ItemsAreIndependent`, `VisibleIsUnconcealed`, `OneDenialOneMode`, `DeniedIsNotOffered`, `ReceiptIsUndisputed` | 6 lines of 8, 7 tags of 4 names, 6 words of 11; 4 drafts (two claimants, a stranger, one that claims two intents), pages of 2, at most 2 pages |
| `intake` | `IntakeTypeOK`, `OwnMailboxOnly`, `UnreadableStoresNothing`, `BatchComplete`, `ReportsAgree`, `ImportEnds` | 2 runs of a limit of 2, 3 messages (a digest of two jobs, a later word on one of them, an undecodable one), pages of 1, at most 3 pages, 1 file that claims a message's id |
| `store` | `StoreTypeOK`, `StartedIsMigrated`, `PatientStart`, `PromiseKept`, `StartSettles` | 3 processes, 3 starts, 3 releases (one migration; that and a second; the first edited), 1 fault, a startup budget of 6 statements and a write budget of 1 |
| `outward_sent`, `outward_unsettled` | violations, below | as `outward` |
| `intake_partial` | violation, below | 1 run, and the third message is HTML that never closes its hidden part |
| `screen_reread` | violation, below | as `screen`, with nothing lost |
| `reading_exclusion` | violation, below | as `reading` |

One page is enough for `desk`: what other pages do to it is a decision or a status event, and
`DecideUnread` and `StatusElsewhere` take every step another page's decision or status could.
Two messages are enough to move the recipient or supersede the review at any point of the read,
and three events to fit a stranger's status between the one displayed and the one sent.

Two tasks are a command and whatever the operator does before it is answered. Five clicks are two
pages opened, a decision, a draft and one more; the commands of a longer session meet the same
pages again. One message about two jobs gives two opportunities to confuse and a message page;
what a newer message does to a packet on display is `Desk`'s question.

Six lines are two items that are complete or conflict; three items meet in the shorter texts. Seven
tags nest three deep with an element beside them. Six words are two work modes with a denial that
could belong to either, or a mode and a negation with two places; the alphabet has a word of every
kind the code tells apart, but not two of each. Two pages of two for four drafts are the least in
which a claimant may be on either page, moved across the boundary by a draft saved or discarded, or
beyond the budget when a page came short.

Three messages over a limit of two are the least that let a repeated identifier cost another its
place; three pages let one of them be empty or repeated without ending the walk, and a fourth
message would only repeat that. Two runs are one that stores first and one that replays or is
refused. Both are well under the code's 100 entries and 50 pages, which enter as `PageSize` and
`MaxPages`.

Three processes are one that migrates, one that waits for it and one that restarts as another
release; three starts let each be any release, or one be a restart after the fault. `Startup` is
the least budget that outlasts two other starts without a failure (3 statements, and the
reservation of each of the two holders, before the third tries once more): `PatientStart` is about
that ratio, and with one failure, after which the work is done again, the budget can be used up.

`MaxRevision`, `MaxEvent` and `MaxAudit` bound the reviews of a job, the status events and the
audit rows of each kind; they appear only in guards. A review's id does not repeat, so a second
review shows everything a third could about superseding; a reservation can be released and made
again once more, which shows what a longer series would. In the outward runs `MaxEvent` is 1, the
event that opens a job, so no status is recorded and no opportunity ends there: what a status does
to a decision and a reservation is checked in `desk`, and the theorems of `Outward`, which do not
depend on these bounds, cover it in the commands. No theorem below depends on them.

**Fairness.** `FairSpec` has weak fairness of each invocation's own steps. Each is one local
transaction, which either gets its reservation within a second or raises, or one HTTPS request
with a timeout; nothing in the code waits for another invocation. Nothing is assumed of the
provider. A process that dies right after `claim()`, or whose reservation is exhausted in the write
that should settle its row, does leave the row `attempting` for good, by design, and the operator
reconciles. `AttemptSettles` excepts the invocations that reserved the review and ended so
(`Undone`): they hold the material that `claim()` returned, and died, or ended in a fault or
without a known outcome.

In `intake` a run that was started goes on: each of its steps is one request with a timeout or one
transaction, which succeeds or raises. Nothing has to arrive or to be imported.

In `store` every process goes on with its own start (`Step`); nothing has to be started, to fail,
or to be slow. A contended attempt uses up the deadline, so no retry is endless.

### What the code does that its documents do not say

* `outward_sent`: `draft()` judges the address it reads *before* the reservation; if a newer
  source with an address that cannot be composed arrives and is approved before `claim()`, it is
  `create()` that refuses, before any request, and `except Exception` records the row as
  `uncertain`. `docs/approved-drafts.md` says a refusal must not be recorded as an uncertain
  write. The review is then locked, and reconciliation cannot find a draft that was never asked for.
* `outward_unsettled`: `draft()` reads an `attempting` row and answers None; its owner confirms
  it; `attempt()` reads `confirmed` and falls through to UNCERTAIN with no receipt, although
  `outward.py` says an answer that contradicts the row is what its vocabulary exists to prevent.
* `intake_partial`: `messages()` returns a batch whole, but a message's `content` is computed in
  the write loop, where HTML that never closes its hidden part raises "Malformed HTML" with the
  messages before it committed. `app.js` and `intake.py` both say that a failed batch leaves
  nothing behind. Repeating the import stores nothing twice (`ReportsAgree`), but fails there again.
* `screen_reread`: after a command the page of `state.selected` at the click is re-read, not of the
  opportunity the command was about. `showApprovals()` clears the selection and leaves the packet
  and its buttons on display: a decision pressed then is recorded, the re-read of `null` throws, and
  the operator is told "The local surface refused this request". With another opportunity selected
  and still loading, the answer about the first is displayed on the page of the second. `app.js`
  says "send, then re-read -- on success and on refusal alike". Nothing wrong is recorded
  (`StatusLandsOnShown`): the event of the displayed packet is no event of the selected one.
* `reading_exclusion`: words after one negation are one excluded region, so "remote, not us or
  canada" excludes "us canada" and is accepted by a profile for "remote us", although `accepts()`
  says that a posting that rules out the configured region cannot satisfy it.

Other disagreements were met while modelling and are left to the reader, without a run:

* `communication()` says `addresses` names what a draft would be addressed from today. After a
  structured JSON intake of the same content no message's page names the job, although its draft
  would still go to the earlier sender. The converse holds (`AddressesAreBound`).
* A page displays the status of the summary, and an approval expects the status event of the
  binding, read two statements later, so a status recorded between the two is approved without
  having been displayed, although `server.py` says an approval is recorded only while the four
  facts the operator saw still hold. Wording and recipient come from the binding itself
  (`ApprovalWasShown`).
* The verified mailbox is compared with the approval read earlier, if there was one, and never
  with the declared mailbox; an approval that appears in between lets a call write to the mailbox
  its credential belongs to and not to the one it named. What is written is still what was
  approved, there (`DraftIsApproved`).
* `approval()` in `system/views.py` advises "reapprove" of an approval that no longer binds even
  when the opportunity has ended, where `decide()` refuses every approval. `QueueIsHonest` therefore
  only asks that this advice agree with the queue `stale`.
* `screens.js` says that after an unknown outcome the only command offered is Reconcile. A
  reconciliation of an `attempting` row whose search finds nothing leaves the row as it was and
  answers UNCERTAIN; if the draft that holds the reservation is then proven rejected, the row is
  deleted, and the page read after the answer shows the unknown outcome beside "Create draft".
  Nothing can be drafted twice by it: `AgainOnlyIfRejected` says that the record then holds the
  proof that nothing was created. For the same reason `web-surface.md` is imprecise where it says
  that an attempt that was not found stays `uncertain`: it may be `attempting`, and need not stay.
* The header of `app.js` says a list and a detail pane cannot disagree; they are read by different
  requests at different times, and a page that loads late is displayed beside another row's mark.

## 4. Proofs

Every safety invariant and every action property that a passing run checks is also a theorem,
for arbitrary sets of jobs, messages, senders, mailboxes, invocations, clicks, runs, processes,
releases, lines, words and drafts, and arbitrary bounds. TLC checked each strengthened invariant
as an invariant of the same run before it was proved.

The assumptions are on constants and hold of every value the code can give them:

| Assumption | Says |
|---|---|
| `LedgerAssumption` | terminal statuses are statuses, the initial one is not terminal, NULL is no value |
| `OutwardAssumption` | each create request has its own receipt |
| `DeskAssumption`, `ScreenAssumption` | the launch names a mailbox; no packet's facts, event id or job are NULL |
| `IntakeAssumption` | mail has identifiers and payloads with a sender; limits and page sizes are positive |
| `StoreAssumption` | files have distinct names within a release |
| `ExtractionAssumption` | a line is a field and a value; normalizing nothing gives nothing; None is no job |
| `MarkupAssumption`, `DraftListingAssumption` | a concealing tag is not void; no token is no draft's |

`LedgerProofs`:

* `LedgerTypeCorrect`: types and foreign keys. The rest builds on it.
* `EventIdsStep`, a lemma for `ScreenProofs`: an event id names one event of one job
  (`EventIdsIdentify`), inductive with "no event is newer than `lastEvent`". The table's primary key
  gives that to the code; nothing is claimed by it.
* `AttemptApproved`, `AttemptsAudited`, `ReceiptsFinal`. `AttemptIsApproved` is not inductive
  alone: intake appends to `content` and `sources`, so the proof needs that a review's content
  never changes and that the row keeps the id of its own source.

`OutwardProofs`:

* `OutwardUsesLedger`: every step is a step of the record or leaves it alone, so the theorems of
  `Ledger` hold here.
* `OneDraft`: the inductive invariant `LiveInv` says that an invocation past its reservation owns
  the row (`WireFollows`, `RowsHeld`) and that a review has at most one invocation whose request
  is live (`OneLive`), where a live one is anything between the reservation and a proven denial.
* `LandedAlone`: a corollary, which with `AnswersClaim` below justifies that a lookup is one step
  of `Outward` although the code lists pages: whatever happens between two pages, the answer is
  nothing or a draft of that intent, and there is one such draft at most.
* `DraftsApproved`: the same with the equality of request and decision, which survives because
  `decide()` is locked while the row stands.
* `ConfirmedDraftsExist`, `SettlementsNeverConflict`: `SettleInv` adds that a receipt held by an
  invocation or stored in a row is that of a landed request of that review and mailbox, and
  that an invocation about to release finds its row still `attempting`.
* `RefusalsFinal`, `AcceptedRecorded`: `AnswerInv` says at which points an invocation can still
  answer with a refusal and how far its request can be there, and that the receipt it is about to
  report is in the row. A confirmed row is never written again (`ReceiptsFinal`), so what was
  reported stays true.
* `PromiseHolds`: the initial state maps to `DraftPromise`'s, and each step maps to one of its
  steps or to a stutter; the invariants above supply the guards (`r \notin created` for a
  reservation or a release, `r \in created` for a confirmation).

`DeskProofs`:

* `DeskUsesLedger`: an expectation only narrows when a write succeeds, so every step is one of the
  record.
* `ApprovalsWereShown`: inductive with `PagesOK`, which says that an open page holds the wording of
  the review it names and no status event yet to come. That survives intake because a review's
  content never changes (`ContentKept`) and event ids only grow (`LatestEventGrows`).
* `ReservationsWereShown`: `ApprovalWasShown` composed with the record's `AttemptIsApproved`.
* `StatusesFollowPages`: from the types alone; a nonempty history has a latest event, and only a
  page that displayed it gets its status recorded.

`ViewsProofs`, over any behaviour of the record (`LedgerSpec`, and so of `Desk` and `Outward`):

* `AddressesBound`: inductive with "the newest provenance row of a job, if its message has a sender,
  is the last source of the current review" and "no job has more reviews than there are names for".
* `QueuesHonest`: needs that a decision is of a review there is, with its wording and a destination
  (`DecisionGrounded`), and that only an absent row has no state (`RowStated`). Then the queue, the
  advice and the guards of `Claim` and `Decide` are Boolean functions of five facts.

`ScreenProofs`:

* `ScreenUsesLedger`: what a click sends narrows what the record accepts, as for `Desk`.
* `ScreenTypes`, `PagesFollowAnswers`, `AgainOnlyOnProof`: one invariant, `ScreenInv`. Each thing a
  tab holds, the packet displayed, the answer of a command in progress, the pane about to be
  shown, is in the set of those that were once true of the record and are true of whatever it
  becomes: `KnownPackets`, `KnownAnswers`, `KnownPages`. An event stays in its history; a decision
  is made again but never withdrawn, so `verdict # "none"` stays; a row that reached `uncertain`
  only goes on to `confirmed`; and a review that was tried (`Tried`) has its row or, once the row is
  released, the rejection in its audit (`TriedKept`, `RejectionKept`). A packet read after an answer
  is therefore at least as new as the answer, which is the step the page properties turn on.
* `StatusesLandOnShown`: the packet's event belongs to the packet's opportunity (`KnownPackets`),
  and an event id names one event of one job (`EventIdsInv`); a status sent to another address
  carries an event that is not that job's latest and is refused.

`IntakeProofs`:

* `IntakeUsesLedger`, `IntakeTypes`. `Extend` is a recursive function over a page; the lemmas on
  what it keeps, adds and bounds go by the least index that would fail (`Least`, `Induction`),
  which is induction over the page stated of sets.
* `OnlyOwnMailbox`: a run past its identity read, or the reader's memory of one, implies the
  declared owner; `UnreadableStored`: the two phases, nothing is stored before everything was
  read.
* `ReportsHold`: an entry's reviews stay those its message is the source of, because a message
  that is stored is replayed and writes nothing.
* `BatchesComplete` (`KnownRuns`, `Seen`): the walk has offered all of the old mail outside what
  is still to come, where "still to come" is counted from the end of the mailbox, since arrivals
  push everything back by one; a page read at an offset therefore repeats identifiers and never
  skips one.

`ReadingProofs`:

* `NoDoubleDenial`, `DenialsAreHeard`: true of any sequence of words; that the state is one is all
  that is inductive. The lemmas say what the word before and after a mention does
  (`DeniedBeforeIs`, `DeniedAfterIs`) and that mentions do not overlap (`MentionsAreApart`): of
  two mentions on the same side of a word the nearer one stops the search from the farther, and a
  word on both sides is left to the search backwards, which claims it first (`DenialsAreApart`).
* `VisibleUnconcealed`: inductive with `MarkupInv`, which says that the code's stack is the true
  stack from its outermost concealed element inwards, for as long as tags are nested.
* `ItemsIndependent`: `ItemsInv` says that `blocks` holds the outcome of each finished item and
  `fields` and `conflicts` are exactly the values and the disputed fields of the lines since the
  last start; then `reject_conflicts` is compared with the distinct sound items.
* `AnswersClaim`: through everything that is saved, sent or deleted meanwhile, `matches` holds
  drafts with that one intent.
* `ReceiptUndisputed`: as long as nothing left the mailbox and nothing was raised, the listing has
  grown at its new end only (`Grown`), everything that was there is listed or still to come
  (`Covered`) and no draft was taken twice (`ListedOnce`).

`StoreProofs`, from `StoreAssumption` (files have distinct names within a release):

* `StoreTypes`; `StartedMigrated` and `MigratesWhole` rest on `WorkInv`: `schema` is exactly the
  statements of `ledger`, names in `ledger` are unique, and an open transaction is `Underway`,
  that is, holds the committed record, the files before `at` and the first `done` statements of
  the one it is at. The lemmas `UnderwayBegin` to `UnderwayEnd` follow a transaction through the
  loop as pure facts about sequences; `CommitMigrates` says that its commit is a step of
  `SchemaPromise`, and every other step is a stutter.
* `StartsArePatient`: what a waiter waits for is paid for. `Held` counts the starts that have had
  or forgone their reservation and the statements executed; time passes at most once for each, so
  a waiter with work pending has waited no longer than `Held` (`Patient`). `Held` never falls
  because no statement is executed twice: one that is committed is skipped, and a transaction that
  is refused has executed none (`RefusesUntouched`). The theorem has two hypotheses. `Appended`:
  no release puts a migration before one that another release has without it, as their numbered
  names intend; otherwise a refused transaction may have done work in vain. `Ample`: the startup
  budget is at least the statements of a release and one unit for each start. Both are what "the
  startup budget outlasts it" means; the instance `MCStore` checks meets them exactly, with three
  statements, three starts and a budget of six.

Only model-checked: `AttemptSettles`, `StartSettles` and `ImportEnds`, because liveness under
fairness is out of the prover's reach. The properties of the runs that end in a violation are
false of the code and have no theorem.

Induction over data is out of reach too, and two forms stand in for it: a loop that is a state
machine here (`extract()`, the HTML parser, the pages of a listing) has an invariant of its steps,
and a loop inside one step (`Extend`, the search for a denial) is reasoned about by the least
index at which it would fail.

## 5. Abstractions and what is left out

* A message says at most one content per job; a content stands for everything a review is
  computed from, its draft wording included, so the two digests over them are one fact.
* Extraction items, the source id stored beside a decision, actors, reasons and times are left
  out. No property is about them.
* Rows written before a migration added their columns are left out; each column is compared as
  empty and refuses.
* Receipts are taken to be unique per create request.
* Audit rows are counted, not ordered.

## 6. Not modelled, and why

* `evaluate()`'s score, the grammar of urls and the validation of profiles: arithmetic and string
  rules without state, whose unit tests already say what a property would repeat.
* URL and header validation and the HTTPS transport of both mail clients.
* Lists, filters, the timeline and the evidence of a message: nothing that is sent is made of them.
* HTTP itself, sessions and the launch token, argument parsing, wording, markup and styling.
* `demo.py` and `ops/tools`: they run before or beside the system and share no state with it.

## 7. Plan

1. **The queue as it is read**: `enriched()` reads the summaries first and each row's action
   later; a property of the list it shows, over a page that is read row by row.
2. **An abstract specification of an import**, for one batch: what is stored is a prefix of one
   mailbox's listing, by however many runs; and that `GmailIntake` implements it.
