---------------------------- MODULE GmailIntake -----------------------------
(***************************************************************************)
(* Imports of a mailbox: system/intake.py, the reader of                   *)
(* communications/gmail.py and Intake of system/workflow.py.  A run proves *)
(* whose mailbox its credential reads, lists it page by page while mail    *)
(* arrives, fetches every message it found, and only then stores them, each*)
(* in a transaction of its own.  Runs of one launch share one reader; local*)
(* files are imported meanwhile.                                           *)
(***************************************************************************)
EXTENDS Ledger, SequencesExt

CONSTANTS
  Run,       \* invocations of ingest_gmail()
  Mail,      \* messages that may arrive in the mailbox
  Carries,   \* message -> what Intake makes of it
  Flaw,      \* message -> what is wrong with its bytes
  Local,     \* files that may be imported: pairs of the id they claim and what they say
  Limit,     \* how many messages the operator asks for
  PageSize,  \* MAX_RESULTS
  MaxPages   \* MAX_PAGES

\* Bytes from_bytes() refuses cannot be read; HTML whose hidden part is never closed can be,
\* and is refused when its content is asked for.
Flaws == {"none", "undecodable", "unterminated"}

ASSUME IntakeAssumption ==
  /\ Mail \subseteq MessageId
  /\ Carries \in [Mail -> {p \in Payload : p.sender # None}]
  /\ Flaw \in [Mail -> Flaws]
  /\ Local \subseteq MessageId \X {p \in Payload : p.sender # None}
  /\ Limit \in Nat \ {0} /\ PageSize \in Nat \ {0} /\ MaxPages \in Nat \ {0}

VARIABLES
  mailbox,   \* external: what the credential's mailbox offers, newest first
  owner,     \* external: whether that is the mailbox the operator declared
  verified,  \* _identity_verified, of the reader that all runs share
  run        \* run -> where it is, and its locals

intakeVars == <<mailbox, owner, verified, run>>
vars == <<ledgerVars, intakeVars>>

Stages ==
  {"idle", "identity", "listing", "fetching", "storing", "reported", "unreadable", "rejected",
   "raised"}

Over == {"reported", "unreadable", "rejected", "raised"}

Unstarted ==
  [stage |-> "idle", begin |-> 0, found |-> <<>>, offset |-> 0, pages |-> 0, fetched |-> 0,
   records |-> <<>>]

\* One entry of a report.
Entry == [message : MessageId, reviews : SUBSET Review]

At(i, stage) == run[i].stage = stage

Become(i, local) == run' = [run EXCEPT ![i] = local]

\* What is left of a run that ends: what it stored.
Ending(i, stage) == [Unstarted EXCEPT !.stage = stage, !.records = run[i].records]

-----------------------------------------------------------------------------
(* The read phase: whatever fails in it is SourceUnreadable. *)

Start(i) ==
  /\ At(i, "idle")
  /\ Become(i, [run[i] EXCEPT !.stage = "identity"])
  /\ UNCHANGED <<ledgerVars, mailbox, owner, verified>>

\* Mutant: a failed read is tried again from the start, as often as it fails.
UnreadableRetries(i) ==
  /\ run[i].stage \in {"identity", "listing", "fetching"}
  /\ Become(i, Ending(i, "identity"))
  /\ UNCHANGED <<ledgerVars, mailbox, owner, verified>>

Unreadable(i) ==
  /\ run[i].stage \in {"identity", "listing", "fetching"}
  /\ Become(i, Ending(i, "unreadable"))
  /\ UNCHANGED <<ledgerVars, mailbox, owner, verified>>

\* Mutant: an identity counts as verified before it is compared.
IdentifyEarly(i) ==
  /\ At(i, "identity")
  /\ verified' = TRUE
  /\ Become(i, IF verified \/ owner = "declared"
                 THEN [run[i] EXCEPT !.stage = "listing", !.begin = Len(mailbox)]
                 ELSE Ending(i, "unreadable"))
  /\ UNCHANGED <<ledgerVars, mailbox, owner>>

\* verify_identity(): one profile read for all the runs of a launch.
Identify(i) ==
  /\ At(i, "identity")
  /\ verified' = (verified \/ owner = "declared")
  /\ Become(i, IF verified'
                 THEN [run[i] EXCEPT !.stage = "listing", !.begin = Len(mailbox)]
                 ELSE Ending(i, "unreadable"))
  /\ UNCHANGED <<ledgerVars, mailbox, owner>>

\* Mutant: a message seen again counts toward the limit again.
ExtendRepeats(found, page) == SubSeq(found \o page, 1, IF Len(found \o page) > Limit
                                                        THEN Limit ELSE Len(found \o page))

\* The new identifiers of a page, in its order, until the limit is reached.
Extend(found, page) ==
  LET known[k \in 0..Len(page)] ==
        IF k = 0 THEN found
        ELSE IF page[k] \in ToSet(known[k - 1]) \/ Len(known[k - 1]) = Limit THEN known[k - 1]
        ELSE Append(known[k - 1], page[k])
  IN  known[Len(page)]

\* Mutant: the walk goes on for as long as there is a token.
WalksOn(local) == Len(local.found) < Limit

\* The condition of the paging loop.
Walks(local) == Len(local.found) < Limit /\ local.pages < MaxPages

\* One page: at most as many entries as asked for, and perhaps none, with a token as long as
\* there is more.  A token is a position, so mail that arrives is offered again, not skipped.
List(i) ==
  /\ At(i, "listing")
  /\ Walks(run[i])
  /\ \E size \in 0..PageSize :
       LET offset == run[i].offset + size
           page == SubSeq(mailbox, run[i].offset + 1, offset)
           next == [run[i] EXCEPT !.found = Extend(@, page), !.offset = offset,
                                  !.pages = @ + 1]
       IN  /\ size <= Limit - Len(run[i].found) /\ offset <= Len(mailbox)
           /\ Become(i, [next EXCEPT !.stage =
                IF Walks(next) /\ offset < Len(mailbox) THEN "listing" ELSE "fetching"])
  /\ UNCHANGED <<ledgerVars, mailbox, owner, verified>>

-----------------------------------------------------------------------------
(* intake_message(). *)

Provenance(m) == {r \in Review : m \in ToSet(sources[r])}

\* The reviews a message is stored under when it is new.
Stored(p) == {<<j, NewestAfter(j, p)>> : j \in Named(p)}

\* Mutant: a replay answers with the reviews that are current now.
AnsweredCurrent(m, p) ==
  IF m \in DOMAIN messages THEN {<<j, Len(content[j])>> : j \in Named(p)} ELSE Stored(p)

\* What ingest() answers.
Answered(m, p) == IF m \in DOMAIN messages THEN Provenance(m) ELSE Stored(p)

\* ingest(): a message is stored once, and an id that is known must say the same again.
Admit(m, p) ==
  \/ Ingest(m, p)
  \/ m \in DOMAIN messages /\ messages[m] = p /\ UNCHANGED ledgerVars

Due(i) == run[i].found[run[i].fetched + 1]

\* Mutant: each message is stored as it is fetched.
FetchStores(i) ==
  /\ At(i, "fetching")
  /\ IF run[i].fetched = Len(run[i].found)
       THEN Become(i, [run[i] EXCEPT !.stage = "storing"]) /\ UNCHANGED ledgerVars
       ELSE /\ Flaw[Due(i)] = "none"
            /\ Admit(Due(i), Carries[Due(i)])
            /\ Become(i, [run[i] EXCEPT !.fetched = @ + 1, !.records = Append(@,
                 [message |-> Due(i), reviews |-> Answered(Due(i), Carries[Due(i)])])])
  /\ UNCHANGED <<mailbox, owner, verified>>

\* fetch() of the next message, and from_bytes(); what it refuses leaves only Unreadable.
Fetch(i) ==
  /\ At(i, "fetching")
  /\ IF run[i].fetched = Len(run[i].found)
       THEN Become(i, [run[i] EXCEPT !.stage = "storing"])
       ELSE /\ Flaw[Due(i)] # "undecodable"
            /\ Become(i, [run[i] EXCEPT !.fetched = @ + 1])
  /\ UNCHANGED <<ledgerVars, mailbox, owner, verified>>

\* The message the list of records is at.
Here(i) == run[i].found[Len(run[i].records) + 1]

Store(i) ==
  /\ At(i, "storing")
  /\ Len(run[i].records) < Len(run[i].found)
  /\ Flaw[Here(i)] = "none"
  /\ Admit(Here(i), Carries[Here(i)])
  /\ Become(i, [run[i] EXCEPT !.records = Append(@,
       [message |-> Here(i), reviews |-> Answered(Here(i), Carries[Here(i)])])])
  /\ UNCHANGED <<mailbox, owner, verified>>

Report(i) ==
  /\ At(i, "storing")
  /\ Len(run[i].records) = Len(run[i].found)
  /\ Become(i, Ending(i, "reported"))
  /\ UNCHANGED <<ledgerVars, mailbox, owner, verified>>

\* A ValueError: the content is unusable, or the id is known and said something else.  The
\* records made so far are lost with it, and their messages stay stored.
Decline(i) ==
  /\ At(i, "storing")
  /\ Len(run[i].records) < Len(run[i].found)
  /\ \/ Flaw[Here(i)] # "none"
     \/ Here(i) \in DOMAIN messages /\ messages[Here(i)] # Carries[Here(i)]
  /\ Become(i, Ending(i, "rejected"))
  /\ UNCHANGED <<ledgerVars, mailbox, owner, verified>>

\* The database refuses: no reservation within the busy timeout, or no read of diagnostics.
Raise(i) ==
  /\ At(i, "storing")
  /\ Become(i, Ending(i, "raised"))
  /\ UNCHANGED <<ledgerVars, mailbox, owner, verified>>

-----------------------------------------------------------------------------
(* Everyone else. *)

\* External: mail arrives.
Deliver(m) ==
  /\ m \notin ToSet(mailbox)
  /\ mailbox' = <<m>> \o mailbox
  /\ UNCHANGED <<ledgerVars, owner, verified, run>>

\* ingest_eml(), under an id its file and the operator's namespace claim.
ImportFile(m, p) ==
  /\ <<m, p>> \in Local
  /\ Ingest(m, p)
  /\ UNCHANGED intakeVars

Init ==
  /\ LedgerInit
  /\ mailbox = <<>> /\ owner \in {"declared", "other"} /\ verified = FALSE
  /\ run = [i \in Run |-> Unstarted]

Step(i) ==
  Unreadable(i) \/ Identify(i) \/ List(i) \/ Fetch(i) \/ Store(i) \/ Report(i)
  \/ Decline(i) \/ Raise(i)

Next ==
  \/ \E i \in Run : Start(i) \/ Step(i)
  \/ \E m \in Mail : Deliver(m)
  \/ \E m \in MessageId, p \in Payload : ImportFile(m, p)

Spec == Init /\ [][Next]_vars

\* A run that was started goes on.
FairSpec == Spec /\ \A i \in Run : WF_vars(Step(i))

-----------------------------------------------------------------------------
\* Runs have their types; what is fetched and stored follows what was found.
IntakeTypeOK ==
  /\ mailbox \in Seq(Mail) /\ owner \in {"declared", "other"} /\ verified \in BOOLEAN
  /\ run \in [Run -> [stage : Stages, begin : Nat, found : Seq(Mail), offset : Nat,
                      pages : 0..MaxPages, fetched : Nat, records : Seq(Entry)]]
  /\ \A i \in Run :
       /\ run[i].fetched <= Len(run[i].found) /\ Len(run[i].found) <= Limit
       /\ run[i].stage = "storing" => Len(run[i].records) <= run[i].fetched

\* Nothing of a mailbox the operator did not declare is ever read or stored, by this run or a
\* later one of the same reader, which asks whose mailbox it is only once.
OwnMailboxOnly ==
  owner = "other" => \A i \in Run : run[i].found = <<>> /\ run[i].records = <<>>

\* A run whose mailbox could not be read, at whatever message, has stored nothing.
UnreadableStoresNothing ==
  \A i \in Run : At(i, "unreadable") => run[i].records = <<>>

\* The batch of a run that found less than it was asked for holds everything that was there
\* when it began, unless the page bound ended the walk: mail that arrives between two pages
\* shifts them, and a message offered again must not cost another its place.
BatchComplete ==
  \A i \in Run : LET batch == ToSet(run[i].found) IN
    run[i].stage \in {"fetching", "storing"} =>
      \/ Cardinality(batch) = Limit
      \/ run[i].pages = MaxPages
      \/ \A k \in 1..run[i].begin : mailbox[Len(mailbox) + 1 - k] \in batch

\* Whatever other runs and files stored first, meanwhile or since, each entry of a report
\* names the reviews its message is the source of, and the record holds what was read.
ReportsAgree ==
  \A i \in Run : \A k \in DOMAIN run[i].records :
    LET entry == run[i].records[k] IN
      /\ entry.message \in DOMAIN messages
      /\ messages[entry.message] = Carries[entry.message]
      /\ entry.reviews = Provenance(entry.message)

\* Every run that is started ends, however the mailbox answers.
ImportEnds == \A i \in Run : At(i, "identity") ~> run[i].stage \in Over

-----------------------------------------------------------------------------
\* app.js, importGmail(): "The batch is read whole by the server before anything is written,
\* so a failure here means nothing from that attempt was stored."
FailureStoresNothing ==
  \A i \in Run : run[i].stage \in {"unreadable", "rejected"} => run[i].records = <<>>
=============================================================================
