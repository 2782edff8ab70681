---------------------------- MODULE DraftListing ----------------------------
(***************************************************************************)
(* How reconciliation looks for a draft: GmailDrafts.lookup() in           *)
(* communications/gmail_draft.py, page by page and draft by draft, over a  *)
(* mailbox whose drafts come and go meanwhile.  Outward takes the lookup   *)
(* as one step.  The mailbox is external: it lists drafts newest first and *)
(* continues a listing by position.                                        *)
(***************************************************************************)
EXTENDS Integers, Sequences, SequencesExt

CONSTANTS
  Draft,          \* the drafts there may be
  Intents,        \* the intent headers of each
  Wanted,         \* the intent key looked for
  Nothing,        \* None: no token, no receipt
  PageSize,       \* MAX_DRAFTS
  MaxDraftPages   \* MAX_DRAFT_PAGES

ASSUME DraftListingAssumption ==
  /\ DOMAIN Intents = Draft /\ \A d \in Draft : Intents[d] \in Seq({Wanted, Nothing})
  /\ Wanted # Nothing /\ Nothing \notin Draft \cup Nat
  /\ PageSize \in Nat \ {0} /\ MaxDraftPages \in Nat \ {0}

VARIABLES
  drafts,     \* the mailbox
  before,     \* what it held when the lookup began
  discarded,  \* what was sent or deleted since
  lookup      \* the lookup's locals and how it ended

listingVars == <<drafts, before, discarded, lookup>>

Asleep ==
  [at |-> "asleep", token |-> Nothing, pages |-> 0, entries |-> <<>>, matches |-> <<>>,
   answer |-> Nothing]

Save(d) ==
  /\ d \notin ToSet(drafts) \cup discarded
  /\ lookup.at # "over"
  /\ drafts' = <<d>> \o drafts
  /\ UNCHANGED <<before, discarded, lookup>>

Discard(d) ==
  /\ lookup.at \in {"listing", "comparing"}
  /\ \E k \in DOMAIN drafts : drafts[k] = d /\ drafts' = RemoveAt(drafts, k)
  /\ discarded' = discarded \cup {d}
  /\ UNCHANGED <<before, lookup>>

Begin ==
  /\ lookup = Asleep
  /\ lookup' = [lookup EXCEPT !.at = "listing"]
  /\ before' = drafts
  /\ UNCHANGED <<drafts, discarded>>

\* A page has at most PageSize entries, perhaps none, and a token as long as there are more.
List ==
  /\ lookup.at = "listing"
  /\ LET from == IF lookup.token = Nothing THEN 0 ELSE lookup.token IN
     \E upto \in from..(from + PageSize) :
       lookup' = [lookup EXCEPT !.at = "comparing", !.pages = @ + 1,
                    !.entries = SubSeq(drafts, from + 1, IF upto < Len(drafts) THEN upto
                                                                            ELSE Len(drafts)),
                    !.token = IF upto < Len(drafts) THEN upto ELSE Nothing]
  /\ UNCHANGED <<drafts, before, discarded>>

\* A draft with two intent headers is not evidence of anything.
MetadataIntent(d) == IF Len(Intents[d]) = 1 THEN Intents[d][1] ELSE Nothing

\* The next entry's header is a request of its own.
Compare ==
  /\ lookup.at = "comparing" /\ lookup.entries # <<>>
  /\ LET d == Head(lookup.entries) IN
     /\ d \in ToSet(drafts)
     /\ lookup' = [lookup EXCEPT !.entries = Tail(@),
                     !.matches = IF MetadataIntent(d) = Wanted THEN Append(@, d) ELSE @]
  /\ UNCHANGED <<drafts, before, discarded>>

\* Mutant: what was found within the page budget is the answer.
AnswerPartial == IF Len(lookup.matches) = 1 THEN lookup.matches[1] ELSE Nothing

\* A receipt needs a listing read to its end and exactly one entry that claims the intent.
Answer ==
  IF lookup.token = Nothing /\ Len(lookup.matches) = 1 THEN lookup.matches[1] ELSE Nothing

\* The page is compared: another one, or the answer.
Turn ==
  /\ lookup.at = "comparing" /\ lookup.entries = <<>>
  /\ IF lookup.token # Nothing /\ lookup.pages < MaxDraftPages
       THEN lookup' = [lookup EXCEPT !.at = "listing"]
       ELSE lookup' = [lookup EXCEPT !.at = "over", !.answer = Answer]
  /\ UNCHANGED <<drafts, before, discarded>>

\* A request fails, or the draft it is about is gone.
Fail ==
  /\ lookup.at \in {"listing", "comparing"}
  /\ lookup' = [lookup EXCEPT !.at = "raised"]
  /\ UNCHANGED <<drafts, before, discarded>>

ListingInit == drafts = <<>> /\ before = <<>> /\ discarded = {} /\ lookup = Asleep

ListingNext ==
  \/ \E d \in Draft : Save(d) \/ Discard(d)
  \/ Begin \/ List \/ Compare \/ Turn \/ Fail

ListingSpec == ListingInit /\ [][ListingNext]_listingVars

-----------------------------------------------------------------------------
Claimants == {d \in ToSet(before) : Intents[d] = <<Wanted>>}

\* "A receipt only when the whole listing was read and exactly one draft in it claims this
\* intent": as long as no draft leaves the mailbox during the lookup, whatever is added to it
\* between two pages, a receipt names a draft that no other draft that was there disputes.  In
\* a mailbox that did not change at all, a listing read to its end finds the only claimant.
ReceiptIsUndisputed ==
  lookup.at = "over" =>
    /\ lookup.answer # Nothing /\ discarded = {} => Claimants \subseteq {lookup.answer}
    /\ drafts = before /\ discarded = {} /\ lookup.token = Nothing =>
         \A d \in Claimants : Claimants = {d} => lookup.answer = d
=============================================================================
