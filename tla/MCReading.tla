----------------------------- MODULE MCReading ------------------------------
(* The readers of text and of a listing on small alphabets, one of them at work in a behaviour. *)
EXTENDS Extraction, Markup, Location, DraftListing, TLC

readingVars == <<extractionVars, markupVars, words, listingVars>>

\* p and q are two texts, and as urls two spellings of one; "bad" is no url.
Lines ==
  {[field |-> f, value |-> v] : <<f, v>> \in
     {<<"title", "p">>, <<"company", "p">>, <<"company", "q">>, <<"company", "">>,
      <<"url", "p">>, <<"url", "q">>, <<"url", "bad">>, <<"location", "p">>}}

Spelling == [v \in {"", "p", "q", "bad"} |-> v]

Url == [v \in {"", "p", "q", "bad"} |-> IF v \in {"p", "q"} THEN "p" ELSE None]

Words == {"remote", "wfh", "hybrid", "in", "office", "not", "unavailable", "option",
          "available", "usa", "canada"}

\* Two drafts that claim the intent, one of another intent and one that claims two.
Headers == [a |-> <<"k">>, b |-> <<"k">>, c |-> <<None>>, d |-> <<"k", None>>]

Init == ExtractionInit /\ MarkupInit /\ LocationInit /\ ListingInit

Unlisted == drafts = <<>> /\ lookup = Asleep

Next ==
  \/ /\ events = 0 /\ words = <<>> /\ Unlisted
     /\ ExtractionNext /\ UNCHANGED <<markupVars, words, listingVars>>
  \/ /\ lines = <<>> /\ words = <<>> /\ Unlisted
     /\ MarkupNext /\ UNCHANGED <<extractionVars, words, listingVars>>
  \/ /\ lines = <<>> /\ events = 0 /\ Unlisted
     /\ LocationNext /\ UNCHANGED <<extractionVars, markupVars, listingVars>>
  \/ /\ lines = <<>> /\ events = 0 /\ words = <<>>
     /\ ListingNext /\ UNCHANGED <<extractionVars, markupVars, words>>

Spec == Init /\ [][Next]_readingVars
=============================================================================
