------------------------------ MODULE Location ------------------------------
(***************************************************************************)
(* What a location line says: Location.parse() and accepts() in            *)
(* recruiting/location.py, over texts that are said word by word.          *)
(***************************************************************************)
EXTENDS Integers, Sequences, FiniteSets, SequencesExt

CONSTANTS
  Word,     \* the words that may be said, places among them
  MaxWord   \* bound: words of one line

ASSUME LocationAssumption == MaxWord \in Nat

VARIABLE words   \* _tokens() of the line so far

\* Each table with the entries that differ in what is done with them.
WorkModePhrases ==
  {<<"remote", <<"remote">> >>, <<"remote", <<"wfh">> >>, <<"hybrid", <<"hybrid">> >>,
   <<"onsite", <<"onsite">> >>, <<"onsite", <<"in", "office">> >>}
Skippable == {"in", "or", "option", "the"}      \* MODE_QUALIFIERS and CONNECTIVES
Negations == {"not"}
Availability == {"available", "option"}
Denials == {"unavailable"}
RegionAliases == [usa |-> "us"]

WorkMode == {p[1] : p \in WorkModePhrases}

\* The places where a phrase begins.
SaidAt(phrase) ==
  {i \in DOMAIN words : i + Len(phrase) - 1 <= Len(words)
                        /\ SubSeq(words, i, i + Len(phrase) - 1) = phrase}

\* The places where a work mode is spoken of.
Occurrences ==
  UNION {{[mode |-> p[1], first |-> i, last |-> i + Len(p[2]) - 1] : i \in SaidAt(p[2])} :
         p \in WorkModePhrases}

Spoken(occurrences) == UNION {o.first..o.last : o \in occurrences}

\* Where a look from a mode stops: at another mode, or at a word that is no filler.
Stops(others) == {k \in DOMAIN words : k \in others \/ words[k] \notin Skippable}

\* "no option for remote".
DeniedBefore(o, others) ==
  LET stop == Max({0} \cup {k \in Stops(others) : k < o.first}) IN
  {k \in {stop} \cap (DOMAIN words \ others) : words[k] \in Negations}

\* "remote unavailable", or "remote not available" within three words.
DeniedAfter(o, others) ==
  LET stop == Min({Len(words) + 1} \cup {k \in Stops(others) : k > o.last})
      look == {k \in (stop + 1)..(stop + 3) \cap DOMAIN words :
                 k \in others \/ words[k] \in Availability} IN
  IF stop > Len(words) \/ stop \in others THEN {}
  ELSE IF words[stop] \in Denials THEN {stop}
  ELSE IF words[stop] \in Negations /\ look # {} /\ Min(look) \notin others
         THEN {stop, Min(look)}
  ELSE {}

\* Mutant: a negation that denies the mode after it may deny the mode before it as well.
DenialUnclaimed ==
  LET heard == Occurrences
      others == [o \in heard |-> Spoken(heard) \ (o.first..o.last)] IN
  [o \in heard |-> IF DeniedBefore(o, others[o]) # {} THEN DeniedBefore(o, others[o])
                                                     ELSE DeniedAfter(o, others[o])]

\* The words by which each mention is denied.  What denies the mode it precedes denies no
\* other.
Denial ==
  LET heard == Occurrences
      others == [o \in heard |-> Spoken(heard) \ (o.first..o.last)]
      prefix == [o \in heard |-> DeniedBefore(o, others[o])]
      claimed == UNION {prefix[o] : o \in heard} IN
  [o \in heard |->
     IF prefix[o] # {} THEN prefix[o]
     ELSE LET suffix == DeniedAfter(o, others[o]) IN
          IF suffix \cap claimed = {} THEN suffix ELSE {}]

\* Mutant: a mode is offered wherever it is named without a denial.
OfferedAnywhere(denial) == {o.mode : o \in {o \in DOMAIN denial : denial[o] = {}}}

\* A mode that is denied once is not offered, whatever it is called elsewhere.
Offered(denial) ==
  {o.mode : o \in {o \in DOMAIN denial : denial[o] = {}}}
    \ {o.mode : o \in {o \in DOMAIN denial : denial[o] # {}}}

\* The words that spoke of work modes or denied one.
Consumed(denial) == Spoken(DOMAIN denial) \cup UNION {denial[o] : o \in DOMAIN denial}

\* What is left: negations of something else, and words that name places.
Negating(denial) == {k \in DOMAIN words \ Consumed(denial) : words[k] \in Negations}

Places(denial) ==
  {k \in DOMAIN words \ Consumed(denial) : words[k] \notin Skippable \cup Negations}

\* The places that the negation at n is about, up to the next one; 0 stands for none.
PlacesUnder(denial, n) ==
  {k \in Places(denial) : Max({0} \cup {i \in Negating(denial) : i < k}) = n}

\* _region() of the words at these places.
Region(places) ==
  LET order == SetToSortSeq(places, <)
      said == [i \in DOMAIN order |-> words[order[i]]] IN
  IF Len(said) = 1 /\ said[1] \in DOMAIN RegionAliases
    THEN <<RegionAliases[said[1]]>> ELSE said

Parsed(denial) ==
  LET offered == Offered(denial) IN
  [mode |-> IF Cardinality(offered) = 1 THEN CHOOSE m \in offered : TRUE
            ELSE IF offered = {} THEN "unknown" ELSE "ambiguous",
   region |-> Region(PlacesUnder(denial, 0)),
   excluded |-> {Region(PlacesUnder(denial, n)) : n \in Negating(denial)} \ {<<>>}]

\* accepts(), by a configured location that states a work mode.
Accepts(mode, region, job) ==
  /\ job.mode = mode
  /\ region # <<>> => region \notin job.excluded
  /\ region = <<>> \/ job.region \in {<<>>, region}

LocationInit == words = <<>>

LocationNext == \E w \in Word : Len(words) < MaxWord /\ words' = Append(words, w)

LocationSpec == LocationInit /\ [][LocationNext]_words

-----------------------------------------------------------------------------
\* "It cannot then also deny an earlier mode": no word takes part in denying two mentions of
\* a work mode, so one negation never takes away both the mode it is about and another that
\* the line offers.
OneDenialOneMode ==
  LET denial == Denial IN
  \A o, p \in DOMAIN denial : o # p => denial[o] \cap denial[p] = {}

\* A line that says "not" right before a work mode, or "unavailable" right after one, is
\* never read as offering that mode, whatever else it says and however it spells the mode
\* elsewhere.
DeniedIsNotOffered ==
  LET job == Parsed(Denial) IN
  \A o \in Occurrences :
    \/ o.first > 1 /\ words[o.first - 1] \in Negations
    \/ o.last < Len(words) /\ words[o.last + 1] \in Denials
    => job.mode # o.mode

\* accepts(): "A posting that rules out the configured region cannot satisfy it, whatever else
\* it states".
ExcludedNeverAccepted ==
  LET denial == Denial
      job == Parsed(denial) IN
  \A n \in Negating(denial), mode \in WorkMode : \A k \in PlacesUnder(denial, n) :
    ~Accepts(mode, Region({k}), job)
=============================================================================
