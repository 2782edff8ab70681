---------------------------- MODULE ReadingProofs ----------------------------
(***************************************************************************)
(* Proofs about the readers of text and of a listing: Location, Markup,    *)
(* Extraction and DraftListing, each a behavior of its own.                *)
(***************************************************************************)
EXTENDS Extraction, Markup, Location, DraftListing, FiniteSetTheorems, TLAPS

-----------------------------------------------------------------------------
(* Natural numbers. *)

\* Of natural numbers there is a least one.
LEMMA Least ==
  ASSUME NEW S, S \subseteq Nat, S # {}
  PROVE  \E m \in S : \A k \in S : m <= k
<1> DEFINE Smaller == {p \in Nat \X Nat : p[1] < p[2]}
<1>1. IsWellFoundedOn(Smaller, Nat)
  BY NatLessThanWellFounded DEF OpToRel
<1> HIDE DEF Smaller
<1>2. PICK x \in S : \A y \in S : ~ (<<y, x>> \in Smaller)
  BY <1>1, WFMin
<1>3. ASSUME NEW y \in S, y < x PROVE FALSE
  <2>1. x \in Nat /\ y \in Nat
    OBVIOUS
  <2>2. <<y, x>> \in Smaller
    BY <2>1, <1>3 DEF Smaller
  <2> QED
    BY <2>2, <1>2
<1>4. \A y \in S : x <= y
  BY <1>3
<1> QED
  BY <1>2, <1>4

\* Min() of the community modules is it.
LEMMA MinIsLeast ==
  ASSUME NEW S, S \subseteq Nat, S # {}
  PROVE  Min(S) \in S /\ \A k \in S : Min(S) <= k
BY Least DEF Min

\* Max() of a set that has a bound.
LEMMA MaxIsGreatest ==
  ASSUME NEW S, S \subseteq Nat, S # {}, NEW n \in Nat, \A k \in S : k <= n
  PROVE  Max(S) \in S /\ \A k \in S : Max(S) >= k
<1> DEFINE B == {b \in Nat : \A k \in S : k <= b}
<1>1. PICK m \in B : \A b \in B : m <= b
  <2>1. B \subseteq Nat /\ n \in B
    OBVIOUS
  <2> QED BY <2>1, Least
<1>2. ASSUME m \notin S PROVE FALSE
  <2>1. PICK k \in S : TRUE
    OBVIOUS
  <2>2. k \in Nat /\ m \in Nat /\ k <= m /\ k # m
    BY <1>1, <1>2, <2>1
  <2>3. m - 1 \in Nat /\ m - 1 < m
    BY <2>2
  <2>4. \A i \in S : i <= m - 1
    BY <1>1, <1>2, <2>2
  <2>5. m - 1 \in B
    BY <2>3, <2>4
  <2> QED BY <1>1, <2>3, <2>5
<1>3. \E x \in S : \A k \in S : x >= k
  BY <1>1, <1>2
<1> QED
  BY <1>3 DEF Max

-----------------------------------------------------------------------------
(* Location: what denies a mention of a work mode is its own. *)

ModeWords == {"remote", "wfh", "hybrid", "onsite", "in", "office"}

\* The mode that a phrase which begins with w speaks of.
ModeOf(w) ==
  IF w \in {"remote", "wfh"} THEN "remote" ELSE IF w = "hybrid" THEN "hybrid" ELSE "onsite"

\* A mention is determined by the word it begins with.
LEMMA OccurrenceIs ==
  ASSUME words \in Seq(Word), NEW o \in Occurrences
  PROVE  /\ o = [mode |-> ModeOf(words[o.first]), first |-> o.first,
                 last |-> IF words[o.first] = "in" THEN o.first + 1 ELSE o.first]
         /\ o.first \in 1..Len(words) /\ o.last \in o.first..Len(words)
         /\ words[o.first] \in ModeWords \ {"office"}
         /\ o.last # o.first => words[o.last] = "office"
         /\ o.mode \in {"remote", "hybrid", "onsite"}
<1>1. PICK p \in WorkModePhrases, i \in DOMAIN words :
         /\ o = [mode |-> p[1], first |-> i, last |-> i + Len(p[2]) - 1]
         /\ i + Len(p[2]) - 1 <= Len(words)
         /\ SubSeq(words, i, i + Len(p[2]) - 1) = p[2]
  BY DEF Occurrences, SaidAt
<1>2. i \in 1..Len(words) /\ Len(words) \in Nat
  OBVIOUS
<1>3. ASSUME NEW m, NEW w, p = <<m, <<w>> >>
      PROVE  o = [mode |-> m, first |-> i, last |-> i] /\ words[i] = w
  <2>1. Len(p[2]) = 1 /\ p[1] = m /\ p[2] = <<w>>
    BY <1>3
  <2>2. i + Len(p[2]) - 1 = i
    BY <1>2, <2>1
  <2>3. SubSeq(words, i, i)[1] = words[i]
    BY <1>2
  <2>4. SubSeq(words, i, i) = <<w>>
    BY <1>1, <2>1, <2>2
  <2>5. o = [mode |-> m, first |-> i, last |-> i]
    BY <1>1, <2>1, <2>2
  <2>6. words[i] = w
    <3>1. <<w>>[1] = w
      OBVIOUS
    <3> QED BY <2>3, <2>4, <3>1
  <2> QED BY <2>5, <2>6
<1>4. ASSUME NEW m, NEW w, NEW v, p = <<m, <<w, v>> >>
      PROVE  /\ o = [mode |-> m, first |-> i, last |-> i + 1] /\ i + 1 <= Len(words)
             /\ words[i] = w /\ words[i + 1] = v
  <2>1. Len(p[2]) = 2 /\ p[1] = m /\ p[2] = <<w, v>>
    BY <1>4
  <2>2. i + Len(p[2]) - 1 = i + 1
    BY <1>2, <2>1
  <2>3. i + 1 <= Len(words)
    BY <1>1, <2>2
  <2>4. SubSeq(words, i, i + 1)[1] = words[i] /\ SubSeq(words, i, i + 1)[2] = words[i + 1]
    BY <1>2, <2>3
  <2>5. SubSeq(words, i, i + 1) = <<w, v>>
    BY <1>1, <2>1, <2>2
  <2>6. o = [mode |-> m, first |-> i, last |-> i + 1]
    BY <1>1, <2>1, <2>2
  <2>7. words[i] = w /\ words[i + 1] = v
    <3>1. <<w, v>>[1] = w /\ <<w, v>>[2] = v
      OBVIOUS
    <3> QED BY <2>4, <2>5, <3>1
  <2> QED BY <2>3, <2>6, <2>7
<1>5. CASE p = <<"remote", <<"remote">> >>
  BY <1>2, <1>3, <1>5 DEF ModeOf, ModeWords
<1>6. CASE p = <<"remote", <<"wfh">> >>
  BY <1>2, <1>3, <1>6 DEF ModeOf, ModeWords
<1>7. CASE p = <<"hybrid", <<"hybrid">> >>
  BY <1>2, <1>3, <1>7 DEF ModeOf, ModeWords
<1>8. CASE p = <<"onsite", <<"onsite">> >>
  BY <1>2, <1>3, <1>8 DEF ModeOf, ModeWords
<1>9. CASE p = <<"onsite", <<"in", "office">> >>
  BY <1>2, <1>4, <1>9 DEF ModeOf, ModeWords
<1> QED
  BY <1>1, <1>5, <1>6, <1>7, <1>8, <1>9 DEF WorkModePhrases

\* Two mentions of work modes share no word.
LEMMA MentionsAreApart ==
  ASSUME words \in Seq(Word), NEW o \in Occurrences, NEW p \in Occurrences, o # p
  PROVE  o.last < p.first \/ p.last < o.first
<1>1. o.first # p.first
  <2>1. o = [mode |-> ModeOf(words[o.first]), first |-> o.first,
             last |-> IF words[o.first] = "in" THEN o.first + 1 ELSE o.first]
    BY OccurrenceIs
  <2>2. p = [mode |-> ModeOf(words[p.first]), first |-> p.first,
             last |-> IF words[p.first] = "in" THEN p.first + 1 ELSE p.first]
    BY OccurrenceIs
  <2> QED BY <2>1, <2>2
<1>2. /\ o.first \in Nat /\ o.last \in {o.first, o.first + 1}
      /\ words[o.first] # "office"
      /\ o.last # o.first => words[o.last] = "office"
  BY OccurrenceIs
<1>3. /\ p.first \in Nat /\ p.last \in {p.first, p.first + 1}
      /\ words[p.first] # "office"
      /\ p.last # p.first => words[p.last] = "office"
  BY OccurrenceIs
<1> QED BY <1>1, <1>2, <1>3

\* The words that mention other modes.
Others(o) == Spoken(Occurrences) \ (o.first..o.last)

\* Every other mention begins at one of them, and each is a word of a phrase.
LEMMA OthersAre ==
  ASSUME words \in Seq(Word), NEW o \in Occurrences
  PROVE  /\ \A p \in Occurrences : p # o => p.first \in Others(o)
         /\ \A k \in Others(o) : k \in DOMAIN words /\ words[k] \in ModeWords
<1>1. ASSUME NEW p \in Occurrences, p # o PROVE p.first \in Others(o)
  <2>1. p.first \in p.first..p.last /\ o.first \in Nat /\ o.last \in Nat /\ p.first \in Nat
    BY OccurrenceIs
  <2>2. p.first \in Spoken(Occurrences)
    BY <2>1 DEF Spoken
  <2>3. p.first \notin o.first..o.last
    <3>1. o.last < p.first \/ p.last < o.first
      BY <1>1, MentionsAreApart
    <3>2. p.last >= p.first /\ p.last \in Nat
      BY OccurrenceIs
    <3> QED BY <2>1, <3>1, <3>2
  <2> QED BY <2>2, <2>3 DEF Others
<1>2. ASSUME NEW k \in Others(o) PROVE k \in DOMAIN words /\ words[k] \in ModeWords
  <2>1. PICK p \in Occurrences : k \in p.first..p.last
    BY <1>2 DEF Others, Spoken
  <2>2. /\ p.last = IF words[p.first] = "in" THEN p.first + 1 ELSE p.first
        /\ p.first \in 1..Len(words) /\ p.last \in p.first..Len(words)
        /\ words[p.first] \in ModeWords
        /\ p.last # p.first => words[p.last] = "office"
    <3>1. p = [mode |-> ModeOf(words[p.first]), first |-> p.first,
               last |-> IF words[p.first] = "in" THEN p.first + 1 ELSE p.first]
      BY OccurrenceIs
    <3>2. p.last = IF words[p.first] = "in" THEN p.first + 1 ELSE p.first
      BY <3>1
    <3> QED BY <3>2, OccurrenceIs
  <2>3. k = p.first \/ k = p.last
    BY <2>1, <2>2
  <2> QED BY <2>2, <2>3 DEF ModeWords
<1> QED BY <1>1, <1>2

\* What denies a mention before it is the word at which a look back stops.
LEMMA DeniedBeforeIs ==
  ASSUME words \in Seq(Word), NEW o \in Occurrences, NEW k \in DeniedBefore(o, Others(o))
  PROVE  /\ k \in 1..Len(words) /\ k < o.first /\ words[k] = "not" /\ k \notin Others(o)
         /\ \A j \in Stops(Others(o)) : j < o.first => j <= k
<1> DEFINE S == {0} \cup {j \in Stops(Others(o)) : j < o.first}
<1>1. Max(S) \in S /\ \A j \in S : Max(S) >= j
  <2>1. S \subseteq Nat /\ S # {}
    BY DEF Stops
  <2>2. o.first \in Nat /\ \A j \in S : j <= o.first
    BY OccurrenceIs DEF Stops
  <2> QED BY <2>1, <2>2, MaxIsGreatest
<1>2. k = Max(S) /\ k \in DOMAIN words \ Others(o) /\ words[k] \in Negations
  BY DEF DeniedBefore
<1> HIDE DEF S
<1>3. k \in S /\ \A j \in S : k >= j
  BY <1>1, <1>2
<1>4. k \in 1..Len(words) /\ words[k] = "not"
  BY <1>2 DEF Negations
<1>5. k < o.first
  BY <1>3, <1>4 DEF S
<1>6. \A j \in Stops(Others(o)) : j < o.first => j <= k
  <2>1. Stops(Others(o)) \subseteq 1..Len(words)
    BY DEF Stops
  <2> QED BY <1>3, <1>4, <2>1 DEF S
<1> QED BY <1>2, <1>4, <1>5, <1>6

\* What denies a mention after it is the word at which a look ahead stops, or that word and
\* the first answer that follows it within three words.
LEMMA DeniedAfterIs ==
  ASSUME words \in Seq(Word), NEW o \in Occurrences, NEW k \in DeniedAfter(o, Others(o))
  PROVE  \E stop \in 1..Len(words) :
           /\ o.last < stop /\ stop \notin Others(o)
           /\ \A j \in Stops(Others(o)) : j > o.last => stop <= j
           /\ \/ k = stop
              \/ /\ k \in stop + 1..stop + 3 /\ k \notin Others(o)
                 /\ \A j \in Others(o) : j \in stop + 1..stop + 3 => k <= j
<1> DEFINE S == {Len(words) + 1} \cup {j \in Stops(Others(o)) : j > o.last}
           stop == Min(S)
           look == {j \in (stop + 1)..(stop + 3) \cap DOMAIN words :
                      j \in Others(o) \/ words[j] \in Availability}
<1>1. stop \in S /\ \A j \in S : stop <= j
  <2>1. S \subseteq Nat /\ S # {}
    BY DEF Stops
  <2> QED BY <2>1, MinIsLeast
<1>2. look # {} => Min(look) \in look /\ \A j \in look : Min(look) <= j
  <2>1. look \subseteq Nat
    OBVIOUS
  <2> QED BY <2>1, MinIsLeast
<1>3. /\ stop <= Len(words) /\ stop \notin Others(o)
      /\ k = stop \/ (look # {} /\ Min(look) \notin Others(o) /\ k = Min(look))
  <2>1. DeniedAfter(o, Others(o)) =
          IF stop > Len(words) \/ stop \in Others(o) THEN {}
          ELSE IF words[stop] \in Denials THEN {stop}
          ELSE IF words[stop] \in Negations /\ look # {} /\ Min(look) \notin Others(o)
                 THEN {stop, Min(look)}
          ELSE {}
    BY Zenon DEF DeniedAfter
  <2>2. stop \in Nat /\ Len(words) \in Nat
    BY <1>1 DEF Stops
  <2> HIDE DEF stop, look
  <2> QED BY <2>1, <2>2
<1>4. Others(o) \subseteq DOMAIN words
  BY OthersAre
<1>5. o.last \in Nat
  BY OccurrenceIs
<1> HIDE DEF look
<1>6. stop \in 1..Len(words) /\ o.last < stop
  <2>1. Stops(Others(o)) \subseteq 1..Len(words)
    BY DEF Stops
  <2>2. stop \in {Len(words) + 1} \cup {j \in Stops(Others(o)) : j > o.last}
    BY <1>1
  <2>3. stop <= Len(words) /\ Len(words) \in Nat
    BY <1>3
  <2> HIDE DEF stop
  <2> QED BY <2>1, <2>2, <2>3
<1>7. \A j \in Stops(Others(o)) : j > o.last => stop <= j
  BY <1>1
<1> HIDE DEF stop
<1>8. CASE k = stop
  BY <1>3, <1>6, <1>7, <1>8
<1>9. CASE look # {} /\ Min(look) \notin Others(o) /\ k = Min(look)
  <2>1. k \in look /\ \A j \in look : k <= j
    BY <1>2, <1>9
  <2>2. k \in stop + 1..stop + 3
    BY <2>1 DEF look
  <2>3. \A j \in Others(o) : j \in stop + 1..stop + 3 => k <= j
    BY <2>1, <1>4 DEF look
  <2> QED BY <1>3, <1>6, <1>7, <1>9, <2>2, <2>3
<1> QED BY <1>3, <1>8, <1>9

\* Denial, with the look back and the look ahead of a mention by themselves.
LEMMA DenialIs ==
  /\ DOMAIN Denial = Occurrences
  /\ \A o \in Occurrences :
       Denial[o] =
         IF DeniedBefore(o, Others(o)) # {} THEN DeniedBefore(o, Others(o))
         ELSE IF DeniedAfter(o, Others(o))
                   \cap UNION {DeniedBefore(p, Others(p)) : p \in Occurrences} = {}
           THEN DeniedAfter(o, Others(o)) ELSE {}
<1> DEFINE others == [o \in Occurrences |-> Spoken(Occurrences) \ (o.first..o.last)]
           prefix == [o \in Occurrences |-> DeniedBefore(o, others[o])]
           claimed == UNION {prefix[o] : o \in Occurrences}
<1>1. \A o \in Occurrences : others[o] = Others(o) /\ prefix[o] = DeniedBefore(o, Others(o))
  BY DEF Others
<1>2. claimed = UNION {DeniedBefore(p, Others(p)) : p \in Occurrences}
  BY <1>1
<1>3. Denial = [o \in Occurrences |->
                  IF prefix[o] # {} THEN prefix[o]
                  ELSE IF DeniedAfter(o, others[o]) \cap claimed = {}
                         THEN DeniedAfter(o, others[o]) ELSE {}]
  BY Zenon DEF Denial
<1> HIDE DEF others, prefix, claimed
<1> QED BY <1>1, <1>2, <1>3

\* No word denies two mentions.  Before both it would have to be before the earlier one, where
\* the look back from the later one does not reach; after both the look ahead from the earlier
\* one stops at the later one; and what denies a mention before it is claimed.
LEMMA DenialsAreApart ==
  ASSUME words \in Seq(Word), NEW o \in Occurrences, NEW p \in Occurrences, o.first < p.first
  PROVE  Denial[o] \cap Denial[p] = {}
<1> SUFFICES ASSUME NEW k \in Denial[o], k \in Denial[p] PROVE FALSE
  OBVIOUS
<1> DEFINE claimed == UNION {DeniedBefore(q, Others(q)) : q \in Occurrences}
<1>1. ASSUME NEW q \in Occurrences, k \in Denial[q]
      PROVE  \/ k \in DeniedBefore(q, Others(q))
             \/ k \in DeniedAfter(q, Others(q)) /\ k \notin claimed
  BY <1>1, DenialIs
<1>2. /\ o.first \in Nat /\ o.last \in Nat /\ p.first \in 1..Len(words) /\ p.last \in Nat
      /\ p.first <= p.last
      /\ words[o.first] \in ModeWords /\ o.first \in 1..Len(words)
  BY OccurrenceIs
<1>3. o.last < p.first
  <2>1. o.last < p.first \/ p.last < o.first
    BY MentionsAreApart, <1>2
  <2> QED BY <1>2, <2>1
<1>4. o.first \in Others(p) /\ p.first \in Others(o)
  BY OthersAre, <1>2
<1>5. o.first \in Stops(Others(p)) /\ p.first \in Stops(Others(o))
  BY <1>2, <1>4 DEF Stops
<1>6. CASE k \in DeniedBefore(o, Others(o)) /\ k \in DeniedBefore(p, Others(p))
  <2>1. k < o.first /\ k \in Nat
    BY <1>6, DeniedBeforeIs
  <2>2. o.first <= k
    BY <1>5, <1>6, DeniedBeforeIs
  <2> QED BY <1>2, <2>1, <2>2
<1>7. CASE k \in DeniedAfter(o, Others(o)) /\ k \in DeniedAfter(p, Others(p))
  <2>1. k \in Nat /\ p.first < k
    <3>1. PICK stop \in 1..Len(words) : p.last < stop /\ (k = stop \/ k \in stop + 1..stop + 3)
      BY <1>7, DeniedAfterIs
    <3> QED BY <1>2, <3>1
  <2>2. PICK stop \in 1..Len(words) :
          /\ stop \notin Others(o)
          /\ \A j \in Stops(Others(o)) : j > o.last => stop <= j
          /\ \/ k = stop
             \/ /\ k \in stop + 1..stop + 3
                /\ \A j \in Others(o) : j \in stop + 1..stop + 3 => k <= j
    BY <1>7, DeniedAfterIs
  <2>3. stop <= p.first /\ stop # p.first
    BY <1>2, <1>3, <1>4, <1>5, <2>2
  <2>4. k \in stop + 1..stop + 3 /\ p.first \in stop + 1..stop + 3
    BY <1>2, <2>1, <2>2, <2>3
  <2> QED BY <1>2, <1>4, <2>1, <2>2, <2>3, <2>4
<1>8. ASSUME NEW q \in Occurrences, k \in DeniedBefore(q, Others(q)) PROVE k \in claimed
  BY <1>8
<1> HIDE DEF claimed
<1> QED BY <1>1, <1>6, <1>7, <1>8

\* The only invariant that is needed: the line is a line.
LEMMA WordsAreSaid == LocationSpec => [](words \in Seq(Word))
<1>1. LocationInit => words \in Seq(Word)
  BY DEF LocationInit
<1>2. words \in Seq(Word) /\ [LocationNext]_words => (words \in Seq(Word))'
  BY DEF LocationNext
<1> QED BY <1>1, <1>2, PTL DEF LocationSpec

\* No word of a line, of any length, takes part in denying two mentions of a work mode
\* (Location.parse() in recruiting/location.py).
THEOREM NoDoubleDenial == LocationSpec => []OneDenialOneMode
<1>1. words \in Seq(Word) => OneDenialOneMode
  <2> SUFFICES ASSUME words \in Seq(Word), NEW o \in Occurrences, NEW p \in Occurrences, o # p
               PROVE  Denial[o] \cap Denial[p] = {}
    BY DenialIs, Zenon DEF OneDenialOneMode
  <2>1. o.first \in Nat /\ p.first \in Nat /\ (o.first < p.first \/ p.first < o.first)
    <3>1. /\ o.first \in Nat /\ p.first \in Nat /\ o.last \in Nat /\ p.last \in Nat
          /\ o.first <= o.last /\ p.first <= p.last
      BY OccurrenceIs
    <3>2. o.last < p.first \/ p.last < o.first
      BY MentionsAreApart
    <3> QED BY <3>1, <3>2
  <2>2. CASE o.first < p.first
    BY <2>2, DenialsAreApart
  <2>3. CASE p.first < o.first
    <3>1. Denial[p] \cap Denial[o] = {}
      BY <2>3, DenialsAreApart
    <3> QED BY <3>1
  <2> QED BY <2>1, <2>2, <2>3
<1> QED BY <1>1, WordsAreSaid, PTL

\* A word that denies is no filler and part of no phrase, so a look stops at it.
LEMMA DenyingWords ==
  /\ \A w \in Negations \cup Denials : w \notin Skippable /\ w \notin ModeWords
  /\ Negations \cap Denials = {}
BY DEF Negations, Denials, Skippable, ModeWords

\* The look back stops at a negation right before the mention.
LEMMA NegationIsHeard ==
  ASSUME words \in Seq(Word), NEW o \in Occurrences,
         o.first > 1, words[o.first - 1] \in Negations
  PROVE  DeniedBefore(o, Others(o)) # {}
<1> DEFINE S == {0} \cup {j \in Stops(Others(o)) : j < o.first}
           k == o.first - 1
<1>1. o.first \in 1..Len(words) /\ k \in 1..Len(words) /\ k < o.first
  BY OccurrenceIs
<1>2. k \notin Others(o)
  BY OthersAre, DenyingWords
<1>3. k \in Stops(Others(o))
  BY <1>1, DenyingWords DEF Stops
<1>4. Max(S) \in S /\ \A j \in S : Max(S) >= j
  <2>1. S \subseteq Nat /\ S # {}
    BY DEF Stops
  <2>2. \A j \in S : j <= o.first
    BY <1>1 DEF Stops
  <2>3. o.first \in Nat
    BY <1>1
  <2> HIDE DEF S
  <2> QED BY <2>1, <2>2, <2>3, MaxIsGreatest
<1>5. Max(S) = k
  <2>1. Max(S) >= k
    BY <1>1, <1>3, <1>4
  <2>2. Max(S) = 0 \/ (Max(S) \in Nat /\ Max(S) < o.first)
    <3>1. \A j \in S : j = 0 \/ (j \in Nat /\ j < o.first)
      BY DEF Stops
    <3> HIDE DEF S
    <3> QED BY <1>4, <3>1
  <2> HIDE DEF S
  <2> QED BY <1>1, <2>1, <2>2
<1>6. k \in DOMAIN words \ Others(o) /\ words[k] \in Negations
  BY <1>1, <1>2
<1> HIDE DEF k
<1>7. k \in DeniedBefore(o, Others(o))
  BY <1>5, <1>6, Zenon DEF DeniedBefore
<1> QED BY <1>7

\* The look ahead stops at a denial right after the mention.
LEMMA DenialIsHeard ==
  ASSUME words \in Seq(Word), NEW o \in Occurrences,
         o.last < Len(words), words[o.last + 1] \in Denials
  PROVE  DeniedAfter(o, Others(o)) = {o.last + 1}
<1> DEFINE S == {Len(words) + 1} \cup {j \in Stops(Others(o)) : j > o.last}
           k == o.last + 1
<1>1. o.last \in 1..Len(words) /\ k \in 1..Len(words) /\ k > o.last
  BY OccurrenceIs
<1>2. k \notin Others(o)
  BY OthersAre, DenyingWords
<1>3. k \in Stops(Others(o))
  BY <1>1, DenyingWords DEF Stops
<1>4. Min(S) \in S /\ \A j \in S : Min(S) <= j
  <2>1. S \subseteq Nat /\ S # {}
    BY DEF Stops
  <2> QED BY <2>1, MinIsLeast
<1>5. Min(S) = k
  <2>1. Min(S) <= k
    BY <1>1, <1>3, <1>4
  <2>2. Min(S) \in Nat /\ Min(S) > o.last
    <3>1. \A j \in S : j \in Nat /\ j > o.last
      BY <1>1 DEF Stops
    <3> HIDE DEF S
    <3> QED BY <1>4, <3>1
  <2> HIDE DEF S
  <2> QED BY <1>1, <2>1, <2>2
<1>6. ~(k > Len(words))
  BY <1>1
<1> HIDE DEF k
<1>7. DeniedAfter(o, Others(o)) = {k}
  BY <1>2, <1>5, <1>6, Zenon DEF DeniedAfter, k
<1> QED BY <1>7 DEF k

\* Whatever a line says, it is not read as offering a mode that it denies in so many words.
THEOREM DenialsAreHeard == LocationSpec => []DeniedIsNotOffered
<1>1. words \in Seq(Word) => DeniedIsNotOffered
  <2> SUFFICES ASSUME words \in Seq(Word), NEW o \in Occurrences,
                      \/ o.first > 1 /\ words[o.first - 1] \in Negations
                      \/ o.last < Len(words) /\ words[o.last + 1] \in Denials
               PROVE  Parsed(Denial).mode # o.mode
    BY Zenon DEF DeniedIsNotOffered
  <2>1. Denial[o] # {}
    <3>1. CASE DeniedBefore(o, Others(o)) # {}
      BY <3>1, DenialIs
    <3>2. CASE DeniedBefore(o, Others(o)) = {}
      <4>1. DeniedAfter(o, Others(o)) = {o.last + 1} /\ words[o.last + 1] \in Denials
        BY <3>2, NegationIsHeard, DenialIsHeard
      <4>2. \A p \in Occurrences : o.last + 1 \notin DeniedBefore(p, Others(p))
        BY <4>1, DenyingWords, DeniedBeforeIs DEF Negations
      <4> DEFINE claimed == UNION {DeniedBefore(p, Others(p)) : p \in Occurrences}
      <4>3. {o.last + 1} \cap claimed = {}
        BY <4>2
      <4> HIDE DEF claimed
      <4>4. Denial[o] = {o.last + 1}
        BY <3>2, <4>1, <4>3, DenialIs DEF claimed
      <4> QED BY <4>4
    <3> QED BY <3>1, <3>2
  <2>2. o.mode \notin Offered(Denial)
    BY <2>1, DenialIs DEF Offered
  <2>3. o.mode \in {"remote", "hybrid", "onsite"}
    BY OccurrenceIs
  <2> DEFINE offered == Offered(Denial)
  <2>4. Parsed(Denial).mode = IF Cardinality(offered) = 1 THEN CHOOSE m \in offered : TRUE
                              ELSE IF offered = {} THEN "unknown" ELSE "ambiguous"
    BY DEF Parsed
  <2> HIDE DEF offered
  <2>5. CASE Cardinality(offered) = 1
    <3>1. offered # {}
      <4>1. Cardinality({}) = 0
        BY FS_EmptySet
      <4>2. offered = {} => Cardinality(offered) = 0
        BY <4>1, Zenon
      <4>3. 1 # 0
        OBVIOUS
      <4> QED BY <2>5, <4>2, <4>3, Zenon
    <3>2. (CHOOSE m \in offered : TRUE) \in offered
      BY <3>1
    <3> QED BY <2>2, <2>4, <2>5, <3>2 DEF offered
  <2>6. CASE Cardinality(offered) # 1
    BY <2>3, <2>4, <2>6
  <2> QED BY <2>5, <2>6
<1> QED BY <1>1, WordsAreSaid, PTL

-----------------------------------------------------------------------------
(***************************************************************************)
(* Markup: while tags are nested, the stack of concealed tags is the tail  *)
(* of the open elements from the outermost concealing one on.  That is the *)
(* inductive invariant; what is visible follows from it.                   *)
(***************************************************************************)

\* All of a sequence but its last element.
LEMMA AllButLast ==
  ASSUME NEW S, NEW s \in Seq(S), s # <<>>
  PROVE  /\ SubSeq(s, 1, Len(s) - 1) \in Seq(S)
         /\ Len(SubSeq(s, 1, Len(s) - 1)) = Len(s) - 1
         /\ \A k \in 1..(Len(s) - 1) : SubSeq(s, 1, Len(s) - 1)[k] = s[k]
<1>1. Len(s) \in Nat /\ Len(s) # 0 /\ DOMAIN s = 1..Len(s) /\ \A k \in 1..Len(s) : s[k] \in S
  OBVIOUS
<1>2. SubSeq(s, 1, Len(s) - 1) = [k \in 1..(Len(s) - 1) |-> s[k]]
  <2>1. \A k \in 1..(Len(s) - 1) : k + 1 - 1 = k
    OBVIOUS
  <2> QED BY <1>1, <2>1, SMTT(30)
<1>3. SubSeq(s, 1, Len(s) - 1) \in Seq(S)
  BY <1>1, <1>2
<1>4. Len(SubSeq(s, 1, Len(s) - 1)) = Len(s) - 1
  BY <1>1, <1>2
<1> QED BY <1>1, <1>2, <1>3, <1>4

\* The first n - 1 elements conceal nothing, the n-th does, and hidden starts there.
TailFrom(n) ==
  /\ n \in 1..Len(open)
  /\ open[n].conceals
  /\ \A k \in 1..(n - 1) : ~open[k].conceals
  /\ Len(hidden) = Len(open) - n + 1
  /\ \A i \in 1..Len(hidden) : hidden[i] = open[n + i - 1].tag

HiddenIsTail ==
  \/ hidden = <<>> /\ \A k \in DOMAIN open : ~open[k].conceals
  \/ \E n \in 1..Len(open) : TailFrom(n)

MarkupInv ==
  /\ open \in Seq(Element)
  /\ nested \in BOOLEAN
  /\ nested => hidden \in Seq(Tag) /\ HiddenIsTail

\* Nothing is open.
LEMMA MarkupStarts == MarkupInit => MarkupInv
BY DEF MarkupInit, MarkupInv, HiddenIsTail

\* A start tag: the element is added to both, to one, or to neither.
LEMMA StartTagKeeps ==
  ASSUME MarkupInv, NEW tag \in Tag, NEW conceals \in BOOLEAN, StartTag(tag, conceals)
  PROVE  MarkupInv'
<1> USE MarkupAssumption
<1>1. CASE tag \in Void
  <2>1. hidden' = hidden /\ open' = open /\ nested' = nested
    BY <1>1 DEF StartTag, Hides
  <2> QED BY <2>1 DEF MarkupInv, HiddenIsTail, TailFrom
<1>2. CASE tag \notin Void
  <2> DEFINE e == [tag |-> tag, conceals |-> tag \in Skip \/ conceals]
  <2>1. e \in Element /\ e.tag = tag /\ (e.conceals <=> (tag \in Skip \/ conceals))
    BY <1>2 DEF Element
  <2>2. open' = Append(open, e) /\ nested' = nested /\ open \in Seq(Element)
    BY <1>2 DEF StartTag, MarkupInv
  <2> SUFFICES ASSUME nested PROVE hidden' \in Seq(Tag) /\ HiddenIsTail'
    BY <2>1, <2>2 DEF MarkupInv
  <2>3. hidden \in Seq(Tag) /\ HiddenIsTail
    BY DEF MarkupInv
  <2>4. hidden' = (IF hidden # <<>> \/ e.conceals THEN Append(hidden, tag) ELSE hidden)
    BY <1>2, <2>1 DEF StartTag, Hides
  <2> HIDE DEF e
  <2>5. hidden' \in Seq(Tag) /\ open' \in Seq(Element)
    BY <2>1, <2>2, <2>3, <2>4
  <2>6. Len(open') = Len(open) + 1 /\ open'[Len(open) + 1] = e
        /\ \A k \in 1..Len(open) : open'[k] = open[k]
    BY <2>1, <2>2
  <2>7. HiddenIsTail'
    <3>1. CASE hidden = <<>> /\ \A k \in DOMAIN open : ~open[k].conceals
      <4>1. CASE e.conceals
        <5>1. hidden' = <<tag>>
          BY <2>3, <2>4, <3>1, <4>1
        <5>2. Len(hidden') = 1 /\ hidden'[1] = tag
          BY <5>1
        <5>3. PICK n : n = Len(open) + 1
          OBVIOUS
        <5>4. n \in 1..Len(open') /\ open'[n].conceals /\ open'[n].tag = tag
          BY <2>1, <2>2, <2>6, <4>1, <5>3
        <5>5. \A k \in 1..(n - 1) : ~open'[k].conceals
          BY <2>2, <2>6, <3>1, <5>3
        <5>6. TailFrom(n)'
          BY <2>2, <2>6, <5>2, <5>3, <5>4, <5>5 DEF TailFrom
        <5> QED BY <5>4, <5>6 DEF HiddenIsTail
      <4>2. CASE ~e.conceals
        <5>1. hidden' = <<>>
          BY <2>4, <3>1, <4>2
        <5>2. \A k \in DOMAIN open' : ~open'[k].conceals
          BY <2>2, <2>5, <2>6, <3>1, <4>2
        <5> QED BY <5>1, <5>2 DEF HiddenIsTail
      <4> QED BY <4>1, <4>2
    <3>2. CASE \E n \in 1..Len(open) : TailFrom(n)
      <4>1. PICK n \in 1..Len(open) : TailFrom(n)
        BY <3>2
      <4>2. hidden # <<>>
        BY <4>1, <2>2, <2>3 DEF TailFrom
      <4>3. hidden' = Append(hidden, tag)
        BY <2>4, <4>2
      <4>4. Len(hidden') = Len(hidden) + 1 /\ hidden'[Len(hidden) + 1] = tag
            /\ \A i \in 1..Len(hidden) : hidden'[i] = hidden[i]
        BY <2>3, <4>3
      <4>5. n \in 1..Len(open') /\ open'[n].conceals /\ \A k \in 1..(n - 1) : ~open'[k].conceals
        BY <2>2, <2>6, <4>1 DEF TailFrom
      <4>6. Len(hidden') = Len(open') - n + 1
        BY <2>2, <2>3, <2>6, <4>1, <4>4 DEF TailFrom
      <4>7. ASSUME NEW i \in 1..Len(hidden') PROVE hidden'[i] = open'[n + i - 1].tag
        <5>1. CASE i \in 1..Len(hidden)
          <6>1. n + i - 1 \in 1..Len(open)
            BY <2>2, <2>3, <4>1, <5>1 DEF TailFrom
          <6> QED BY <2>6, <4>1, <4>4, <5>1, <6>1 DEF TailFrom
        <5>2. CASE i = Len(hidden) + 1
          <6>1. n + i - 1 = Len(open) + 1
            BY <2>2, <2>3, <4>1, <5>2 DEF TailFrom
          <6> QED BY <2>1, <2>6, <4>4, <5>2, <6>1
        <5> QED BY <2>3, <4>4, <5>1, <5>2
      <4>8. TailFrom(n)'
        BY <4>5, <4>6, <4>7 DEF TailFrom
      <4> QED BY <4>5, <4>8 DEF HiddenIsTail
    <3> QED BY <2>3, <3>1, <3>2 DEF HiddenIsTail
  <2> QED BY <2>5, <2>7
<1> QED BY <1>1, <1>2

\* An end tag that closes the innermost element takes the last tag off both.
LEMMA EndTagKeeps ==
  ASSUME MarkupInv, NEW tag \in Tag \ Void, EndTag(tag)
  PROVE  MarkupInv'
<1>1. open \in Seq(Element) /\ nested \in BOOLEAN
  BY DEF MarkupInv
<1>2. CASE open = <<>> \/ open[Len(open)].tag # tag
  BY <1>1, <1>2 DEF EndTag, MarkupInv
<1>3. CASE open # <<>> /\ open[Len(open)].tag = tag
  <2>1. open' = SubSeq(open, 1, Len(open) - 1) /\ nested' = nested
    BY <1>3 DEF EndTag
  <2>2. open' \in Seq(Element) /\ Len(open') = Len(open) - 1
        /\ \A k \in 1..(Len(open) - 1) : open'[k] = open[k]
    BY <1>1, <1>3, <2>1, AllButLast
  <2> SUFFICES ASSUME nested PROVE hidden' \in Seq(Tag) /\ HiddenIsTail'
    BY <1>1, <2>1, <2>2 DEF MarkupInv
  <2>3. hidden \in Seq(Tag) /\ HiddenIsTail
    BY DEF MarkupInv
  <2>4. CASE hidden = <<>> /\ \A k \in DOMAIN open : ~open[k].conceals
    <3>1. hidden' = <<>>
      BY <2>4 DEF EndTag
    <3>2. \A k \in DOMAIN open' : ~open'[k].conceals
      BY <1>1, <1>3, <2>2, <2>4
    <3> QED BY <3>1, <3>2 DEF HiddenIsTail
  <2>5. CASE \E n \in 1..Len(open) : TailFrom(n)
    <3>1. PICK n \in 1..Len(open) : TailFrom(n)
      BY <2>5
    <3>2. Len(hidden) = Len(open) - n + 1 /\ Len(hidden) \in Nat \ {0}
      BY <1>1, <2>3, <3>1 DEF TailFrom
    <3>3. hidden[Len(hidden)] = tag
      <4>1. Len(hidden) \in 1..Len(hidden) /\ n + Len(hidden) - 1 = Len(open)
        BY <1>1, <3>1, <3>2
      <4> QED BY <1>3, <3>1, <4>1 DEF TailFrom
    <3>4. Popped(hidden, tag) = SubSeq(hidden, 1, Len(hidden) - 1)
      <4> DEFINE P(k) == hidden[k] = tag /\ \A i \in DOMAIN hidden : hidden[i] = tag => i <= k
      <4>1. DOMAIN hidden = 1..Len(hidden)
        BY <2>3
      <4>2. Len(hidden) \in DOMAIN hidden /\ P(Len(hidden))
        BY <3>2, <3>3, <4>1
      <4>3. \A k \in DOMAIN hidden : P(k) => k = Len(hidden)
        BY <3>2, <4>1, <4>2
      <4> HIDE DEF P
      <4>4. (CHOOSE k \in DOMAIN hidden : P(k)) = Len(hidden)
        BY <4>2, <4>3
      <4> QED BY <4>4 DEF Popped, P
    <3>5. hidden' = SubSeq(hidden, 1, Len(hidden) - 1)
      <4>1. \E k \in DOMAIN hidden : hidden[k] = tag
        BY <2>3, <3>2, <3>3
      <4> QED BY <3>4, <4>1 DEF EndTag
    <3>6. hidden' \in Seq(Tag) /\ Len(hidden') = Len(hidden) - 1
          /\ \A i \in 1..(Len(hidden) - 1) : hidden'[i] = hidden[i]
      BY <2>3, <3>2, <3>5
    <3>7. CASE n = Len(open)
      <4>1. hidden' = <<>>
        BY <3>2, <3>6, <3>7
      <4>2. \A k \in DOMAIN open' : ~open'[k].conceals
        BY <1>1, <1>3, <2>2, <3>1, <3>7 DEF TailFrom
      <4> QED BY <4>1, <4>2 DEF HiddenIsTail
    <3>8. CASE n # Len(open)
      <4>1. n \in 1..Len(open') /\ open'[n].conceals
        BY <1>1, <1>3, <2>2, <3>1, <3>8 DEF TailFrom
      <4>2. \A k \in 1..(n - 1) : ~open'[k].conceals
        BY <1>1, <1>3, <2>2, <3>1, <3>8 DEF TailFrom
      <4>3. Len(hidden') = Len(open') - n + 1
        BY <1>1, <2>2, <3>1, <3>2, <3>6
      <4>4. ASSUME NEW i \in 1..Len(hidden') PROVE hidden'[i] = open'[n + i - 1].tag
        <5>1. i \in 1..Len(hidden) /\ i \in 1..(Len(hidden) - 1)
              /\ n + i - 1 \in 1..(Len(open) - 1)
          BY <1>1, <3>1, <3>2, <3>6
        <5> QED BY <2>2, <3>1, <3>6, <5>1 DEF TailFrom
      <4>5. TailFrom(n)'
        BY <4>1, <4>2, <4>3, <4>4 DEF TailFrom
      <4> QED BY <3>6, <4>1, <4>5 DEF HiddenIsTail
    <3> QED BY <3>6, <3>7, <3>8
  <2> QED BY <2>3, <2>4, <2>5 DEF HiddenIsTail
<1> QED BY <1>2, <1>3

\* So every event keeps it.
LEMMA MarkupStep ==
  ASSUME MarkupInv, [MarkupNext]_markupVars
  PROVE  MarkupInv'
<1>1. CASE UNCHANGED markupVars
  BY <1>1 DEF markupVars, MarkupInv, HiddenIsTail, TailFrom
<1>2. CASE MarkupNext
  BY <1>2, StartTagKeeps, EndTagKeeps DEF MarkupNext
<1> QED BY <1>1, <1>2

\* The tail of the open elements is empty exactly when none of them conceals.
LEMMA TailDecides == MarkupInv => VisibleIsUnconcealed
<1> SUFFICES ASSUME MarkupInv, nested
             PROVE  Visible <=> \A k \in DOMAIN open : ~open[k].conceals
  BY DEF VisibleIsUnconcealed
<1>1. hidden \in Seq(Tag) /\ open \in Seq(Element) /\ HiddenIsTail
  BY DEF MarkupInv
<1>2. ASSUME NEW n \in 1..Len(open), TailFrom(n)
      PROVE  hidden # <<>> /\ n \in DOMAIN open /\ open[n].conceals
  BY <1>1, <1>2 DEF TailFrom
<1> QED BY <1>1, <1>2 DEF HiddenIsTail, Visible

\* While tags are nested, text is read exactly outside the elements that conceal it, for
\* bodies of any length and depth and any set of tag names.
THEOREM VisibleUnconcealed == MarkupSpec => []VisibleIsUnconcealed
<1>1. MarkupInit => MarkupInv
  BY MarkupStarts
<1>2. MarkupInv /\ [MarkupNext]_markupVars => MarkupInv'
  BY MarkupStep
<1>3. MarkupInv => VisibleIsUnconcealed
  BY TailDecides
<1> QED BY <1>1, <1>2, <1>3, PTL DEF MarkupSpec

-----------------------------------------------------------------------------
(* Extraction: the loop over the lines computes what the whole text says. *)

Reasons == {"conflicting fields", "missing fields", "unusable url", "none"}

Block == [job : Job \cup {None}, reason : Reasons]

\* What an item should become.
Promised(i) == IF Sound(i) THEN JobOf(i) ELSE None

\* The item that is being read, or the first.
Current == Len(blocks) + 1

\* The finished items are what they should become; of the current one each field has the last
\* of its values, and a conflict if there are two.
ItemsInv ==
  /\ lines \in Seq(Line) /\ blocks \in Seq(Block)
  /\ fields = [f \in DOMAIN fields |-> fields[f]]
  /\ conflicts \subseteq DOMAIN fields /\ DOMAIN fields \subseteq Field
  /\ lines = <<>> <=> DOMAIN fields = {}
  /\ Cardinality(Starts) = IF lines = <<>> THEN Len(blocks) ELSE Current
  /\ "title" \in DOMAIN fields <=> \E k \in DOMAIN lines : IsTitle(k)
  /\ \A i \in Nat, f \in Field : IsFiniteSet(ValuesOf(i, f))
  /\ \A f \in Field :
       /\ f \in DOMAIN fields <=> ValuesOf(Current, f) # {}
       /\ f \in DOMAIN fields => fields[f] \in ValuesOf(Current, f)
       /\ f \notin conflicts => \A v \in ValuesOf(Current, f) : v = fields[f]
       /\ f \in conflicts => \E u, v \in ValuesOf(Current, f) : u # v
  /\ \A i \in DOMAIN blocks : blocks[i].job = Promised(i)

\* One more line: it belongs to the item being read, or starts the next one.
LEMMA LineAdded ==
  ASSUME lines \in Seq(Line), NEW line \in Line, lines' = Append(lines, line)
  PROVE  LET starts == \/ lines = <<>>
                       \/ line.field = "title" /\ \E k \in DOMAIN lines : IsTitle(k) IN
         /\ Cardinality(Starts) \in Nat
         /\ Cardinality(Starts') = Cardinality(Starts) + IF starts THEN 1 ELSE 0
         /\ \A k \in DOMAIN lines : /\ ItemOf(k) \in Nat /\ ItemOf(k) <= Cardinality(Starts)
                                    /\ ItemOf(k)' = ItemOf(k)
         /\ ItemOf(Len(lines))' = Cardinality(Starts')
<1> DEFINE starts == lines = <<>> \/ (line.field = "title" /\ \E k \in DOMAIN lines : IsTitle(k))
<1>1. PICK n \in Nat : n = Len(lines)
  OBVIOUS
<1>2. /\ DOMAIN lines = 1..n /\ DOMAIN lines' = 1..n + 1
      /\ \A k \in 1..n : lines'[k] = lines[k]
      /\ lines'[n + 1] = line
      /\ lines = <<>> <=> n = 0
  BY <1>1
<1>3. \A k \in 1..n : IsTitle(k)' <=> IsTitle(k)
  BY <1>2 DEF IsTitle
<1>4. IsTitle(n + 1)' <=> line.field = "title"
  BY <1>2 DEF IsTitle
<1>5. Starts \subseteq 1..n
  BY <1>2 DEF Starts
<1>6. \A k \in 1..n : k \in Starts' <=> k \in Starts
  <2> SUFFICES ASSUME NEW k \in 1..n PROVE k \in Starts' <=> k \in Starts
    OBVIOUS
  <2>1. \A i \in 1..(k - 1) : i \in 1..n
    OBVIOUS
  <2>2. k \in 1..n + 1
    OBVIOUS
  <2> QED BY <1>2, <1>3, <2>1, <2>2 DEF Starts
<1>7. n + 1 \in Starts' <=> starts
  <2>1. n + 1 \in 1..n + 1 /\ 1..(n + 1 - 1) = 1..n
    OBVIOUS
  <2>2. n + 1 = 1 <=> lines = <<>>
    BY <1>2
  <2> QED BY <1>2, <1>3, <1>4, <2>1, <2>2 DEF Starts
<1>8. Starts' = Starts \cup IF starts THEN {n + 1} ELSE {}
  <2>1. Starts' \subseteq 1..n + 1
    BY <1>2 DEF Starts
  <2>2. \A k \in 1..n + 1 : k \in 1..n \/ k = n + 1
    OBVIOUS
  <2> HIDE DEF starts
  <2> QED BY <1>5, <1>6, <1>7, <2>1, <2>2
<1>9. IsFiniteSet(Starts) /\ n + 1 \notin Starts
  <2>1. IsFiniteSet(1..n)
    BY FS_Interval
  <2>2. n + 1 \notin 1..n
    OBVIOUS
  <2> QED BY <1>5, <2>1, <2>2, FS_Subset
<1>10. Cardinality(Starts) \in Nat
  BY <1>9, FS_CardinalityType
<1>11. Cardinality(Starts') = Cardinality(Starts) + IF starts THEN 1 ELSE 0
  <2> HIDE DEF starts
  <2>1. CASE starts
    <3>1. Starts' = Starts \cup {n + 1}
      BY <1>8, <2>1
    <3> QED BY <1>9, <2>1, <3>1, FS_AddElement
  <2>2. CASE ~starts
    BY <1>8, <1>10, <2>2
  <2> QED BY <2>1, <2>2
<1>12. ASSUME NEW k \in 1..n
       PROVE  ItemOf(k) \in Nat /\ ItemOf(k) <= Cardinality(Starts) /\ ItemOf(k)' = ItemOf(k)
  <2>1. {s \in Starts : s <= k} \subseteq Starts
    OBVIOUS
  <2>2. /\ IsFiniteSet({s \in Starts : s <= k})
        /\ Cardinality({s \in Starts : s <= k}) <= Cardinality(Starts)
    BY <1>9, <2>1, FS_Subset
  <2>3. Cardinality({s \in Starts : s <= k}) \in Nat
    BY <2>2, FS_CardinalityType
  <2>4. {s \in Starts' : s <= k} = {s \in Starts : s <= k}
    <3>1. ~(n + 1 <= k)
      OBVIOUS
    <3> HIDE DEF starts
    <3> QED BY <1>8, <3>1
  <2> QED BY <2>2, <2>3, <2>4 DEF ItemOf
<1>13. ItemOf(n + 1)' = Cardinality(Starts')
  <2>1. {s \in Starts' : s <= n + 1} = Starts'
    <3>1. \A s \in Starts' : s <= n + 1
      BY <1>2 DEF Starts
    <3> QED BY <3>1
  <2> QED BY <2>1 DEF ItemOf
<1>14. ItemOf(Len(lines))' = Cardinality(Starts')
  <2>1. Len(lines') = n + 1
    BY <1>1
  <2> QED BY <1>13, <2>1
<1> QED BY <1>2, <1>10, <1>11, <1>12, <1>14

\* The line gives its field a value in its own item, and nothing else changes.
LEMMA ValueAdded ==
  ASSUME lines \in Seq(Line), NEW line \in Line, lines' = Append(lines, line), NEW i, NEW f
  PROVE  ValuesOf(i, f)' = ValuesOf(i, f) \cup
           IF i = Cardinality(Starts') /\ f = line.field THEN {line.value} ELSE {}
<1>1. PICK n \in Nat : n = Len(lines)
  OBVIOUS
<1>2. /\ DOMAIN lines = 1..n /\ DOMAIN lines' = 1..n + 1
      /\ \A k \in 1..n : lines'[k] = lines[k]
      /\ lines'[n + 1] = line
  BY <1>1
<1>3. /\ \A k \in 1..n : ItemOf(k)' = ItemOf(k)
      /\ ItemOf(n + 1)' = Cardinality(Starts')
  <2>1. Len(lines') = n + 1
    BY <1>1
  <2>2. ItemOf(Len(lines))' = Cardinality(Starts')
    BY LineAdded
  <2>3. \A k \in 1..n : ItemOf(k)' = ItemOf(k)
    BY <1>2, LineAdded
  <2> QED BY <2>1, <2>2, <2>3
<1>4. \A k \in 1..n + 1 : k \in 1..n \/ k = n + 1
  OBVIOUS
<1>5. 1..n \subseteq 1..n + 1 /\ n + 1 \in 1..n + 1
  OBVIOUS
<1>6. \A v : v \in ValuesOf(i, f)
               <=> \E k \in 1..n : ItemOf(k) = i /\ lines[k].field = f /\ lines[k].value = v
  BY <1>2 DEF ValuesOf
<1>7. \A v : v \in ValuesOf(i, f)'
               <=> \E k \in 1..n + 1 : ItemOf(k)' = i /\ lines'[k].field = f /\ lines'[k].value = v
  BY <1>2 DEF ValuesOf
<1>8. \A v : v \in ValuesOf(i, f)' <=> \/ v \in ValuesOf(i, f)
                                       \/ /\ i = Cardinality(Starts') /\ f = line.field
                                          /\ v = line.value
  BY <1>2, <1>3, <1>4, <1>5, <1>6, <1>7
<1> QED BY <1>8

\* No line belongs to an item that has not started.
LEMMA NoValueYet ==
  ASSUME lines \in Seq(Line), NEW i \in Nat, i > Cardinality(Starts), NEW f
  PROVE  ValuesOf(i, f) = {}
<1>1. PICK n \in Nat : n = Len(lines) /\ DOMAIN lines = 1..n
  OBVIOUS
<1>2. Starts \subseteq 1..n
  BY <1>1 DEF Starts
<1>3. IsFiniteSet(Starts)
  <2>1. IsFiniteSet(1..n)
    BY FS_Interval
  <2> QED BY <1>2, <2>1, FS_Subset
<1>4. ASSUME NEW k \in 1..n PROVE ItemOf(k) # i
  <2>1. {s \in Starts : s <= k} \subseteq Starts
    OBVIOUS
  <2>2. /\ IsFiniteSet({s \in Starts : s <= k})
        /\ Cardinality({s \in Starts : s <= k}) <= Cardinality(Starts)
    BY <1>3, <2>1, FS_Subset
  <2>3. Cardinality({s \in Starts : s <= k}) \in Nat /\ Cardinality(Starts) \in Nat
    BY <1>3, <2>2, FS_CardinalityType
  <2> QED BY <2>2, <2>3 DEF ItemOf
<1> QED BY <1>1, <1>4 DEF ValuesOf

\* At most one value is no two values.
LEMMA AtMostOne ==
  ASSUME NEW S, IsFiniteSet(S)
  PROVE  Cardinality(S) <= 1 <=> \A u, v \in S : u = v
<1>1. Cardinality(S) \in Nat
  BY FS_CardinalityType
<1>2. ASSUME NEW u \in S, NEW v \in S, u # v PROVE Cardinality(S) >= 2
  <2>1. IsFiniteSet({u}) /\ Cardinality({u}) = 1
    BY FS_Singleton
  <2>2. IsFiniteSet({u} \cup {v}) /\ Cardinality({u} \cup {v}) = 2
    <3>1. v \notin {u}
      BY <1>2
    <3> QED BY <2>1, <3>1, FS_AddElement
  <2>3. {u} \cup {v} \subseteq S
    OBVIOUS
  <2>4. Cardinality({u} \cup {v}) <= Cardinality(S)
    BY <2>3, FS_Subset
  <2> QED BY <1>1, <2>2, <2>4
<1>3. ASSUME \A u, v \in S : u = v PROVE Cardinality(S) <= 1
  <2>1. CASE S = {}
    <3>1. Cardinality(S) = 0
      BY <2>1, FS_EmptySet, Zenon
    <3> QED BY <3>1
  <2>2. CASE S # {}
    <3>1. PICK u \in S : TRUE
      BY <2>2
    <3>2. S = {u}
      BY <1>3, <3>1
    <3>3. Cardinality(S) = 1
      BY <3>2, FS_Singleton
    <3> QED BY <3>3
  <2> QED BY <2>1, <2>2
<1> QED BY <1>1, <1>2, <1>3

\* The value that JobOf takes.
Chosen(S) == CHOOSE v \in S : TRUE

\* JobOf in these words.
LEMMA JobIs ==
  ASSUME NEW i
  PROVE  JobOf(i) = Opportunity([f \in {f \in Field : ValuesOf(i, f) # {}} |->
                                    Chosen(ValuesOf(i, f))])
BY Zenon DEF JobOf, Chosen

\* An item that is as it was is worth what it was.
LEMMA PromiseKeptFor ==
  ASSUME NEW i, \A f \in Field : ValuesOf(i, f)' = ValuesOf(i, f)
  PROVE  Promised(i)' = Promised(i)
<1>1. Sound(i)' <=> Sound(i)
  BY DEF Sound, Required, Field
<1>2. JobOf(i)' = JobOf(i)
  <2>1. JobOf(i)' = Opportunity([f \in {f \in Field : ValuesOf(i, f)' # {}} |->
                                   Chosen(ValuesOf(i, f)')])
    BY Zenon DEF JobOf, Chosen
  <2>2. [f \in {f \in Field : ValuesOf(i, f)' # {}} |-> Chosen(ValuesOf(i, f)')]
          = [f \in {f \in Field : ValuesOf(i, f) # {}} |-> Chosen(ValuesOf(i, f))]
    OBVIOUS
  <2> QED BY <2>1, <2>2, JobIs
<1> QED BY <1>1, <1>2 DEF Promised

Value == DOMAIN Clean \cap DOMAIN Canonical

\* Values are values.
LEMMA ValuesAre ==
  ASSUME lines \in Seq(Line), NEW i, NEW f
  PROVE  ValuesOf(i, f) \subseteq Value
BY ExtractionAssumption DEF ValuesOf, Value

\* normalize() makes an opportunity of any fields.
LEMMA OpportunityIs ==
  ASSUME NEW D \in SUBSET Field, NEW values \in [D -> Value]
  PROVE  /\ Opportunity(values) \in Job /\ Opportunity(values) # None
         /\ "url" \in D => Opportunity(values)["url"] = Canonical[values["url"]]
<1> DEFINE R == {Clean[v] : v \in DOMAIN Clean} \cup {Canonical[v] : v \in DOMAIN Canonical}
<1>1. Blank \in R
  BY ExtractionAssumption
<1>2. \A f \in D : Canonical[values[f]] \in R /\ Clean[values[f]] \in R
  BY DEF Value
<1>3. DOMAIN values = D
  OBVIOUS
<1> HIDE DEF R
<1>4. Opportunity(values) \in [Field -> R]
  BY <1>1, <1>2, <1>3 DEF Opportunity
<1>5. Opportunity(values) \in Job
  BY <1>4 DEF Job, R
<1> QED BY <1>3, <1>5, ExtractionAssumption DEF Opportunity, Field, Required

\* What finish() may add is a block.
LEMMA BlockIs ==
  /\ \A reason \in {"conflicting fields", "missing fields", "unusable url"} :
       Rejected(reason) \in Block /\ Rejected(reason).job = None
  /\ \A job \in Job : [job |-> job, reason |-> "none"] \in Block
                    /\ [job |-> job, reason |-> "none"].job = job
<1>1. \A job \in Job \cup {None}, reason \in Reasons :
        /\ [job |-> job, reason |-> reason] \in Block
        /\ [job |-> job, reason |-> reason].job = job
  BY Zenon DEF Block
<1>2. /\ "none" \in Reasons /\ "conflicting fields" \in Reasons
      /\ "missing fields" \in Reasons /\ "unusable url" \in Reasons
  BY Zenon DEF Reasons
<1> QED BY <1>1, <1>2, Zenon DEF Rejected

\* finish() gives the item what it should become.
LEMMA FinishedIs ==
  ASSUME ItemsInv
  PROVE  Finished \in Block /\ Finished.job = Promised(Current)
<1> PICK n : n = Current
  OBVIOUS
<1> SUFFICES Finished \in Block /\ Finished.job = Promised(n)
  OBVIOUS
<1>1. /\ lines \in Seq(Line) /\ fields = [f \in DOMAIN fields |-> fields[f]]
      /\ conflicts \subseteq DOMAIN fields /\ DOMAIN fields \subseteq Field /\ n \in Nat
      /\ \A f \in Field : IsFiniteSet(ValuesOf(n, f))
      /\ \A f \in Field :
           /\ f \in DOMAIN fields <=> ValuesOf(n, f) # {}
           /\ f \in DOMAIN fields => fields[f] \in ValuesOf(n, f)
           /\ f \notin conflicts => \A v \in ValuesOf(n, f) : v = fields[f]
           /\ f \in conflicts => \E u, v \in ValuesOf(n, f) : u # v
  BY DEF ItemsInv, Current
<1>2. \A f \in Field : Cardinality(ValuesOf(n, f)) <= 1 <=> f \notin conflicts
  <2> SUFFICES ASSUME NEW f \in Field
               PROVE  Cardinality(ValuesOf(n, f)) <= 1 <=> f \notin conflicts
    OBVIOUS
  <2>1. Cardinality(ValuesOf(n, f)) <= 1 <=> \A u, v \in ValuesOf(n, f) : u = v
    BY <1>1, AtMostOne
  <2> QED BY <1>1, <2>1
<1>3. ASSUME conflicts = {}, NEW f \in Field
      PROVE  ValuesOf(n, f) = IF f \in DOMAIN fields THEN {fields[f]} ELSE {}
  BY <1>1, <1>3
<1>4. fields \in [DOMAIN fields -> Value]
  BY <1>1, ValuesAre
<1>5. "url" \in Required /\ Required \subseteq Field
  BY DEF Required, Field
<1>6. CASE conflicts # {}
  <2>1. ~Sound(n)
    <3>1. PICK f \in conflicts : f \in Field
      BY <1>1, <1>6
    <3> QED BY <1>2, <3>1 DEF Sound
  <2>2. Promised(n) = None
    BY <2>1 DEF Promised
  <2>3. Finished = Rejected("conflicting fields")
    BY <1>6 DEF Finished
  <2> QED BY <2>2, <2>3, BlockIs, Zenon
<1>7. CASE conflicts = {} /\ \E f \in Required : f \notin DOMAIN fields \/ fields[f] = Blank
  <2>1. PICK f \in Required : f \notin DOMAIN fields \/ fields[f] = Blank
    BY <1>7
  <2>2. ValuesOf(n, f) \in {{}, {Blank}}
    BY <1>3, <1>5, <1>7, <2>1
  <2>3. ~Sound(n)
    BY <2>1, <2>2 DEF Sound
  <2>4. Promised(n) = None
    BY <2>3 DEF Promised
  <2>5. Finished = Rejected("missing fields")
    BY <1>7 DEF Finished
  <2> QED BY <2>4, <2>5, BlockIs, Zenon
<1>8. CASE conflicts = {} /\ \A f \in Required : f \in DOMAIN fields /\ fields[f] # Blank
  <2>1. ValuesOf(n, "url") = {fields["url"]}
    BY <1>3, <1>5, <1>8
  <2>2. CASE Canonical[fields["url"]] = None
    <3>1. ~Sound(n)
      BY <2>1, <2>2 DEF Sound
    <3>2. Promised(n) = None
      BY <3>1 DEF Promised
    <3>3. Finished = Rejected("unusable url")
      BY <1>8, <2>2 DEF Finished
    <3> QED BY <3>2, <3>3, BlockIs, Zenon
  <2>3. CASE Canonical[fields["url"]] # None
    <3>1. Sound(n)
      <4>1. \A f \in Field : Cardinality(ValuesOf(n, f)) <= 1
        BY <1>2, <1>8
      <4>2. \A f \in Required : ValuesOf(n, f) \notin {{}, {Blank}}
        <5> SUFFICES ASSUME NEW f \in Required PROVE ValuesOf(n, f) \notin {{}, {Blank}}
          OBVIOUS
        <5>1. ValuesOf(n, f) = {fields[f]} /\ fields[f] # Blank
          BY <1>3, <1>5, <1>8
        <5> QED BY <5>1
      <4> QED BY <2>1, <2>3, <4>1, <4>2 DEF Sound
    <3>2. JobOf(n) = Opportunity(fields)
      <4>1. {f \in Field : ValuesOf(n, f) # {}} = DOMAIN fields
        BY <1>1
      <4>2. \A f \in DOMAIN fields : Chosen(ValuesOf(n, f)) = fields[f]
        <5>1. \A f \in DOMAIN fields : Chosen({fields[f]}) = fields[f]
          BY DEF Chosen
        <5> QED BY <1>1, <1>3, <1>8, <5>1
      <4>3. [f \in {f \in Field : ValuesOf(n, f) # {}} |-> Chosen(ValuesOf(n, f))]
              = [f \in DOMAIN fields |-> fields[f]]
        BY <4>1, <4>2
      <4> QED BY <1>1, <4>3, JobIs
    <3>3. Finished = [job |-> Opportunity(fields), reason |-> "none"]
      BY <1>8, <2>3 DEF Finished
    <3>4. Opportunity(fields) \in Job
      BY <1>1, <1>4, OpportunityIs
    <3>5. Promised(n) = Opportunity(fields)
      BY <3>1, <3>2 DEF Promised
    <3> QED BY <3>3, <3>4, <3>5, BlockIs, Zenon
  <2> QED BY <2>2, <2>3
<1> QED BY <1>6, <1>7, <1>8

\* Nothing was read.
LEMMA ItemsStart == ExtractionInit => ItemsInv
<1> SUFFICES ASSUME ExtractionInit PROVE ItemsInv
  OBVIOUS
<1>1. /\ lines = <<>> /\ fields = [f \in {} |-> Blank] /\ conflicts = {} /\ blocks = <<>>
      /\ DOMAIN lines = {} /\ DOMAIN fields = {}
  BY DEF ExtractionInit, NoFields
<1>2. Starts = {} /\ \A i, f : ValuesOf(i, f) = {}
  BY <1>1 DEF Starts, ValuesOf
<1>3. Cardinality(Starts) = 0 /\ IsFiniteSet({})
  BY <1>2, FS_EmptySet, Zenon
<1>4. fields = [f \in DOMAIN fields |-> fields[f]]
  BY <1>1
<1>5. Len(blocks) = 0 /\ DOMAIN blocks = {} /\ blocks \in Seq(Block) /\ lines \in Seq(Line)
  BY <1>1
<1> QED BY <1>1, <1>2, <1>3, <1>4, <1>5 DEF ItemsInv

\* A line gives its field another value in the current item, or starts the next one.
LEMMA LineKeeps ==
  ASSUME ItemsInv, NEW line \in Line, ReadLine(line)
  PROVE  ItemsInv'
<1>1. PICK starts : starts <=> line.field = "title" /\ "title" \in DOMAIN fields
  <2>1. \E s \in BOOLEAN : s <=> line.field = "title" /\ "title" \in DOMAIN fields
    OBVIOUS
  <2> QED BY <2>1
<1>2. PICK kept : kept = IF starts THEN NoFields ELSE fields
  OBVIOUS
<1>3. /\ blocks' = IF starts THEN Append(blocks, Finished) ELSE blocks
      /\ conflicts' = (IF starts THEN {} ELSE conflicts)
           \cup {f \in {line.field} \cap DOMAIN kept : kept[f] # line.value}
      /\ fields' = [f \in DOMAIN kept \cup {line.field} |->
                      IF f = line.field THEN line.value ELSE kept[f]]
      /\ lines' = Append(lines, line)
  BY <1>1, <1>2 DEF ReadLine
<1>4. PICK n : n = Current
  OBVIOUS
<1>5. PICK m : m = Current'
  OBVIOUS
<1>6. /\ lines \in Seq(Line) /\ blocks \in Seq(Block)
      /\ fields = [f \in DOMAIN fields |-> fields[f]]
      /\ conflicts \subseteq DOMAIN fields /\ DOMAIN fields \subseteq Field
      /\ lines = <<>> <=> DOMAIN fields = {}
      /\ n = Len(blocks) + 1 /\ n \in Nat
      /\ Cardinality(Starts) = IF lines = <<>> THEN n - 1 ELSE n
      /\ "title" \in DOMAIN fields <=> \E k \in DOMAIN lines : IsTitle(k)
      /\ \A i \in Nat, f \in Field : IsFiniteSet(ValuesOf(i, f))
      /\ \A f \in Field :
           /\ f \in DOMAIN fields <=> ValuesOf(n, f) # {}
           /\ f \in DOMAIN fields => fields[f] \in ValuesOf(n, f)
           /\ f \notin conflicts => \A v \in ValuesOf(n, f) : v = fields[f]
           /\ f \in conflicts => \E u, v \in ValuesOf(n, f) : u # v
      /\ \A i \in DOMAIN blocks : blocks[i].job = Promised(i)
      /\ line.field \in Field
  BY <1>4, ExtractionAssumption DEF ItemsInv, Current
<1>7. Finished \in Block /\ Finished.job = Promised(n)
  BY <1>4, FinishedIs
<1>8. /\ m \in Nat /\ blocks' \in Seq(Block)
      /\ m = IF starts THEN n + 1 ELSE n
      /\ m = Len(blocks') + 1
      /\ \A i \in DOMAIN blocks' : /\ i \in Nat /\ i < m
                                   /\ blocks'[i].job = Promised(i)
  <2>1. \A i \in DOMAIN blocks : i \in Nat /\ i < n
    BY <1>6
  <2>2. CASE starts
    <3>1. /\ blocks' \in Seq(Block) /\ Len(blocks') = n /\ blocks'[n] = Finished
          /\ \A i \in DOMAIN blocks' : i = n \/ (i \in DOMAIN blocks /\ blocks'[i] = blocks[i])
      BY <1>3, <1>6, <1>7, <2>2
    <3> QED BY <1>5, <1>6, <1>7, <2>1, <2>2, <3>1 DEF Current
  <2>3. CASE ~starts
    <3>1. blocks' = blocks
      BY <1>3, <2>3
    <3>2. m = n
      BY <1>4, <1>5, <3>1 DEF Current
    <3> QED BY <1>6, <2>1, <2>3, <3>1, <3>2
  <2> QED BY <2>2, <2>3
<1>9. /\ lines' \in Seq(Line) /\ lines' # <<>>
      /\ DOMAIN lines' = 1..Len(lines) + 1 /\ DOMAIN lines = 1..Len(lines) /\ Len(lines) \in Nat
      /\ lines'[Len(lines) + 1] = line
      /\ \A k \in DOMAIN lines : lines'[k] = lines[k]
  BY <1>3, <1>6
<1>10. Cardinality(Starts') = m
  <2>1. Cardinality(Starts') = Cardinality(Starts)
          + IF lines = <<>> \/ (line.field = "title" /\ \E k \in DOMAIN lines : IsTitle(k))
              THEN 1 ELSE 0
    BY <1>3, <1>6, LineAdded
  <2>2. CASE lines = <<>>
    <3>1. ~starts
      BY <1>1, <1>6, <2>2
    <3> QED BY <1>6, <1>8, <2>1, <2>2, <3>1
  <2>3. CASE lines # <<>>
    <3>1. starts <=> line.field = "title" /\ \E k \in DOMAIN lines : IsTitle(k)
      BY <1>1, <1>6
    <3> QED BY <1>6, <1>8, <2>1, <2>3, <3>1
  <2> QED BY <2>2, <2>3
<1>11. ASSUME NEW i, NEW f
       PROVE  ValuesOf(i, f)' = ValuesOf(i, f) \cup
                IF i = m /\ f = line.field THEN {line.value} ELSE {}
  BY <1>3, <1>6, <1>10, ValueAdded
<1>12. \A i \in DOMAIN blocks' : blocks'[i].job = Promised(i)'
  <2> SUFFICES ASSUME NEW i \in DOMAIN blocks' PROVE blocks'[i].job = Promised(i)'
    OBVIOUS
  <2>1. i # m
    BY <1>8
  <2>2. \A f \in Field : ValuesOf(i, f)' = ValuesOf(i, f)
    BY <1>11, <2>1
  <2>3. Promised(i)' = Promised(i)
    BY <2>2, PromiseKeptFor
  <2> QED BY <1>8, <2>3
<1>13. \A i \in Nat, f \in Field : IsFiniteSet(ValuesOf(i, f)')
  <2> SUFFICES ASSUME NEW i \in Nat, NEW f \in Field PROVE IsFiniteSet(ValuesOf(i, f)')
    OBVIOUS
  <2>1. IsFiniteSet(ValuesOf(i, f))
    BY <1>6
  <2>2. ValuesOf(i, f)' = ValuesOf(i, f) \/ ValuesOf(i, f)' = ValuesOf(i, f) \cup {line.value}
    BY <1>11
  <2>3. IsFiniteSet(ValuesOf(i, f) \cup {line.value})
    BY <2>1, FS_AddElement
  <2> QED BY <2>1, <2>2, <2>3
<1>14. \A f \in Field :
         /\ f \in DOMAIN kept <=> ValuesOf(m, f) # {}
         /\ f \in DOMAIN kept => kept[f] \in ValuesOf(m, f)
         /\ f \notin (IF starts THEN {} ELSE conflicts) => \A v \in ValuesOf(m, f) : v = kept[f]
         /\ f \in (IF starts THEN {} ELSE conflicts) => \E u, v \in ValuesOf(m, f) : u # v
  <2>1. CASE starts
    <3>1. DOMAIN kept = {}
      BY <1>2, <2>1 DEF NoFields
    <3>2. Cardinality(Starts) = n /\ m = n + 1
      <4>1. lines # <<>>
        BY <1>1, <1>6, <2>1
      <4> QED BY <1>6, <1>8, <2>1, <4>1
    <3>3. \A f : ValuesOf(m, f) = {}
      <4>1. m \in Nat /\ m > Cardinality(Starts) /\ lines \in Seq(Line)
        BY <1>6, <1>8, <3>2
      <4> QED BY <4>1, NoValueYet
    <3> QED BY <2>1, <3>1, <3>3
  <2>2. CASE ~starts
    <3>1. kept = fields /\ m = n
      BY <1>2, <1>8, <2>2
    <3> QED BY <1>6, <2>2, <3>1
  <2> QED BY <2>1, <2>2
<1>15. DOMAIN kept \subseteq Field /\ (IF starts THEN {} ELSE conflicts) \subseteq DOMAIN kept
  BY <1>2, <1>6 DEF NoFields
<1>16. /\ DOMAIN fields' = DOMAIN kept \cup {line.field}
       /\ fields' = [f \in DOMAIN fields' |-> fields'[f]]
       /\ fields'[line.field] = line.value
       /\ \A f \in DOMAIN kept : f # line.field => fields'[f] = kept[f]
  BY <1>3
<1>17. conflicts' \subseteq DOMAIN fields' /\ DOMAIN fields' \subseteq Field
  BY <1>3, <1>6, <1>15, <1>16
<1>18. \A f \in Field :
         /\ f \in DOMAIN fields' <=> ValuesOf(m, f)' # {}
         /\ f \in DOMAIN fields' => fields'[f] \in ValuesOf(m, f)'
         /\ f \notin conflicts' => \A v \in ValuesOf(m, f)' : v = fields'[f]
         /\ f \in conflicts' => \E u, v \in ValuesOf(m, f)' : u # v
  <2> SUFFICES ASSUME NEW f \in Field
               PROVE  /\ f \in DOMAIN fields' <=> ValuesOf(m, f)' # {}
                      /\ f \in DOMAIN fields' => fields'[f] \in ValuesOf(m, f)'
                      /\ f \notin conflicts' => \A v \in ValuesOf(m, f)' : v = fields'[f]
                      /\ f \in conflicts' => \E u, v \in ValuesOf(m, f)' : u # v
    OBVIOUS
  <2>1. CASE f # line.field
    <3>1. ValuesOf(m, f)' = ValuesOf(m, f)
      BY <1>11, <2>1
    <3>2. /\ f \in DOMAIN fields' <=> f \in DOMAIN kept
          /\ f \in DOMAIN kept => fields'[f] = kept[f]
          /\ f \in conflicts' <=> f \in (IF starts THEN {} ELSE conflicts)
      BY <1>3, <1>16, <2>1
    <3>3. f \notin DOMAIN kept => ValuesOf(m, f) = {}
      BY <1>14
    <3> QED BY <1>14, <3>1, <3>2, <3>3
  <2>2. CASE f = line.field
    <3>1. ValuesOf(m, f)' = ValuesOf(m, f) \cup {line.value}
      BY <1>11, <2>2
    <3>2. f \in DOMAIN fields' /\ fields'[f] = line.value
      BY <1>16, <2>2
    <3>3. f \in conflicts' <=> \/ f \in (IF starts THEN {} ELSE conflicts)
                               \/ f \in DOMAIN kept /\ kept[f] # line.value
      BY <1>3, <2>2
    <3>4. CASE f \in (IF starts THEN {} ELSE conflicts)
      BY <1>14, <3>1, <3>2, <3>3, <3>4
    <3>5. CASE f \notin (IF starts THEN {} ELSE conflicts) /\ f \in DOMAIN kept
      BY <1>14, <3>1, <3>2, <3>3, <3>5
    <3>6. CASE f \notin (IF starts THEN {} ELSE conflicts) /\ f \notin DOMAIN kept
      <4>1. ValuesOf(m, f) = {}
        BY <1>14, <3>6
      <4> QED BY <3>1, <3>2, <3>3, <3>6, <4>1
    <3> QED BY <3>4, <3>5, <3>6
  <2> QED BY <2>1, <2>2
<1>19. "title" \in DOMAIN fields' <=> \E k \in DOMAIN lines' : IsTitle(k)'
  <2>1. \A k \in DOMAIN lines : k \in DOMAIN lines' /\ (IsTitle(k)' <=> IsTitle(k))
    BY <1>9 DEF IsTitle
  <2>2. PICK l : l = Len(lines) + 1
    OBVIOUS
  <2>3. /\ l \in DOMAIN lines' /\ (IsTitle(l)' <=> line.field = "title")
        /\ \A k \in DOMAIN lines' : k \in DOMAIN lines \/ k = l
    BY <1>9, <2>2 DEF IsTitle
  <2>4. "title" \in DOMAIN fields' <=> "title" \in DOMAIN fields \/ line.field = "title"
    BY <1>1, <1>2, <1>16
  <2> QED BY <1>6, <2>1, <2>3, <2>4
<1>20. Cardinality(Starts') = m /\ Current' = m /\ lines' # <<>> /\ DOMAIN fields' # {}
  BY <1>5, <1>9, <1>10, <1>16
<1> QED
  BY <1>8, <1>9, <1>12, <1>13, <1>16, <1>17, <1>18, <1>19, <1>20 DEF ItemsInv

\* So it is of every text.
LEMMA ItemsAreKept == ExtractionSpec => []ItemsInv
<1>1. ASSUME ItemsInv, [ExtractionNext]_extractionVars PROVE ItemsInv'
  <2>1. CASE ExtractionNext
    BY <1>1, <2>1, LineKeeps DEF ExtractionNext
  <2>2. CASE UNCHANGED extractionVars
    <3>1. /\ lines' = lines /\ fields' = fields /\ conflicts' = conflicts /\ blocks' = blocks
      BY <2>2 DEF extractionVars
    <3>2. Starts' = Starts /\ Current' = Current /\ \A i, f : ValuesOf(i, f)' = ValuesOf(i, f)
      BY <3>1 DEF Starts, Current, ValuesOf, ItemOf, IsTitle
    <3>3. \A i : Promised(i)' = Promised(i)
      BY <3>2, PromiseKeptFor
    <3>4. \A k : IsTitle(k)' <=> IsTitle(k)
      BY <3>1 DEF IsTitle
    <3> QED BY <1>1, <3>1, <3>2, <3>3, <3>4 DEF ItemsInv
  <2> QED BY <1>1, <2>1, <2>2
<1> QED BY <1>1, ItemsStart, PTL DEF ExtractionSpec

\* Every item of the text, the last one with what was read of it.
LEMMA AllItems ==
  ASSUME ItemsInv
  PROVE  LET items == IF DOMAIN fields = {} THEN blocks ELSE Append(blocks, Finished) IN
         /\ items \in Seq(Block) /\ Len(items) = Cardinality(Starts)
         /\ \A i \in DOMAIN items : items[i].job = Promised(i)
<1>1. Finished \in Block /\ Finished.job = Promised(Current)
  BY FinishedIs
<1>2. PICK n : n = Current
  OBVIOUS
<1>3. /\ blocks \in Seq(Block) /\ \A i \in DOMAIN blocks : blocks[i].job = Promised(i)
      /\ Cardinality(Starts) = IF DOMAIN fields = {} THEN Len(blocks) ELSE n
      /\ n = Len(blocks) + 1
  BY <1>2 DEF ItemsInv, Current
<1>4. PICK last : last = Finished
  OBVIOUS
<1>5. last \in Block /\ last.job = Promised(n)
  BY <1>1, <1>2, <1>4
<1>6. /\ Append(blocks, last) \in Seq(Block) /\ Len(Append(blocks, last)) = n
      /\ \A i \in DOMAIN Append(blocks, last) :
           \/ i = n /\ Append(blocks, last)[i] = last
           \/ i \in DOMAIN blocks /\ Append(blocks, last)[i] = blocks[i]
  BY <1>3, <1>5
<1>7. \A i \in DOMAIN Append(blocks, last) : Append(blocks, last)[i].job = Promised(i)
  BY <1>3, <1>5, <1>6
<1> QED BY <1>3, <1>4, <1>6, <1>7

\* An opportunity is never None.
LEMMA JobsAreJobs ==
  ASSUME lines \in Seq(Line), NEW i
  PROVE  JobOf(i) # None
<1> DEFINE D == {f \in Field : ValuesOf(i, f) # {}}
           values == [f \in D |-> Chosen(ValuesOf(i, f))]
<1>1. \A f \in D : Chosen(ValuesOf(i, f)) \in Value
  <2>1. ASSUME NEW f \in D PROVE Chosen(ValuesOf(i, f)) \in ValuesOf(i, f)
    BY DEF Chosen
  <2> QED BY <2>1, ValuesAre
<1>2. D \in SUBSET Field /\ values \in [D -> Value]
  BY <1>1
<1>3. JobOf(i) = Opportunity(values)
  BY JobIs
<1> HIDE DEF values, D
<1> QED BY <1>2, <1>3, OpportunityIs

\* For any lines, values and urls: an item of a text becomes an opportunity exactly when its
\* own lines say so and no other item describes its url differently, and is made of its own
\* lines alone (extract() and reject_conflicts() in recruiting/extraction.py).
THEOREM ItemsIndependent == ExtractionSpec => []ItemsAreIndependent
<1>1. ItemsInv => ItemsAreIndependent
  <2> SUFFICES ASSUME ItemsInv PROVE ItemsAreIndependent
    OBVIOUS
  <2>1. PICK all : all = IF DOMAIN fields = {} THEN blocks ELSE Append(blocks, Finished)
    OBVIOUS
  <2>2. PICK n \in Nat : n = Cardinality(Starts)
    <3>1. blocks \in Seq(Block) /\ Cardinality(Starts) \in {Len(blocks), Len(blocks) + 1}
      BY DEF ItemsInv, Current
    <3> QED BY <3>1
  <2>3. /\ all \in Seq(Block) /\ Len(all) = n /\ DOMAIN all = 1..n
        /\ \A i \in 1..n : all[i].job = Promised(i)
    BY <2>1, <2>2, AllItems
  <2>4. lines \in Seq(Line)
    BY DEF ItemsInv
  <2>5. \A i : JobOf(i) # None
    BY <2>4, JobsAreJobs
  <2>6. \A i \in 1..n : /\ Sound(i) => all[i].job = JobOf(i)
                        /\ ~Sound(i) => all[i].job = None
    BY <2>3 DEF Promised
  <2>7. PICK items : items = Extracted
    OBVIOUS
  <2>8. /\ items = [i \in 1..n |->
                     IF all[i].job # None /\ all[i].job["url"] \in Ambiguous(all)
                       THEN Rejected("conflicting versions") ELSE all[i]]
        /\ Len(items) = n /\ DOMAIN items = 1..n
    <3>1. items = [i \in 1..n |->
                     IF all[i].job # None /\ all[i].job["url"] \in Ambiguous(all)
                       THEN Rejected("conflicting versions") ELSE all[i]]
      BY <2>1, <2>3, <2>7 DEF Extracted
    <3>2. DOMAIN items = 1..n /\ items \in [1..n -> {items[i] : i \in 1..n}]
      BY <3>1
    <3>3. items \in Seq({items[i] : i \in 1..n})
      BY <3>2
    <3>4. Len(items) = n
      BY <3>2, <3>3
    <3> QED BY <3>1, <3>2, <3>4
  <2> DEFINE jobs == [i \in {i \in 1..Cardinality(Starts) : Sound(i)} |-> JobOf(i)]
             distinct == {i \in DOMAIN jobs : \A k \in DOMAIN jobs :
                            jobs[k]["url"] = jobs[i]["url"] => jobs[k] = jobs[i]}
  <2>9. \A i : i \in DOMAIN jobs <=> i \in 1..n /\ Sound(i)
    BY <2>2
  <2>10. \A i \in DOMAIN jobs : jobs[i] = JobOf(i)
    BY <2>2
  <2>11. \A i : i \in distinct <=>
           /\ i \in 1..n /\ Sound(i)
           /\ \A k \in 1..n : Sound(k) /\ JobOf(k)["url"] = JobOf(i)["url"] => JobOf(k) = JobOf(i)
    BY <2>9, <2>10
  <2>12. \A u : u \in Ambiguous(all) <=>
           \E i \in 1..n : \E k \in 1..(i - 1) :
             /\ all[i].job["url"] = u /\ all[i].job # None /\ all[k].job # None
             /\ all[k].job["url"] = all[i].job["url"] /\ all[k].job # all[i].job
    BY <2>3 DEF Ambiguous
  <2>13. \A u : u \in Ambiguous(all) <=>
           \E i, k \in 1..n :
             /\ Sound(i) /\ Sound(k) /\ JobOf(i)["url"] = u /\ JobOf(k)["url"] = u
             /\ JobOf(k) # JobOf(i)
    <3>1. ASSUME NEW u, u \in Ambiguous(all)
          PROVE  \E i, k \in 1..n : /\ Sound(i) /\ Sound(k) /\ JobOf(i)["url"] = u
                                    /\ JobOf(k)["url"] = u /\ JobOf(k) # JobOf(i)
      <4>1. PICK i \in 1..n : \E k \in 1..(i - 1) :
              /\ all[i].job["url"] = u /\ all[i].job # None /\ all[k].job # None
              /\ all[k].job["url"] = all[i].job["url"] /\ all[k].job # all[i].job
        BY <2>12, <3>1
      <4>2. PICK k \in 1..(i - 1) :
              /\ all[i].job["url"] = u /\ all[i].job # None /\ all[k].job # None
              /\ all[k].job["url"] = all[i].job["url"] /\ all[k].job # all[i].job
        BY <4>1
      <4>3. k \in 1..n
        OBVIOUS
      <4> QED BY <2>6, <4>2, <4>3
    <3>2. ASSUME NEW u, NEW i \in 1..n, NEW k \in 1..n,
                 Sound(i), Sound(k), JobOf(i)["url"] = u, JobOf(k)["url"] = u, JobOf(k) # JobOf(i)
          PROVE  u \in Ambiguous(all)
      <4>1. \/ i \in 1..(k - 1)
            \/ k \in 1..(i - 1)
        <5>1. i # k
          BY <3>2
        <5> QED BY <5>1
      <4>2. all[i].job = JobOf(i) /\ all[k].job = JobOf(k)
        BY <2>6, <3>2
      <4> QED BY <2>5, <2>12, <3>2, <4>1, <4>2
    <3> QED BY <3>1, <3>2
  <2> HIDE DEF jobs, distinct
  <2>14. ASSUME NEW i \in 1..n
         PROVE  items[i].job = IF i \in distinct THEN jobs[i] ELSE None
    <3>1. CASE ~Sound(i)
      <4>1. items[i] = all[i] /\ all[i].job = None
        BY <2>6, <2>8, <3>1
      <4> QED BY <2>11, <3>1, <4>1
    <3>2. CASE Sound(i)
      <4>1. all[i].job = JobOf(i) /\ all[i].job # None /\ jobs[i] = JobOf(i)
        BY <2>5, <2>6, <2>9, <2>10, <3>2
      <4>2. i \in distinct <=> JobOf(i)["url"] \notin Ambiguous(all)
        <5>1. ASSUME i \in distinct, JobOf(i)["url"] \in Ambiguous(all) PROVE FALSE
          <6>1. PICK a \in 1..n, b \in 1..n :
                  /\ Sound(a) /\ Sound(b) /\ JobOf(a)["url"] = JobOf(i)["url"]
                  /\ JobOf(b)["url"] = JobOf(i)["url"] /\ JobOf(b) # JobOf(a)
            BY <2>13, <5>1
          <6>2. JobOf(a) = JobOf(i) /\ JobOf(b) = JobOf(i)
            BY <2>11, <5>1, <6>1
          <6> QED BY <6>1, <6>2
        <5>2. ASSUME i \notin distinct PROVE JobOf(i)["url"] \in Ambiguous(all)
          <6>1. PICK k \in 1..n : /\ Sound(k) /\ JobOf(k)["url"] = JobOf(i)["url"]
                                  /\ JobOf(k) # JobOf(i)
            BY <2>11, <3>2, <5>2
          <6> QED BY <2>13, <3>2, <6>1
        <5> QED BY <5>1, <5>2
      <4>3. CASE i \in distinct
        <5>1. items[i] = all[i]
          BY <2>8, <4>1, <4>2, <4>3
        <5> QED BY <4>1, <4>3, <5>1
      <4>4. CASE i \notin distinct
        <5>1. items[i] = Rejected("conflicting versions")
          BY <2>8, <4>1, <4>2, <4>4
        <5>2. Rejected("conflicting versions").job = None
          BY Zenon DEF Rejected
        <5> QED BY <4>4, <5>1, <5>2, Zenon
      <4> QED BY <4>3, <4>4
    <3> QED BY <3>1, <3>2
  <2>15. Len(Extracted) = Cardinality(Starts)
    BY <2>2, <2>7, <2>8
  <2>16. \A i \in DOMAIN Extracted :
           Extracted[i].job = IF i \in distinct THEN jobs[i] ELSE None
    BY <2>7, <2>8, <2>14
  <2> QED BY <2>15, <2>16, Zenon DEF ItemsAreIndependent, jobs, distinct
<1> QED BY <1>1, ItemsAreKept, PTL

-----------------------------------------------------------------------------
(* DraftListing: what is still to come when a listing goes on by position. *)

Lookups ==
  [at : {"asleep", "listing", "comparing", "over"}, token : Nat \cup {Nothing}, pages : Nat,
   entries : Seq(Draft), matches : Seq(Draft), answer : Draft \cup {Nothing}]

Distinct(s) == \A i, k \in 1..Len(s) : s[i] = s[k] => i = k

\* A page that is still to be listed will have the draft at k.
Ahead(k) == IF lookup.token = Nothing THEN lookup.at = "listing" ELSE k > lookup.token

\* What was there when the lookup began is still the oldest of the mailbox.
Grown ==
  /\ Len(before) <= Len(drafts)
  /\ \A k \in 1..Len(before) : drafts[Len(drafts) - Len(before) + k] = before[k]

\* Every claimant was found, is on the page that is being compared, or is still to come.
Covered ==
  \A d \in Claimants :
    \/ d \in ToSet(lookup.matches)
    \/ d \in ToSet(lookup.entries)
    \/ \E k \in 1..Len(drafts) : drafts[k] = d /\ Ahead(k)

\* In a mailbox that did not change nothing is listed twice.
ListedOnce ==
  /\ Distinct(lookup.matches) /\ Distinct(lookup.entries)
  /\ ToSet(lookup.matches) \cap ToSet(lookup.entries) = {}
  /\ ToSet(lookup.matches) \subseteq Claimants
  /\ ToSet(lookup.entries) \subseteq ToSet(before)
  /\ \A k \in 1..Len(drafts) :
       drafts[k] \in ToSet(lookup.matches) \cup ToSet(lookup.entries) => ~Ahead(k)

\* All of this, as long as no draft left the mailbox and no request failed.
Looking ==
  /\ drafts \in Seq(Draft) /\ Distinct(drafts) /\ before \in Seq(Draft)
  /\ lookup \in Lookups
  /\ lookup.at = "asleep" => lookup = Asleep
  /\ lookup.at \in {"listing", "over"} => lookup.entries = <<>>
  /\ lookup.at = "over" => lookup.answer = Answer
  /\ lookup.at # "asleep" => Grown /\ Covered /\ (drafts = before => ListedOnce)

ListingInv == discarded = {} /\ lookup.at # "raised" => Looking

\* A page of a mailbox.
LEMMA PageIs ==
  ASSUME NEW s \in Seq(Draft), NEW a \in Nat, NEW b \in Nat, b <= Len(s)
  PROVE  /\ SubSeq(s, a + 1, b) \in Seq(Draft)
         /\ \A k \in 1..Len(SubSeq(s, a + 1, b)) :
              a + k \in 1..b /\ SubSeq(s, a + 1, b)[k] = s[a + k]
         /\ \A j \in 1..b : j > a =>
              j - a \in 1..Len(SubSeq(s, a + 1, b)) /\ SubSeq(s, a + 1, b)[j - a] = s[j]
OBVIOUS

\* An element of a sequence has a place in it.
LEMMA InToSet ==
  ASSUME NEW s \in Seq(Draft), NEW d
  PROVE  d \in ToSet(s) <=> \E k \in 1..Len(s) : s[k] = d
BY DEF ToSet

\* Before the lookup there is nothing to know.
LEMMA ListingStarts == ListingInit => ListingInv
BY DEF ListingInit, ListingInv, Looking, Lookups, Asleep, Distinct

\* A draft that is saved comes before the others.
LEMMA SaveKeeps ==
  ASSUME ListingInv, NEW d \in Draft, Save(d)
  PROVE  ListingInv'
<1> SUFFICES ASSUME discarded' = {}, lookup'.at # "raised" PROVE Looking'
  BY DEF ListingInv
<1>1. Looking /\ UNCHANGED <<before, lookup>> /\ d \notin ToSet(drafts)
  BY DEF Save, ListingInv
<1>2. /\ drafts' \in Seq(Draft) /\ Len(drafts') = Len(drafts) + 1 /\ drafts'[1] = d
      /\ \A k \in 1..Len(drafts) : drafts'[k + 1] = drafts[k]
  BY DEF Save, Looking, ListingInv
<1>3. drafts \in Seq(Draft) /\ Distinct(drafts) /\ before \in Seq(Draft) /\ lookup \in Lookups
  BY <1>1 DEF Looking
<1>4. Distinct(drafts')
  <2> SUFFICES ASSUME NEW i \in 1..Len(drafts'), NEW k \in 1..Len(drafts'), drafts'[i] = drafts'[k]
               PROVE  i = k
    BY DEF Distinct
  <2>1. \A j \in 1..Len(drafts) : drafts[j] # d
    BY <1>1, <1>3, InToSet
  <2>2. i = 1 \/ (i - 1 \in 1..Len(drafts) /\ drafts'[i] = drafts[i - 1])
    BY <1>2, <1>3
  <2>3. k = 1 \/ (k - 1 \in 1..Len(drafts) /\ drafts'[k] = drafts[k - 1])
    BY <1>2, <1>3
  <2> QED BY <1>2, <1>3, <2>1, <2>2, <2>3 DEF Distinct
<1>5. ASSUME lookup.at # "asleep" PROVE Grown' /\ Covered' /\ drafts' # before'
  <2>1. Grown /\ Covered
    BY <1>1, <1>5 DEF Looking
  <2>2. Grown'
    <3>1. Len(before) <= Len(drafts')
      BY <1>2, <1>3, <2>1 DEF Grown
    <3>2. ASSUME NEW k \in 1..Len(before)
          PROVE  drafts'[Len(drafts') - Len(before) + k] = before[k]
      <4>1. Len(drafts) - Len(before) + k \in 1..Len(drafts)
        BY <1>3, <2>1 DEF Grown
      <4>2. drafts'[Len(drafts) - Len(before) + k + 1] = before[k]
        BY <1>2, <2>1, <4>1 DEF Grown
      <4>3. Len(drafts') - Len(before) + k = Len(drafts) - Len(before) + k + 1
        BY <1>2, <1>3
      <4> QED BY <4>2, <4>3
    <3> QED BY <1>1, <3>1, <3>2 DEF Grown
  <2>3. \A k \in 1..Len(drafts) : Ahead(k) => Ahead(k + 1)' /\ k + 1 \in 1..Len(drafts')
    BY <1>1, <1>2, <1>3 DEF Ahead, Lookups
  <2>4. Covered'
    <3>1. Claimants' = Claimants
      BY <1>1 DEF Claimants
    <3> SUFFICES ASSUME NEW c \in Claimants, c \notin ToSet(lookup.matches),
                        c \notin ToSet(lookup.entries)
                 PROVE  \E k \in 1..Len(drafts') : drafts'[k] = c /\ Ahead(k)'
      BY <1>1, <3>1 DEF Covered
    <3>2. PICK k \in 1..Len(drafts) : drafts[k] = c /\ Ahead(k)
      BY <2>1 DEF Covered
    <3> QED BY <1>2, <2>3, <3>2
  <2>5. drafts' # before'
    <3>1. Len(drafts') # Len(before)
      BY <1>2, <1>3, <2>1 DEF Grown
    <3> QED BY <1>1, <3>1
  <2> QED BY <2>2, <2>4, <2>5
<1>6. Answer' = Answer
  BY <1>1 DEF Answer
<1> QED BY <1>1, <1>2, <1>3, <1>4, <1>5, <1>6 DEF Looking

\* At the beginning every draft is still to come.
LEMMA BeginKeeps ==
  ASSUME ListingInv, Begin
  PROVE  ListingInv'
<1> SUFFICES ASSUME discarded' = {}, lookup'.at # "raised" PROVE Looking'
  BY DEF ListingInv
<1>1. /\ lookup = Asleep /\ drafts' = drafts /\ before' = drafts
      /\ lookup' = [Asleep EXCEPT !.at = "listing"]
  BY DEF Begin
<1>2. PICK k : k = Asleep
  OBVIOUS
<1>3. k \in Lookups /\ k.at = "asleep" /\ k.token = Nothing /\ k.entries = <<>> /\ k.matches = <<>>
  BY <1>2 DEF Asleep, Lookups
<1>4. /\ lookup' \in Lookups /\ lookup'.at = "listing" /\ lookup'.token = Nothing
      /\ lookup'.entries = <<>> /\ lookup'.matches = <<>>
  BY <1>1, <1>2, <1>3 DEF Lookups
<1>5. drafts \in Seq(Draft) /\ Distinct(drafts)
  BY <1>1, <1>2, <1>3 DEF ListingInv, Looking, Begin
<1>6. \A i : Ahead(i)'
  BY <1>4 DEF Ahead
<1>7. Grown' /\ Covered' /\ ListedOnce'
  <2>1. Grown'
    BY <1>1, <1>5 DEF Grown
  <2>2. Covered'
    <3>1. Claimants' \subseteq ToSet(drafts)
      BY <1>1 DEF Claimants
    <3>2. \A c \in ToSet(drafts) : \E i \in 1..Len(drafts) : drafts[i] = c
      BY <1>5, InToSet
    <3> QED BY <1>1, <1>6, <3>1, <3>2 DEF Covered
  <2>3. ListedOnce'
    <3>1. ToSet(lookup'.matches) = {} /\ ToSet(lookup'.entries) = {}
      BY <1>4 DEF ToSet
    <3>2. Distinct(lookup'.matches) /\ Distinct(lookup'.entries)
      BY <1>4 DEF Distinct
    <3> QED BY <3>1, <3>2 DEF ListedOnce
  <2> QED BY <2>1, <2>2, <2>3
<1>8. Distinct(drafts')
  BY <1>1, <1>5 DEF Distinct
<1> QED BY <1>1, <1>4, <1>5, <1>7, <1>8 DEF Looking

\* A page has the drafts from the position on to which the pages before it came.
LEMMA ListKeeps ==
  ASSUME ListingInv, List
  PROVE  ListingInv'
<1> USE DraftListingAssumption
<1> SUFFICES ASSUME discarded' = {}, lookup'.at # "raised" PROVE Looking'
  BY DEF ListingInv
<1>1. Looking /\ lookup.at = "listing" /\ UNCHANGED <<drafts, before>>
  BY DEF List, ListingInv
<1>2. /\ drafts \in Seq(Draft) /\ Distinct(drafts) /\ before \in Seq(Draft) /\ lookup \in Lookups
      /\ lookup.entries = <<>> /\ Grown /\ Covered /\ (drafts = before => ListedOnce)
  BY <1>1 DEF Looking
<1>3. PICK from \in Nat : from = IF lookup.token = Nothing THEN 0 ELSE lookup.token
  BY <1>2 DEF Lookups
<1>4. PICK upto \in from..(from + PageSize) :
        lookup' = [lookup EXCEPT !.at = "comparing", !.pages = @ + 1,
                     !.entries = SubSeq(drafts, from + 1, IF upto < Len(drafts) THEN upto
                                                                             ELSE Len(drafts)),
                     !.token = IF upto < Len(drafts) THEN upto ELSE Nothing]
  BY <1>3 DEF List
<1>5. PICK last \in Nat : last = IF upto < Len(drafts) THEN upto ELSE Len(drafts)
  BY <1>2
<1>6. PICK page : page = SubSeq(drafts, from + 1, last)
  OBVIOUS
<1>7. last <= Len(drafts) /\ upto \in Nat /\ Len(drafts) \in Nat
  BY <1>2, <1>5
<1>8. /\ page \in Seq(Draft)
      /\ \A k \in 1..Len(page) : from + k \in 1..last /\ page[k] = drafts[from + k]
      /\ \A j \in 1..last : j > from => j - from \in 1..Len(page) /\ page[j - from] = drafts[j]
  BY <1>2, <1>6, <1>7, PageIs
<1>9. /\ lookup' \in Lookups /\ lookup'.at = "comparing" /\ lookup'.entries = page
      /\ lookup'.matches = lookup.matches
      /\ lookup'.token = IF upto < Len(drafts) THEN upto ELSE Nothing
  <2>1. lookup' = [lookup EXCEPT !.at = "comparing", !.pages = @ + 1, !.entries = page,
                     !.token = IF upto < Len(drafts) THEN upto ELSE Nothing]
    BY <1>4, <1>5, <1>6
  <2>2. PICK token : token = IF upto < Len(drafts) THEN upto ELSE Nothing
    OBVIOUS
  <2>3. /\ lookup.pages + 1 \in Nat /\ token \in Nat \cup {Nothing}
        /\ lookup.matches \in Seq(Draft) /\ lookup.answer \in Draft \cup {Nothing}
    BY <1>2, <1>7, <2>2 DEF Lookups
  <2>4. lookup' = [at |-> "comparing", token |-> token, pages |-> lookup.pages + 1,
                   entries |-> page, matches |-> lookup.matches, answer |-> lookup.answer]
    BY <1>2, <2>1, <2>2 DEF Lookups
  <2> QED BY <1>8, <2>2, <2>3, <2>4 DEF Lookups
<1>10. \A k \in 1..Len(drafts) : /\ Ahead(k) <=> k > from
                                 /\ Ahead(k)' <=> k > last
  <2>1. ASSUME NEW k \in 1..Len(drafts) PROVE Ahead(k) <=> k > from
    BY <1>1, <1>3, <2>1 DEF Ahead
  <2>2. ASSUME NEW k \in 1..Len(drafts) PROVE Ahead(k)' <=> k > last
    BY <1>5, <1>7, <1>9, <2>2 DEF Ahead
  <2> QED BY <2>1, <2>2
<1>11. Grown' /\ Claimants' = Claimants
  BY <1>1, <1>2 DEF Grown, Claimants
<1>12. Covered'
  <2> SUFFICES ASSUME NEW d \in Claimants, d \notin ToSet(lookup'.matches), d \notin ToSet(page)
               PROVE  \E k \in 1..Len(drafts) : drafts[k] = d /\ Ahead(k)'
    BY <1>1, <1>9, <1>11 DEF Covered
  <2>1. d \notin ToSet(lookup.entries)
    BY <1>2 DEF ToSet
  <2>2. PICK k \in 1..Len(drafts) : drafts[k] = d /\ Ahead(k)
    BY <1>2, <1>9, <2>1 DEF Covered
  <2>3. ASSUME k <= last PROVE FALSE
    <3>1. k \in 1..last /\ k > from
      BY <1>10, <2>2, <2>3
    <3>2. k - from \in 1..Len(page) /\ page[k - from] = d
      BY <1>8, <2>2, <3>1
    <3> QED BY <1>8, <3>2, InToSet
  <2> QED BY <1>10, <2>2, <2>3
<1>13. ASSUME drafts = before PROVE ListedOnce'
  <2>1. ListedOnce
    BY <1>2, <1>13
  <2>2. Distinct(page)
    <3> SUFFICES ASSUME NEW i \in 1..Len(page), NEW k \in 1..Len(page), page[i] = page[k]
                 PROVE  i = k
      BY DEF Distinct
    <3>1. /\ from + i \in 1..Len(drafts) /\ from + k \in 1..Len(drafts)
          /\ drafts[from + i] = drafts[from + k]
      BY <1>7, <1>8
    <3>2. from + i = from + k
      BY <1>2, <3>1 DEF Distinct
    <3> QED BY <3>2
  <2>3. \A d \in ToSet(page) : \E k \in 1..Len(drafts) : drafts[k] = d /\ k > from /\ k <= last
    <3> SUFFICES ASSUME NEW d \in ToSet(page)
                 PROVE  \E k \in 1..Len(drafts) : drafts[k] = d /\ k > from /\ k <= last
      OBVIOUS
    <3>1. PICK i \in 1..Len(page) : page[i] = d
      BY <1>8, InToSet
    <3>2. from + i \in 1..last /\ drafts[from + i] = d /\ from + i > from
      BY <1>8, <3>1
    <3> QED BY <1>7, <3>2
  <2>4. ToSet(lookup.matches) \cap ToSet(page) = {}
    BY <1>10, <2>1, <2>3 DEF ListedOnce
  <2>5. ToSet(page) \subseteq ToSet(before)
    <3>1. \A k \in 1..Len(drafts) : drafts[k] \in ToSet(drafts)
      BY <1>2, InToSet
    <3> QED BY <1>13, <2>3, <3>1
  <2>6. ASSUME NEW k \in 1..Len(drafts), drafts[k] \in ToSet(lookup.matches) \cup ToSet(page)
        PROVE  k <= last
    <3>1. CASE drafts[k] \in ToSet(lookup.matches)
      <4>1. k <= from
        BY <1>10, <2>1, <3>1 DEF ListedOnce
      <4> QED BY <1>3, <1>4, <1>5, <1>7, <4>1
    <3>2. CASE drafts[k] \in ToSet(page)
      <4>1. PICK j \in 1..Len(drafts) : drafts[j] = drafts[k] /\ j <= last
        BY <2>3, <3>2
      <4>2. j = k
        BY <1>2, <4>1 DEF Distinct
      <4> QED BY <4>1, <4>2
    <3> QED BY <2>6, <3>1, <3>2
  <2>7. \A k \in 1..Len(drafts) :
          drafts[k] \in ToSet(lookup.matches) \cup ToSet(page) => ~ Ahead(k)'
    BY <1>7, <1>10, <2>6
  <2> QED BY <1>1, <1>9, <1>11, <2>1, <2>2, <2>4, <2>5, <2>7 DEF ListedOnce, Distinct
<1> QED BY <1>1, <1>2, <1>9, <1>11, <1>12, <1>13 DEF Looking, Distinct

\* The draft at the head of the page is a match if it claims the intent, and never again.
LEMMA CompareKeeps ==
  ASSUME ListingInv, Compare
  PROVE  ListingInv'
<1> USE DraftListingAssumption
<1> SUFFICES ASSUME discarded' = {}, lookup'.at # "raised" PROVE Looking'
  BY DEF ListingInv
<1>1. Looking /\ lookup.at = "comparing" /\ lookup.entries # <<>> /\ UNCHANGED <<drafts, before>>
  BY DEF Compare, ListingInv
<1>2. /\ drafts \in Seq(Draft) /\ Distinct(drafts) /\ before \in Seq(Draft) /\ lookup \in Lookups
      /\ Grown /\ Covered /\ (drafts = before => ListedOnce)
  BY <1>1 DEF Looking
<1>3. PICK d : d = Head(lookup.entries)
  OBVIOUS
<1>4. PICK rest : rest = Tail(lookup.entries)
  OBVIOUS
<1>5. /\ d \in Draft /\ rest \in Seq(Draft) /\ lookup.entries \in Seq(Draft)
      /\ lookup.matches \in Seq(Draft)
      /\ Len(rest) + 1 = Len(lookup.entries) /\ lookup.entries[1] = d
      /\ \A k \in 1..Len(rest) : rest[k] = lookup.entries[k + 1]
  BY <1>1, <1>2, <1>3, <1>4 DEF Lookups
<1>6. MetadataIntent(d) = Wanted <=> Intents[d] = <<Wanted>>
  <2>1. Intents[d] \in Seq({Wanted, Nothing}) /\ Wanted # Nothing
    BY <1>5
  <2>2. PICK s \in Seq({Wanted, Nothing}) : s = Intents[d]
    BY <2>1
  <2>3. s = <<Wanted>> <=> Len(s) = 1 /\ s[1] = Wanted
    OBVIOUS
  <2> QED BY <2>1, <2>2, <2>3 DEF MetadataIntent
<1>7. PICK matches : matches = IF Intents[d] = <<Wanted>> THEN Append(lookup.matches, d)
                               ELSE lookup.matches
  OBVIOUS
<1>8. lookup' = [lookup EXCEPT !.entries = rest, !.matches = matches]
  BY <1>3, <1>4, <1>6, <1>7 DEF Compare
<1>9. matches \in Seq(Draft)
  BY <1>5, <1>7
<1>10. /\ lookup' \in Lookups /\ lookup'.at = "comparing" /\ lookup'.entries = rest
       /\ lookup'.matches = matches /\ lookup'.token = lookup.token
  BY <1>1, <1>2, <1>5, <1>8, <1>9 DEF Lookups
<1>11. /\ Grown' /\ Claimants' = Claimants
       /\ \A k \in 1..Len(drafts) : Ahead(k)' <=> Ahead(k)
  BY <1>1, <1>2, <1>10 DEF Grown, Claimants, Ahead
<1>12. ToSet(lookup.entries) = {d} \cup ToSet(rest)
  <2>1. \A x : x \in ToSet(lookup.entries) <=> x = d \/ x \in ToSet(rest)
    <3>1. \A x : x \in ToSet(lookup.entries)
                   <=> \E k \in 1..Len(lookup.entries) : lookup.entries[k] = x
      BY <1>5, InToSet
    <3>2. \A x : x \in ToSet(rest) <=> \E k \in 1..Len(rest) : rest[k] = x
      BY <1>5, InToSet
    <3>3. \A k \in 1..Len(lookup.entries) : k = 1 \/ k - 1 \in 1..Len(rest)
      BY <1>5
    <3>4. \A k \in 1..Len(rest) : k + 1 \in 1..Len(lookup.entries)
      BY <1>5
    <3>5. 1 \in 1..Len(lookup.entries) /\ \A k \in 1..Len(lookup.entries) : k - 1 + 1 = k
      BY <1>5
    <3>6. ASSUME NEW x, x \in ToSet(lookup.entries) PROVE x = d \/ x \in ToSet(rest)
      <4>1. PICK k \in 1..Len(lookup.entries) : lookup.entries[k] = x
        BY <3>1, <3>6
      <4>2. k = 1 \/ (k - 1 \in 1..Len(rest) /\ rest[k - 1] = x)
        BY <1>5, <3>3, <3>5, <4>1
      <4> QED BY <1>5, <3>2, <4>1, <4>2
    <3>7. ASSUME NEW x, x = d \/ x \in ToSet(rest) PROVE x \in ToSet(lookup.entries)
      <4>1. CASE x = d
        BY <1>5, <3>1, <3>5, <4>1
      <4>2. CASE x \in ToSet(rest)
        <5>1. PICK k \in 1..Len(rest) : rest[k] = x
          BY <3>2, <4>2
        <5>2. k + 1 \in 1..Len(lookup.entries) /\ lookup.entries[k + 1] = x
          BY <1>5, <3>4, <5>1
        <5> QED BY <3>1, <5>2
      <4> QED BY <3>7, <4>1, <4>2
    <3> QED BY <3>6, <3>7
  <2> QED BY <2>1
<1>13. ToSet(matches) = ToSet(lookup.matches) \cup IF Intents[d] = <<Wanted>> THEN {d} ELSE {}
  <2>1. CASE Intents[d] = <<Wanted>>
    <3>1. /\ Len(matches) = Len(lookup.matches) + 1 /\ matches[Len(lookup.matches) + 1] = d
          /\ \A k \in 1..Len(lookup.matches) : matches[k] = lookup.matches[k]
          /\ Len(lookup.matches) \in Nat
      BY <1>5, <1>7, <2>1
    <3>2. \A x : x \in ToSet(matches) <=> \E k \in 1..Len(matches) : matches[k] = x
      BY <1>9, InToSet
    <3>3. \A x : x \in ToSet(lookup.matches)
                   <=> \E k \in 1..Len(lookup.matches) : lookup.matches[k] = x
      BY <1>5, InToSet
    <3>4. \A x : x \in ToSet(matches) <=> x \in ToSet(lookup.matches) \/ x = d
      BY <3>1, <3>2, <3>3
    <3> QED BY <2>1, <3>4
  <2>2. CASE Intents[d] # <<Wanted>>
    BY <1>7, <2>2
  <2> QED BY <2>1, <2>2
<1>14. Covered'
  <2> SUFFICES ASSUME NEW c \in Claimants, c \notin ToSet(matches), c \notin ToSet(rest)
               PROVE  \E k \in 1..Len(drafts) : drafts[k] = c /\ Ahead(k)'
    BY <1>1, <1>10, <1>11 DEF Covered
  <2>1. Intents[c] = <<Wanted>>
    BY DEF Claimants
  <2>2. c \notin ToSet(lookup.matches) /\ c \notin ToSet(lookup.entries)
    BY <1>12, <1>13, <2>1
  <2> QED BY <1>2, <1>11, <2>2 DEF Covered
<1>15. ASSUME drafts = before PROVE ListedOnce'
  <2>1. ListedOnce
    BY <1>2, <1>15
  <2>2. Distinct(rest) /\ d \notin ToSet(rest)
    <3>1. Distinct(lookup.entries)
      BY <2>1 DEF ListedOnce
    <3>2. \A k \in 1..Len(rest) : k + 1 \in 1..Len(lookup.entries) /\ k + 1 # 1
      BY <1>5
    <3>3. 1 \in 1..Len(lookup.entries) /\ Len(rest) \in Nat
      BY <1>5
    <3>4. Distinct(rest)
      <4> SUFFICES ASSUME NEW i \in 1..Len(rest), NEW k \in 1..Len(rest), rest[i] = rest[k]
                   PROVE  i = k
        BY DEF Distinct
      <4>1. lookup.entries[i + 1] = lookup.entries[k + 1]
        BY <1>5
      <4>2. i + 1 = k + 1
        BY <3>1, <3>2, <4>1 DEF Distinct
      <4> QED BY <4>2
    <3>5. \A k \in 1..Len(rest) : rest[k] # d
      BY <1>5, <3>1, <3>2, <3>3 DEF Distinct
    <3>6. d \in ToSet(rest) <=> \E k \in 1..Len(rest) : rest[k] = d
      BY <1>5, InToSet
    <3> QED BY <3>4, <3>5, <3>6
  <2>3. Distinct(matches)
    <3>1. d \notin ToSet(lookup.matches)
      BY <1>12, <2>1 DEF ListedOnce
    <3>2. \A k \in 1..Len(lookup.matches) : lookup.matches[k] # d
      BY <1>5, <3>1, InToSet
    <3>3. Distinct(lookup.matches)
      BY <2>1 DEF ListedOnce
    <3>4. CASE Intents[d] = <<Wanted>>
      <4>1. /\ Len(matches) = Len(lookup.matches) + 1 /\ matches[Len(lookup.matches) + 1] = d
            /\ \A k \in 1..Len(lookup.matches) : matches[k] = lookup.matches[k]
            /\ Len(lookup.matches) \in Nat
        BY <1>5, <1>7, <3>4
      <4>2. \A k \in 1..Len(matches) : k \in 1..Len(lookup.matches) \/ k = Len(lookup.matches) + 1
        BY <4>1
      <4> QED BY <3>2, <3>3, <4>1, <4>2 DEF Distinct
    <3>5. CASE Intents[d] # <<Wanted>>
      BY <1>7, <3>3, <3>5
    <3> QED BY <3>4, <3>5
  <2>4. ToSet(matches) \cap ToSet(rest) = {}
    BY <1>12, <1>13, <2>1, <2>2 DEF ListedOnce
  <2>5. ToSet(matches) \subseteq Claimants
    BY <1>12, <1>13, <2>1 DEF ListedOnce, Claimants
  <2>6. ToSet(rest) \subseteq ToSet(before)
    BY <1>12, <2>1 DEF ListedOnce
  <2>7. \A k \in 1..Len(drafts) : drafts[k] \in ToSet(matches) \cup ToSet(rest) => ~ Ahead(k)'
    BY <1>11, <1>12, <1>13, <2>1 DEF ListedOnce
  <2> QED BY <1>1, <1>10, <1>11, <2>2, <2>3, <2>4, <2>5, <2>6, <2>7 DEF ListedOnce, Distinct
<1> QED BY <1>1, <1>2, <1>10, <1>11, <1>14, <1>15 DEF Looking, Distinct

\* The token is what tells whether there are drafts to come.
LEMMA TurnKeeps ==
  ASSUME ListingInv, Turn
  PROVE  ListingInv'
<1> USE DraftListingAssumption
<1> SUFFICES ASSUME discarded' = {}, lookup'.at # "raised" PROVE Looking'
  BY DEF ListingInv
<1>1. /\ Looking /\ lookup.at = "comparing" /\ lookup.entries = <<>>
      /\ UNCHANGED <<drafts, before>>
  BY DEF Turn, ListingInv
<1>2. /\ drafts \in Seq(Draft) /\ Distinct(drafts) /\ before \in Seq(Draft) /\ lookup \in Lookups
      /\ Grown /\ Covered /\ (drafts = before => ListedOnce)
  BY <1>1 DEF Looking
<1>3. PICK answer : answer = Answer
  OBVIOUS
<1>4. answer \in Draft \cup {Nothing}
  <2>1. lookup.matches \in Seq(Draft)
    BY <1>2 DEF Lookups
  <2> QED BY <1>3, <2>1 DEF Answer
<1>5. \/ lookup.token # Nothing /\ lookup' = [lookup EXCEPT !.at = "listing"]
      \/ lookup' = [lookup EXCEPT !.at = "over", !.answer = answer]
  BY <1>3 DEF Turn
<1>6. /\ lookup' \in Lookups /\ lookup'.at \in {"listing", "over"}
      /\ lookup'.token = lookup.token /\ lookup'.entries = <<>>
      /\ lookup'.matches = lookup.matches
      /\ lookup'.at = "listing" => lookup.token # Nothing
      /\ lookup'.at = "over" => lookup'.answer = answer
  BY <1>1, <1>2, <1>4, <1>5 DEF Lookups
<1>7. Answer' = answer
  BY <1>3, <1>6 DEF Answer
<1>8. /\ Grown' /\ Claimants' = Claimants
      /\ \A k \in 1..Len(drafts) : Ahead(k)' <=> Ahead(k)
  BY <1>1, <1>2, <1>6 DEF Grown, Claimants, Ahead
<1>9. Covered'
  BY <1>1, <1>2, <1>6, <1>8 DEF Covered
<1>10. ASSUME drafts = before PROVE ListedOnce'
  BY <1>1, <1>2, <1>6, <1>8, <1>10 DEF ListedOnce, Distinct
<1> QED BY <1>1, <1>2, <1>6, <1>7, <1>8, <1>9, <1>10 DEF Looking, Distinct

\* A lookup that failed answers nothing.
LEMMA FailKeeps ==
  ASSUME ListingInv, Fail
  PROVE  ListingInv'
<1> SUFFICES ASSUME discarded = {} PROVE lookup'.at = "raised"
  BY DEF ListingInv, Fail
<1>1. lookup \in Lookups
  BY DEF ListingInv, Looking, Fail
<1> QED BY <1>1 DEF Fail, Lookups

\* What left the mailbox ends what is known of it.
LEMMA ListingIsKept == ListingSpec => []ListingInv
<1>1. ASSUME ListingInv, [ListingNext]_listingVars PROVE ListingInv'
  <2>1. CASE \E d \in Draft : Save(d)
    BY <1>1, <2>1, SaveKeeps
  <2>2. CASE \E d \in Draft : Discard(d)
    <3>1. discarded' # {}
      BY <2>2 DEF Discard
    <3> QED BY <3>1 DEF ListingInv
  <2>3. CASE Begin
    BY <1>1, <2>3, BeginKeeps
  <2>4. CASE List
    BY <1>1, <2>4, ListKeeps
  <2>5. CASE Compare
    BY <1>1, <2>5, CompareKeeps
  <2>6. CASE Turn
    BY <1>1, <2>6, TurnKeeps
  <2>7. CASE Fail
    BY <1>1, <2>7, FailKeeps
  <2>8. CASE UNCHANGED listingVars
    BY <1>1, <2>8 DEF ListingInv, Looking, Lookups, Asleep, Answer, Distinct, Grown, Covered,
                      ListedOnce, Claimants, Ahead, listingVars
  <2> QED BY <1>1, <2>1, <2>2, <2>3, <2>4, <2>5, <2>6, <2>7, <2>8 DEF ListingNext
<1> QED BY <1>1, ListingStarts, PTL DEF ListingSpec

\* What the lookup takes for a draft of the intent is one, whatever else goes on.
Claiming == {d \in Draft : Intents[d] = <<Wanted>>}

ClaimsInv ==
  /\ drafts \in Seq(Draft)
  /\ lookup \in [at : {"asleep", "listing", "comparing", "over", "raised"},
                 token : Nat \cup {Nothing}, pages : Nat, entries : Seq(Draft),
                 matches : Seq(Claiming), answer : Claiming \cup {Nothing}]

LEMMA ListClaims ==
  ASSUME ClaimsInv, List
  PROVE  ClaimsInv'
<1> USE DraftListingAssumption
<1>1. PICK from \in Nat : from = IF lookup.token = Nothing THEN 0 ELSE lookup.token
  BY DEF ClaimsInv
<1>2. PICK upto \in from..(from + PageSize) :
        lookup' = [lookup EXCEPT !.at = "comparing", !.pages = @ + 1,
                     !.entries = SubSeq(drafts, from + 1, IF upto < Len(drafts) THEN upto
                                                                             ELSE Len(drafts)),
                     !.token = IF upto < Len(drafts) THEN upto ELSE Nothing]
  BY <1>1, Zenon DEF List
<1>3. Len(drafts) \in Nat /\ drafts \in Seq(Draft) /\ upto \in Nat
  BY DEF ClaimsInv
<1>4. PICK last \in Nat : last = IF upto < Len(drafts) THEN upto ELSE Len(drafts)
  BY <1>3
<1>5. PICK token : token = IF upto < Len(drafts) THEN upto ELSE Nothing
  OBVIOUS
<1>6. PICK page : page = SubSeq(drafts, from + 1, last)
  OBVIOUS
<1>7. last <= Len(drafts)
  BY <1>3, <1>4
<1>8. page \in Seq(Draft) /\ token \in Nat \cup {Nothing} /\ lookup.pages + 1 \in Nat
  BY <1>3, <1>5, <1>6, <1>7, PageIs DEF ClaimsInv
<1>9. lookup' = [lookup EXCEPT !.at = "comparing", !.pages = @ + 1, !.entries = page,
                   !.token = token]
  BY <1>2, <1>4, <1>5, <1>6
<1>10. lookup' = [at |-> "comparing", token |-> token, pages |-> lookup.pages + 1,
                  entries |-> page, matches |-> lookup.matches, answer |-> lookup.answer]
  BY <1>9 DEF ClaimsInv
<1> QED BY <1>8, <1>10 DEF List, ClaimsInv

LEMMA ClaimsAreKept == ListingSpec => []ClaimsInv
<1> USE DraftListingAssumption
<1>1. ListingInit => ClaimsInv
  BY DEF ListingInit, ClaimsInv, Asleep
<1>2. ASSUME ClaimsInv, [ListingNext]_listingVars PROVE ClaimsInv'
  <2>1. ASSUME NEW d \in Draft, Save(d) PROVE ClaimsInv'
    BY <1>2, <2>1 DEF Save, ClaimsInv
  <2>2. ASSUME NEW d \in Draft, Discard(d) PROVE ClaimsInv'
    <3>1. PICK k \in DOMAIN drafts : drafts' = RemoveAt(drafts, k)
      BY <2>2 DEF Discard
    <3>2. drafts' \in Seq(Draft)
      <4>1. drafts \in Seq(Draft) /\ Len(drafts) \in Nat /\ k \in 1..Len(drafts)
        BY <1>2 DEF ClaimsInv
      <4>2. SubSeq(drafts, 0 + 1, k - 1) \in Seq(Draft)
        BY <4>1, PageIs
      <4>3. SubSeq(drafts, k + 1, Len(drafts)) \in Seq(Draft)
        BY <4>1, PageIs
      <4> QED BY <3>1, <4>2, <4>3 DEF RemoveAt
    <3> QED BY <1>2, <2>2, <3>2 DEF Discard, ClaimsInv
  <2>3. CASE Begin
    BY <1>2, <2>3 DEF Begin, ClaimsInv, Asleep
  <2>4. CASE List
    BY <1>2, <2>4, ListClaims
  <2>5. CASE Compare
    <3> DEFINE d == Head(lookup.entries)
    <3>1. d \in Draft /\ Tail(lookup.entries) \in Seq(Draft)
      BY <1>2, <2>5 DEF Compare, ClaimsInv
    <3>2. ASSUME MetadataIntent(d) = Wanted PROVE d \in Claiming
      <4>1. Intents[d] \in Seq({Wanted, Nothing}) /\ Len(Intents[d]) = 1 /\ Intents[d][1] = Wanted
        BY <3>1, <3>2 DEF MetadataIntent
      <4>2. Intents[d] = <<Wanted>>
        BY <4>1
      <4> QED BY <3>1, <4>2 DEF Claiming
    <3> DEFINE found == IF MetadataIntent(d) = Wanted THEN Append(lookup.matches, d)
                                                     ELSE lookup.matches
    <3>3. found \in Seq(Claiming)
      BY <1>2, <3>2 DEF ClaimsInv
    <3>4. lookup' = [lookup EXCEPT !.entries = Tail(lookup.entries), !.matches = found]
      BY <2>5 DEF Compare
    <3> HIDE DEF found
    <3> QED BY <1>2, <2>5, <3>1, <3>3, <3>4 DEF Compare, ClaimsInv
  <2>6. CASE Turn
    <3>1. Answer \in Claiming \cup {Nothing}
      BY <1>2 DEF Answer, ClaimsInv
    <3>2. \/ lookup' = [lookup EXCEPT !.at = "listing"]
          \/ lookup' = [lookup EXCEPT !.at = "over", !.answer = Answer]
      BY <2>6 DEF Turn
    <3> QED BY <1>2, <2>6, <3>1, <3>2 DEF Turn, ClaimsInv
  <2>7. CASE Fail
    BY <1>2, <2>7 DEF Fail, ClaimsInv
  <2>8. CASE UNCHANGED listingVars
    BY <1>2, <2>8 DEF ClaimsInv, listingVars
  <2> QED BY <1>2, <2>1, <2>2, <2>3, <2>4, <2>5, <2>6, <2>7, <2>8 DEF ListingNext
<1> QED BY <1>1, <1>2, PTL DEF ListingSpec

\* Whatever is saved, sent or deleted while the pages are read, lookup() answers with None or with
\* a draft that carries the intent and no other.  This is all that Lookup of Outward supposes.
THEOREM AnswersClaim == ListingSpec => [](lookup.answer \in Claiming \cup {Nothing})
<1>1. ClaimsInv => lookup.answer \in Claiming \cup {Nothing}
  BY DEF ClaimsInv
<1> QED BY <1>1, ClaimsAreKept, PTL

\* For any drafts, page sizes and page budgets, a receipt names a draft that no other draft of
\* an undiminished mailbox disputes, and the only claimant of an unchanged one is found
\* (GmailDrafts.lookup() in communications/gmail_draft.py).
THEOREM ReceiptUndisputed == ListingSpec => []ReceiptIsUndisputed
<1>1. ListingInv => ReceiptIsUndisputed
  <2> USE DraftListingAssumption
  <2> SUFFICES ASSUME ListingInv, lookup.at = "over", discarded = {}
               PROVE  /\ lookup.answer # Nothing => Claimants \subseteq {lookup.answer}
                      /\ drafts = before /\ lookup.token = Nothing =>
                           \A d \in Claimants : Claimants = {d} => lookup.answer = d
    BY DEF ReceiptIsUndisputed
  <2>1. /\ drafts \in Seq(Draft) /\ lookup \in Lookups /\ lookup.entries = <<>>
        /\ lookup.answer = Answer /\ Covered /\ (drafts = before => ListedOnce)
    BY DEF ListingInv, Looking
  <2>2. lookup.matches \in Seq(Draft) /\ ToSet(lookup.entries) = {}
    BY <2>1 DEF Lookups, ToSet
  <2>3. lookup.token = Nothing => Claimants \subseteq ToSet(lookup.matches)
    BY <2>1, <2>2 DEF Covered, Ahead
  <2>4. Len(lookup.matches) = 1 => ToSet(lookup.matches) = {lookup.matches[1]}
    <3>1. ASSUME Len(lookup.matches) = 1, NEW x
          PROVE  x \in ToSet(lookup.matches) <=> x = lookup.matches[1]
      <4>1. x \in ToSet(lookup.matches)
              <=> \E k \in 1..Len(lookup.matches) : lookup.matches[k] = x
        BY <2>2, InToSet
      <4> QED BY <3>1, <4>1
    <3> QED BY <3>1
  <2>5. ASSUME lookup.answer # Nothing PROVE Claimants \subseteq {lookup.answer}
    <3>1. /\ lookup.token = Nothing /\ Len(lookup.matches) = 1
          /\ lookup.answer = lookup.matches[1]
      BY <2>1, <2>5 DEF Answer
    <3> QED BY <2>3, <2>4, <3>1
  <2>6. ASSUME drafts = before, lookup.token = Nothing, NEW d \in Claimants, Claimants = {d}
        PROVE  lookup.answer = d
    <3>1. ToSet(lookup.matches) = {d} /\ Distinct(lookup.matches)
      BY <2>1, <2>3, <2>6 DEF ListedOnce
    <3>2. \A k \in 1..Len(lookup.matches) : lookup.matches[k] = d
      BY <2>2, <3>1, InToSet
    <3>3. PICK k \in 1..Len(lookup.matches) : lookup.matches[k] = d
      BY <2>2, <3>1, InToSet
    <3>4. 1 \in 1..Len(lookup.matches) /\ Len(lookup.matches) \in Nat
      BY <2>2, <3>3
    <3>5. Len(lookup.matches) = 1
      <4>1. PICK n \in Nat : n = Len(lookup.matches)
        BY <3>4
      <4>2. n >= 1
        BY <3>4, <4>1
      <4>3. ASSUME n > 1 PROVE FALSE
        <5>1. 2 \in 1..n /\ 1 # 2 /\ 1 \in 1..n
          BY <4>3
        <5> QED BY <3>1, <3>2, <4>1, <5>1 DEF Distinct
      <4>4. n = 1
        BY <4>2, <4>3
      <4> QED BY <4>1, <4>4
    <3> QED BY <2>1, <2>6, <3>2, <3>4, <3>5 DEF Answer
  <2> QED BY <2>5, <2>6
<1> QED BY <1>1, ListingIsKept, PTL
=============================================================================
