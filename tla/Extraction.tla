----------------------------- MODULE Extraction -----------------------------
(***************************************************************************)
(* Labeled text: how extract() in recruiting/extraction.py gathers lines   *)
(* into items and which items become opportunities.  The loop over the     *)
(* lines is the state machine, so the text read so far is always a whole   *)
(* input of its own; a line that is no field only adds to an excerpt and   *)
(* is left out.                                                            *)
(***************************************************************************)
EXTENDS Integers, Sequences, FiniteSets

CONSTANTS
  Line,       \* the labeled lines that may come: a field and a value
  Blank,      \* the value of a field with nothing after the colon
  Clean,      \* clean() and casefold(), as a function of values
  Canonical,  \* canonical_url(), as a function of values; None where it raises
  None,
  MaxLine     \* bound: lines of one text

Required == {"title", "company", "url"}
Field == Required \cup {"location", "skills"}

\* Opportunities: None is no one of them.
Job ==
  [Field -> {Clean[v] : v \in DOMAIN Clean} \cup {Canonical[v] : v \in DOMAIN Canonical}]

ASSUME ExtractionAssumption ==
  /\ \A line \in Line : line.field \in Field /\ line.value \in DOMAIN Clean \cap DOMAIN Canonical
  /\ Blank \in DOMAIN Clean /\ Clean[Blank] = Blank
  /\ None \notin Job
  /\ MaxLine \in Nat

VARIABLES
  lines,      \* what was read
  fields,     \* the fields of the item being read, and their values
  conflicts,  \* those that were given two values
  blocks      \* the items that are finished

extractionVars == <<lines, fields, conflicts, blocks>>

NoFields == [f \in {} |-> Blank]

\* normalize(): an absent field is an empty one.
Opportunity(values) ==
  [f \in Field |->
     IF f \notin DOMAIN values THEN Blank
     ELSE IF f = "url" THEN Canonical[values[f]] ELSE Clean[values[f]]]

Rejected(reason) == [job |-> None, reason |-> reason]

\* finish(): the reasons in the order they are looked for.
Finished ==
  IF conflicts # {} THEN Rejected("conflicting fields")
  ELSE IF \E f \in Required : f \notin DOMAIN fields \/ fields[f] = Blank
         THEN Rejected("missing fields")
  ELSE IF Canonical[fields["url"]] = None THEN Rejected("unusable url")
  ELSE [job |-> Opportunity(fields), reason |-> "none"]

\* Mutant: an item starts with the conflicts of the one before.
ReadLineCarries(line) ==
  LET starts == line.field = "title" /\ "title" \in DOMAIN fields
      kept == IF starts THEN NoFields ELSE fields IN
  /\ Len(lines) < MaxLine
  /\ blocks' = IF starts THEN Append(blocks, Finished) ELSE blocks
  /\ conflicts' = conflicts
       \cup {f \in {line.field} \cap DOMAIN kept : kept[f] # line.value}
  /\ fields' = [f \in DOMAIN kept \cup {line.field} |->
                  IF f = line.field THEN line.value ELSE kept[f]]
  /\ lines' = Append(lines, line)

\* A second title finishes the item and starts the next one.
ReadLine(line) ==
  LET starts == line.field = "title" /\ "title" \in DOMAIN fields
      kept == IF starts THEN NoFields ELSE fields IN
  /\ Len(lines) < MaxLine
  /\ blocks' = IF starts THEN Append(blocks, Finished) ELSE blocks
  /\ conflicts' = (IF starts THEN {} ELSE conflicts)
       \cup {f \in {line.field} \cap DOMAIN kept : kept[f] # line.value}
  /\ fields' = [f \in DOMAIN kept \cup {line.field} |->
                  IF f = line.field THEN line.value ELSE kept[f]]
  /\ lines' = Append(lines, line)

\* reject_conflicts(): the urls that two items of one message use for different versions.
Ambiguous(items) ==
  {items[i].job["url"] : i \in {i \in DOMAIN items : items[i].job # None
     /\ \E k \in 1..(i - 1) : /\ items[k].job # None
                              /\ items[k].job["url"] = items[i].job["url"]
                              /\ items[k].job # items[i].job}}

\* What extract() returns for the lines so far.
Extracted ==
  LET items == IF DOMAIN fields = {} THEN blocks ELSE Append(blocks, Finished) IN
  [i \in DOMAIN items |->
     IF items[i].job # None /\ items[i].job["url"] \in Ambiguous(items)
       THEN Rejected("conflicting versions") ELSE items[i]]

ExtractionInit ==
  /\ lines = <<>> /\ fields = NoFields /\ conflicts = {} /\ blocks = <<>>

ExtractionNext == \E line \in Line : ReadLine(line)

ExtractionSpec == ExtractionInit /\ [][ExtractionNext]_extractionVars

-----------------------------------------------------------------------------
(* The same by looking at the whole text. *)

IsTitle(k) == lines[k].field = "title"

\* The first line starts an item, and every title that follows another title.
Starts ==
  {k \in DOMAIN lines : k = 1 \/ (IsTitle(k) /\ \E i \in 1..(k - 1) : IsTitle(i))}

ItemOf(k) == Cardinality({s \in Starts : s <= k})

ValuesOf(i, f) == {lines[k].value : k \in {k \in DOMAIN lines : ItemOf(k) = i /\ lines[k].field = f}}

\* No field has two values, and every required one has a value that can be used.
Sound(i) ==
  /\ \A f \in Field : Cardinality(ValuesOf(i, f)) <= 1
  /\ \A f \in Required : ValuesOf(i, f) \notin {{}, {Blank}}
  /\ \A v \in ValuesOf(i, "url") : Canonical[v] # None

JobOf(i) ==
  Opportunity([f \in {f \in Field : ValuesOf(i, f) # {}} |-> CHOOSE v \in ValuesOf(i, f) : TRUE])

\* "Each Title/Role starts an independent item; missing values are never guessed": an item
\* becomes an opportunity exactly when its own lines give every required field one value and
\* no field two, and no other sound item of the text describes the same url differently; and
\* it is then made of its own lines alone, whatever was read before or is read after.
ItemsAreIndependent ==
  LET items == Extracted
      jobs == [i \in {i \in 1..Cardinality(Starts) : Sound(i)} |-> JobOf(i)]
      distinct == {i \in DOMAIN jobs : \A k \in DOMAIN jobs :
                     jobs[k]["url"] = jobs[i]["url"] => jobs[k] = jobs[i]} IN
  /\ Len(items) = Cardinality(Starts)
  /\ \A i \in DOMAIN items : items[i].job = IF i \in distinct THEN jobs[i] ELSE None
=============================================================================
