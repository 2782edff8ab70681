------------------------------- MODULE Markup -------------------------------
(***************************************************************************)
(* What of an HTML body is read as text: _VisibleHTML in                   *)
(* communications/message.py, which keeps a stack of tags only while it is *)
(* inside something concealed.  Links, line breaks and title prefixes are  *)
(* left out.                                                               *)
(***************************************************************************)
EXTENDS Integers, Sequences

CONSTANTS
  Tag,       \* tag names
  Skip,      \* SKIP: tags whose content is never text
  Void,      \* VOID: tags that have no end tag
  MaxEvent   \* bound: tags in one body

ASSUME MarkupAssumption ==
  Skip \subseteq Tag /\ Void \subseteq Tag /\ Skip \cap Void = {} /\ MaxEvent \in Nat

VARIABLES
  hidden,  \* self.hidden: the open tags from the outermost concealed one inwards
  open,    \* the elements that are open, if every end tag so far closed the innermost
  nested,  \* whether it did
  events   \* how many tags were read

markupVars == <<hidden, open, nested, events>>

Element == [tag : Tag \ Void, conceals : BOOLEAN]

Another == events < MaxEvent /\ events' = events + 1

\* Mutant: elements inside a concealed one are not counted.
HidesOutermost(tag, conceals) == tag \notin Void /\ hidden = <<>> /\ (tag \in Skip \/ conceals)

\* The element is concealed or in one that is, and has an end tag to wait for.
Hides(tag, conceals) == tag \notin Void /\ (hidden # <<>> \/ tag \in Skip \/ conceals)

\* handle_starttag(); `conceals` is what _conceals() makes of the attributes.
StartTag(tag, conceals) ==
  /\ Another
  /\ hidden' = IF Hides(tag, conceals) THEN Append(hidden, tag) ELSE hidden
  /\ open' = IF tag \in Void THEN open
             ELSE Append(open, [tag |-> tag, conceals |-> tag \in Skip \/ conceals])
  /\ UNCHANGED nested

\* The stack with everything from the last `tag` on popped.
Popped(stack, tag) ==
  LET last == CHOOSE k \in DOMAIN stack :
                stack[k] = tag /\ \A i \in DOMAIN stack : stack[i] = tag => i <= k IN
  SubSeq(stack, 1, last - 1)

\* handle_endtag(): an end tag that nothing concealed is waiting for is ignored.
EndTag(tag) ==
  /\ Another
  /\ hidden' = IF \E k \in DOMAIN hidden : hidden[k] = tag THEN Popped(hidden, tag) ELSE hidden
  /\ IF open # <<>> /\ open[Len(open)].tag = tag
       THEN open' = SubSeq(open, 1, Len(open) - 1) /\ UNCHANGED nested
       ELSE nested' = FALSE /\ UNCHANGED open

\* handle_data() keeps what arrives now, and close() accepts the body if it ends here.
Visible == hidden = <<>>

MarkupInit == hidden = <<>> /\ open = <<>> /\ nested = TRUE /\ events = 0

MarkupNext ==
  \/ \E tag \in Tag, conceals \in BOOLEAN : StartTag(tag, conceals)
  \/ \E tag \in Tag \ Void : EndTag(tag)

MarkupSpec == MarkupInit /\ [][MarkupNext]_markupVars

-----------------------------------------------------------------------------
\* As long as tags are nested, text is read exactly where no element that is open conceals
\* it, however deep and whatever the elements inside are called; and the body is accepted
\* exactly where a reader of it would have come back out of everything concealed.
VisibleIsUnconcealed ==
  nested => (Visible <=> \A k \in DOMAIN open : ~open[k].conceals)
=============================================================================
