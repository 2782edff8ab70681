---------------------------- MODULE DraftPromise ----------------------------
(***************************************************************************)
(* What the outward commands promise about one review and the world: an    *)
(* attempt is reserved before the provider is asked for a draft, released  *)
(* only when no draft exists or can still appear, confirmed only when one  *)
(* does, and never reopened.                                               *)
(***************************************************************************)
CONSTANT Review

VARIABLES
  attempt,  \* review -> what the record says of its attempt
  created   \* the reviews a provider draft exists for

vars == <<attempt, created>>

TypeOK ==
  /\ attempt \in [Review -> {"none", "attempting", "uncertain", "confirmed"}]
  /\ created \subseteq Review

Move(r, from, to) ==
  /\ attempt[r] \in from
  /\ attempt' = [attempt EXCEPT ![r] = to]
  /\ UNCHANGED created

Reserve(r) == r \notin created /\ Move(r, {"none"}, "attempting")

\* A draft may appear while the attempt is unsettled, once, and then only.
Create(r) ==
  /\ attempt[r] \in {"attempting", "uncertain"}
  /\ r \notin created
  /\ created' = created \cup {r}
  /\ UNCHANGED attempt

LoseTrack(r) == Move(r, {"attempting"}, "uncertain")

Confirm(r) == r \in created /\ Move(r, {"attempting", "uncertain"}, "confirmed")

Release(r) == r \notin created /\ Move(r, {"attempting"}, "none")

Init == attempt = [r \in Review |-> "none"] /\ created = {}

Next ==
  \E r \in Review :
    Reserve(r) \/ Create(r) \/ LoseTrack(r) \/ Confirm(r) \/ Release(r)

Spec == Init /\ [][Next]_vars
=============================================================================
