------------------------------ MODULE MCStore -------------------------------
(* Constant values for checking starts on one database file. *)
EXTENDS Store, TLC

CONSTANTS p1, p2, p3, old, new, edited, v1, v2, text, retouched

v1Text == [version |-> v1, digest |-> text]
v2Text == [version |-> v2, digest |-> text]

\* A release, the next one, and one whose first migration was edited after it was applied.
ThreeReleases ==
  (old :> <<v1Text>>) @@ (new :> <<v1Text, v2Text>>)
    @@ (edited :> <<[version |-> v1, digest |-> retouched], v2Text>>)

OneOrTwo == [f \in File |-> IF f.version = v1 THEN 2 ELSE 1]
=============================================================================
