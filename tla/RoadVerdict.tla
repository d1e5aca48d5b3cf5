----------------------------- MODULE RoadVerdict -----------------------------
(***************************************************************************)
(* The verdict on an answer of the BISAG road service.  The service lists  *)
(* the roads around the user with their distances; the application refuses *)
(* a complaint that is too far from a road, and posts the others with one  *)
(* road of the list.  InputActivity2 (the form) and                        *)
(* OfflineComplainListDataAdapter (the card of a queued complaint) hold    *)
(* the same loop and differ in what the user sees.                         *)
(*                                                                         *)
(* Distances are multiples of an arbitrary unit; Limit is the 1.5 of the   *)
(* code in that unit.                                                      *)
(***************************************************************************)
EXTENDS Integers, Sequences

CONSTANTS
  Distance,    \* the distances the service may report
  Limit,       \* the largest distance that is accepted
  MaxRoads     \* bound: roads in an answer

DistanceAssumption == Distance \subseteq Nat /\ Limit \in Nat /\ MaxRoads \in Nat

VARIABLES
  screen,      \* "form" or "card": who asked
  response,    \* the distances the service answered, in its order
  outcome,     \* what became of the complaint
  index,       \* the road posted with it, 0 before
  dialog       \* the user is told that the road is too far

vars == <<screen, response, outcome, index, dialog>>

Outcome == {"asked", "far", "posted", "crashed", "closed"}

Answers == UNION {[1..n -> Distance] : n \in 0..MaxRoads}

TypeOK ==
  /\ screen \in {"form", "card"}
  /\ response \in Answers
  /\ outcome \in Outcome
  /\ index \in 0..MaxRoads
  /\ dialog \in BOOLEAN

Init ==
  /\ screen \in {"form", "card"}
  /\ response \in Answers
  /\ outcome = "asked"
  /\ index = 0
  /\ dialog = FALSE

-----------------------------------------------------------------------------
\* mutant: the minimum starts from zero
StartFromZero(r) == [minD |-> 0, index |-> 1]

\* minD starts as the first distance, index at the first road.
Start(r) == [minD |-> r[1], index |-> 1]

\* mutant: the loop body keeps the index of the first road
KeepFirst(r, i, scan) == [scan EXCEPT !.index = 1]

\* mutant: the index is the one after the loop's last increment
CountOn(r, i, scan) ==
  [minD |-> IF scan.minD > r[1] THEN r[1] ELSE scan.minD, index |-> i + 1]

\* The loop body. It remembers the road it is at, and compares the minimum with
\* the first distance, not with that of the road.
Visit(r, i, scan) ==
  [minD |-> IF scan.minD > r[1] THEN r[1] ELSE scan.minD, index |-> i]

\* The loop over all roads.
Scan(r) ==
  LET after[i \in 0..Len(r)] ==
        IF i = 0 THEN Start(r) ELSE Visit(r, i, after[i - 1])
  IN  after[Len(r)]

TooFar(r) == Scan(r).minD > Limit

\* response.get(0) throws on an empty list; nothing catches it.
EmptyAnswer ==
  /\ outcome = "asked"
  /\ response = <<>>
  /\ outcome' = "crashed"
  /\ UNCHANGED <<screen, response, index, dialog>>

\* The form shows a dialog whose button closes the form.
FormRefuses ==
  /\ outcome = "asked"
  /\ screen = "form"
  /\ response # <<>>
  /\ TooFar(response)
  /\ outcome' = "far"
  /\ dialog' = TRUE
  /\ UNCHANGED <<screen, response, index>>

\* The card builds the same dialog and returns without showing it: the user of
\* a refused card is told nothing.
CardRefuses ==
  /\ outcome = "asked"
  /\ screen = "card"
  /\ response # <<>>
  /\ TooFar(response)
  /\ outcome' = "far"
  /\ UNCHANGED <<screen, response, index, dialog>>

\* Both post the complaint with response.get(index).
Post ==
  /\ outcome = "asked"
  /\ response # <<>>
  /\ ~TooFar(response)
  /\ outcome' = "posted"
  /\ index' = Scan(response).index
  /\ UNCHANGED <<screen, response, dialog>>

\* The button of the form's dialog calls finish().
DialogOk ==
  /\ dialog
  /\ dialog' = FALSE
  /\ outcome' = "closed"
  /\ UNCHANGED <<screen, response, index>>

Next == EmptyAnswer \/ FormRefuses \/ CardRefuses \/ Post \/ DialogOk

Spec == Init /\ [][Next]_vars

-----------------------------------------------------------------------------
(* Properties. *)

Roads == DOMAIN response

\* The roads no other road is nearer than: what the loop is there to find.
Nearest == {i \in Roads : \A j \in Roads : response[i] <= response[j]}

\* A complaint is never posted by a user who is too far from every road of the
\* answer, and, when the service lists the nearest road first, never refused
\* near one: comparing get(0) only does no harm then.
VerdictSound ==
  /\ outcome = "posted" => \E i \in Roads : response[i] <= Limit
  /\ (1 \in Nearest /\ outcome \in {"far", "closed"})
       => \A i \in Roads : response[i] > Limit

\* The posted road is the nearest one if the service lists the nearest last, in
\* particular if it lists one road.
PostedRoadWhenNearestLast ==
  (outcome = "posted" /\ Len(response) \in Nearest) => index \in Nearest

\* What the comment above the verdict says of a refusal: the user is "too far
\* away from road". The code refuses next to a road that is not listed first.
RefusedOnlyTooFar ==
  outcome = "far" => \A i \in Roads : response[i] > Limit
=============================================================================
