----------------------------- MODULE MC_AppScreens -----------------------------
(* The parts of the application that share no state, one of them per          *)
(* behaviour: the notifications, the task of activities, the filter and the   *)
(* road verdict.  The others stay in an initial state.                        *)
EXTENDS Integers, Sequences, TLC

CONSTANTS Complaint, Fetch, MaxStatus, MaxUpdates,
          MaxTask, MaxLate, MaxAsked, Grievances, Statuses, Spaced, MaxDay, Distance, Limit, MaxRoads

VARIABLES part,
  posted, update, due, complaintStatus, estimatedTime, notified, silent, running, fetch, answer, excused, overlapped,
  task, late, asked, login, firstTime, fromHelp, leftover,
  row, open, language, dialog, error, start, end, grievance, status, shown, outdated,
  screen, response, outcome, index, refusal

Notes == INSTANCE Notifications
Nav == INSTANCE AppNavigation
Filter == INSTANCE ComplaintFilter
Verdict == INSTANCE RoadVerdict WITH dialog <- refusal

notesVars == <<posted, update, due, complaintStatus, estimatedTime, notified, silent, running, fetch, answer, excused, overlapped>>
navVars == <<task, late, asked, login, firstTime, fromHelp, leftover>>
filterVars == <<row, open, language, dialog, error, start, end, grievance, status, shown, outdated>>
verdictVars == <<screen, response, outcome, index, refusal>>
vars == <<part, notesVars, navVars, filterVars, verdictVars>>

ASSUME BoundsAssumption ==
  Notes!BoundsAssumption /\ Nav!BoundsAssumption /\ Filter!NumbersAssumption /\ Verdict!DistanceAssumption

Init ==
  /\ part \in {"notes", "nav", "filter", "verdict"}
  /\ Notes!Init /\ Nav!Init /\ Filter!Init /\ Verdict!Init
  /\ part # "verdict" => screen = "form" /\ response = <<>>

Next ==
  /\ UNCHANGED part
  /\ \/ part = "notes" /\ Notes!Next /\ UNCHANGED <<navVars, filterVars, verdictVars>>
     \/ part = "nav" /\ Nav!Next /\ UNCHANGED <<notesVars, filterVars, verdictVars>>
     \/ part = "filter" /\ Filter!Next /\ UNCHANGED <<notesVars, navVars, verdictVars>>
     \/ part = "verdict" /\ Verdict!Next /\ UNCHANGED <<notesVars, navVars, filterVars>>

Spec == Init /\ [][Next]_vars

MCSymmetry == Permutations(Complaint) \cup Permutations(Fetch)

-----------------------------------------------------------------------------
(* Properties *)

\* Every variable of the part that runs has its type.
TypesHold ==
  /\ part = "notes" => Notes!TypeOK
  /\ part = "nav" => Nav!TypeOK
  /\ part = "filter" => Filter!TypeOK
  /\ part = "verdict" => Verdict!TypeOK

\* Complaints and notifications agree, and no update is missed without a cause.
UpdatesAreShown == part = "notes" => Notes!NotesMatchStatus /\ Notes!UpdatesArrive

\* A status falls back only by the answer of a fetch that met another one; the login screen comes back by the back key only.
ScreensGoForward ==
  [][/\ part = "notes" => Notes!StatusGoesOn
     /\ part = "nav" => Nav!LoginScreenGone]_vars

\* Nobody sees the home without a login, but over what a logout or the help's flag left in the task.
HomeNeedsLogin == part = "nav" => Nav!HomeNeedsLogin

\* The list of the filter is what its criteria ask for.
ListMatchesCriteria == part = "filter" => Filter!ListMatchesCriteria

\* A complaint is posted only near a road of the answer, with the nearest one if the service lists it last.
RoadIsRight == part = "verdict" => Verdict!VerdictSound /\ Verdict!PostedRoadWhenNearestLast
=============================================================================
