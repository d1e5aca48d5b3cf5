---------------------------- MODULE ComplaintFilter ----------------------------
(***************************************************************************)
(* FilterActivity: a dialog picks two dates, a grievance and a status, and *)
(* the list shows the rows of ComplainModel that match them. Rows change   *)
(* while the activity is open: the replies of posts and of notifications   *)
(* arrive at any time, and the list does not listen to them.               *)
(*                                                                         *)
(* A date is the number of its day. The spinners show the words of the     *)
(* language; the query compares the chosen word with the English words of  *)
(* the rows and with "ALL". A word is its language and its index: 0 is the *)
(* first item of the spinner, the one for no selection.                    *)
(***************************************************************************)
EXTENDS Naturals

CONSTANTS
  Complaint,
  Grievances, Statuses,   \* the numbers of grievances and of statuses
  Spaced,                 \* the grievances the form writes with a leading space
  MaxDay                  \* bound: the days are 1..MaxDay, the last is today

NumbersAssumption ==
  /\ Grievances \in Nat \ {0} /\ Statuses \in Nat \ {0} /\ MaxDay \in Nat \ {0}
  /\ Spaced \in SUBSET (1..Grievances)

VARIABLES
  row,           \* the row of a complaint, or NoRow
  open,          \* FilterActivity is open
  language,      \* the language of its words
  dialog,        \* the filter dialog is on the screen
  error,         \* with the message that the dates are invalid
  start, end,    \* mStartDateString, mEndDateString
  grievance, status,   \* mSelectedGrievanceIndex, mSelectedStatusIndex
  shown,         \* the complaints of the list
  outdated       \* history variable: rows or criteria changed under the list

criteria == <<start, end, grievance, status>>
activity == <<open, language, dialog, error, criteria, shown>>
vars == <<row, activity, outdated>>

Day == 1..MaxDay

\* The first status of the spinner, PENDING, and the word that the form and the
\* cards write instead, "Pending.", which is no word of the spinner.
Pending == 1
Posted == Statuses + 1

\* Day 0 is a time the date format of the query cannot read.
Row == [grievance : 1..Grievances, status : 1..Posted, time : 0..MaxDay]

NoRow == [grievance |-> 0, status |-> 0, time |-> 0]

Rows == {c \in Complaint : row[c] # NoRow}

TypeOK ==
  /\ row \in [Complaint -> Row \cup {NoRow}]
  /\ open \in BOOLEAN /\ dialog \in BOOLEAN /\ error \in BOOLEAN
  /\ language \in {"en", "hi"}
  /\ start \in Day /\ end \in Day
  /\ grievance \in 0..Grievances /\ status \in 0..Statuses
  /\ shown \in SUBSET Rows
  /\ outdated \in BOOLEAN

Init ==
  /\ row = [c \in Complaint |-> NoRow]
  /\ open = FALSE /\ dialog = FALSE /\ error = FALSE
  /\ language = "en"
  /\ start = 1 /\ end = MaxDay
  /\ grievance = 0 /\ status = 0
  /\ shown = {}
  /\ outdated = FALSE

-----------------------------------------------------------------------------
(* The query of applyFilter. *)

Word(i) == <<language, i>>

IsAll(i) == Word(i) = <<"en", 0>>

\* The server's words are those of the spinner, whatever their case.
HasStatus == {c \in Rows : <<"en", row[c].status>> = Word(status)}

\* The server's copy of a complaint has the form's word for its grievance.
RowGrievance(c) ==
  <<IF row[c].grievance \in Spaced THEN " en" ELSE "en", row[c].grievance>>

HasGrievance == {c \in Rows : RowGrievance(c) = Word(grievance)}

\* mutant: the case of one selection is decided by the other spinner
QueriedSwapped ==
  CASE IsAll(grievance) /\ IsAll(status) -> Rows
    [] IsAll(grievance) /\ ~IsAll(status) -> HasGrievance
    [] ~IsAll(grievance) /\ IsAll(status) -> HasStatus
    [] OTHER -> HasStatus \cap HasGrievance

Queried ==
  CASE IsAll(grievance) /\ IsAll(status) -> Rows
    [] IsAll(grievance) /\ ~IsAll(status) -> HasStatus
    [] ~IsAll(grievance) /\ IsAll(status) -> HasGrievance
    [] OTHER -> HasStatus \cap HasGrievance

\* A time that cannot be read leaves its row out.
InRange(t) == t # 0 /\ ((t > start /\ t < end) \/ t = start \/ t = end)

InvalidDates == end < start

-----------------------------------------------------------------------------
(* The activity. *)

\* onCreate: all rows are shown, behind the dialog.
OnCreate(l) ==
  /\ ~open
  /\ open' = TRUE /\ dialog' = TRUE /\ error' = FALSE
  /\ language' = l
  /\ start' = 1 /\ end' = MaxDay
  /\ grievance' = 0 /\ status' = 0
  /\ shown' = Rows
  /\ outdated' = TRUE
  /\ UNCHANGED row

ShowFilterDialog ==
  /\ open /\ ~dialog
  /\ dialog' = TRUE
  /\ error' = FALSE
  /\ UNCHANGED <<row, open, language, criteria, shown, outdated>>

\* mutant: the picker's months, from 0, are kept as they come
PickedFromZero(d) == d - 1

Picked(d) == d

PickStart(d) ==
  /\ dialog
  /\ start' = Picked(d)
  /\ outdated' = TRUE
  /\ UNCHANGED <<row, open, language, dialog, error, end, grievance, status, shown>>

PickEnd(d) ==
  /\ dialog
  /\ end' = Picked(d)
  /\ outdated' = TRUE
  /\ UNCHANGED <<row, open, language, dialog, error, start, grievance, status, shown>>

SelectGrievance(i) ==
  /\ dialog
  /\ grievance' = i
  /\ outdated' = TRUE
  /\ UNCHANGED <<row, open, language, dialog, error, start, end, status, shown>>

SelectStatus(i) ==
  /\ dialog
  /\ status' = i
  /\ outdated' = TRUE
  /\ UNCHANGED <<row, open, language, dialog, error, start, end, grievance, shown>>

\* Invalid dates leave the dialog and the list as they are.
ApplyFilter ==
  /\ dialog
  /\ IF InvalidDates
     THEN error' = TRUE /\ UNCHANGED <<dialog, shown, outdated>>
     ELSE /\ shown' = {c \in Queried : InRange(row[c].time)}
          /\ dialog' = FALSE
          /\ outdated' = FALSE
          /\ UNCHANGED error
  /\ UNCHANGED <<row, open, language, criteria>>

\* The button or the back key; what was picked stays.
CancelFilter ==
  /\ dialog
  /\ dialog' = FALSE
  /\ UNCHANGED <<row, open, language, error, criteria, shown, outdated>>

Close ==
  /\ open /\ ~dialog
  /\ open' = FALSE
  /\ UNCHANGED <<row, language, dialog, error, criteria, shown, outdated>>

-----------------------------------------------------------------------------
(* The Realm, written by the replies of posts and of notifications. *)

AddRow(c, r) ==
  /\ c \notin Rows
  /\ row' = [row EXCEPT ![c] = r]
  /\ outdated' = TRUE
  /\ UNCHANGED activity

UpdateStatus(c, s) ==
  /\ c \in Rows
  /\ row' = [row EXCEPT ![c].status = s]
  /\ outdated' = TRUE
  /\ UNCHANGED activity

Next ==
  \/ \E l \in {"en", "hi"} : OnCreate(l)
  \/ ShowFilterDialog \/ ApplyFilter \/ CancelFilter \/ Close
  \/ \E d \in Day : PickStart(d) \/ PickEnd(d)
  \/ \E i \in 0..Grievances : SelectGrievance(i)
  \/ \E i \in 0..Statuses : SelectStatus(i)
  \/ \E c \in Complaint :
       \/ \E r \in Row : AddRow(c, r)
       \/ \E s \in 1..Posted : UpdateStatus(c, s)

Spec == Init /\ [][Next]_vars

-----------------------------------------------------------------------------
(* Properties. *)

\* The rows that somebody who reads the dialog expects: those of the grievance
\* and of the status, if one is selected, from the first day to the last.
Wanted ==
  {c \in Rows :
     /\ grievance \in {0, row[c].grievance}
     /\ status \in {0, row[c].status} \/ (status = Pending /\ row[c].status = Posted)
     /\ row[c].time \in start..end}

\* The rows whose word the form or the card spells otherwise than the spinner.
Misspelt ==
  {c \in Rows :
     \/ grievance # 0 /\ row[c].grievance \in Spaced
     \/ status = Pending /\ row[c].status = Posted}

\* The list is what the criteria of the dialog ask for, in English and while
\* neither rows nor criteria have changed since the filter was applied, however
\* often it was applied, refused, reopened and cancelled before; except for the
\* rows that the form spells otherwise, which are never found by that word.
ListMatchesCriteria ==
  open /\ language = "en" /\ ~outdated => shown = Wanted \ Misspelt

\* No selection of grievance and status shows every row of the period, in the
\* application's other language too (the branch of applyFilter that says "no
\* selection of both field").
NoSelectionShowsAll ==
  open /\ ~outdated /\ grievance = 0 /\ status = 0 => shown = Wanted
=============================================================================
