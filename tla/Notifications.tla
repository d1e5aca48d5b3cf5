----------------------------- MODULE Notifications -----------------------------
(***************************************************************************)
(* The status of posted complaints: MainActivity asks the server for       *)
(* updates whenever it is created, and applies the answer to the rows of   *)
(* ComplainModel in one asynchronous transaction, which also stores each   *)
(* update as a notification. The lists of complaints and of notifications  *)
(* show the rows.                                                          *)
(*                                                                         *)
(* An update names a complaint by the server's id. The row exists once the *)
(* reply to the complaint's post has been copied to the Realm, and until   *)
(* a logout empties it. Which updates an answer repeats is the server's    *)
(* affair and left open.                                                   *)
(***************************************************************************)
EXTENDS Integers, FiniteSets

LOCAL INSTANCE Functions

CONSTANTS
  Complaint,
  Fetch,         \* bound: requests for updates in progress at once
  MaxStatus,     \* bound: how often the status of one complaint changes
  MaxUpdates     \* bound: how often statuses change in all

BoundsAssumption == MaxStatus \in Nat /\ MaxUpdates \in Nat

VARIABLES
  posted,        \* per complaint: how far its post is
  update,        \* per complaint: the number of its status on the server
  due,           \* the complaints whose update the server will report
  complaintStatus,   \* per row: the number of its status, -1 without a row
  estimatedTime,     \* the rows that have an estimated time
  notified,      \* per complaint: the status of its last notification with one
  silent,        \* a notification without a status is stored
  running,       \* MainActivity is open
  fetch, answer, \* per fetch: how far it is, and the updates it brings
  excused,       \* history variable: complaints that may miss an update
  overlapped     \* history variable: fetches that met another in progress

server == <<update, due>>
realm == <<complaintStatus, estimatedTime, notified, silent>>
vars == <<posted, server, realm, running, fetch, answer, excused, overlapped>>

\* What an answer says of one complaint. complaint_status and estimated_date
\* may be null: 0 and FALSE.
Update == [status : 0..MaxStatus, dated : BOOLEAN]

Busy == {f \in Fetch : fetch[f] # "idle"}

TypeOK ==
  /\ posted \in [Complaint -> {"no", "sent", "ended"}]
  /\ update \in [Complaint -> 0..MaxStatus]
  /\ due \in SUBSET Complaint
  /\ complaintStatus \in [Complaint -> -1..MaxStatus]
  /\ estimatedTime \in SUBSET {c \in Complaint : complaintStatus[c] >= 0}
  /\ notified \in [Complaint -> 0..MaxStatus]
  /\ silent \in BOOLEAN
  /\ running \in BOOLEAN
  /\ fetch \in [Fetch -> {"idle", "asked", "answered", "queued"}]
  /\ \A f \in Fetch : \E S \in SUBSET Complaint : answer[f] \in [S -> Update]
  /\ excused \in SUBSET Complaint
  /\ overlapped \subseteq Busy

Nothing == [c \in {} |-> [status |-> 0, dated |-> FALSE]]

Init ==
  /\ posted = [c \in Complaint |-> "no"]
  /\ update = [c \in Complaint |-> 0]
  /\ due = {}
  /\ complaintStatus = [c \in Complaint |-> -1]
  /\ estimatedTime = {}
  /\ notified = [c \in Complaint |-> 0]
  /\ silent = FALSE
  /\ running = FALSE
  /\ fetch = [f \in Fetch |-> "idle"]
  /\ answer = [f \in Fetch |-> Nothing]
  /\ excused = {}
  /\ overlapped = {}

-----------------------------------------------------------------------------
Row(c) == complaintStatus[c] >= 0

Carried == UNION {DOMAIN answer[f] : f \in Fetch}

EndFetch(f) ==
  /\ fetch' = [fetch EXCEPT ![f] = "idle"]
  /\ answer' = [answer EXCEPT ![f] = Nothing]
  /\ overlapped' = overlapped \ {f}

\* The process ends: what the fetches bring is lost, and so is the reply to a
\* post.
Die ==
  /\ running' = FALSE
  /\ fetch' = [f \in Fetch |-> "idle"]
  /\ answer' = [f \in Fetch |-> Nothing]
  /\ overlapped' = {}
  /\ excused' = excused \cup Carried
  /\ posted' = [c \in Complaint |->
                  IF posted[c] = "sent" THEN "ended" ELSE posted[c]]
  /\ UNCHANGED <<server, realm>>

-----------------------------------------------------------------------------
(* Complaints come from the form and from the offline cards. *)

PostComplaint(c) ==
  /\ running
  /\ posted[c] = "no"
  /\ posted' = [posted EXCEPT ![c] = "sent"]
  /\ UNCHANGED <<server, realm, running, fetch, answer, excused, overlapped>>

\* The reply is copied to the Realm as a pending complaint, or is a refusal or
\* lost.
PostReply(c) ==
  /\ posted[c] = "sent"
  /\ posted' = [posted EXCEPT ![c] = "ended"]
  /\ \/ complaintStatus' = [complaintStatus EXCEPT ![c] = 0]
     \/ UNCHANGED complaintStatus
  /\ UNCHANGED <<server, estimatedTime, notified, silent, running, fetch,
                 answer, excused, overlapped>>

ServerUpdates(c) ==
  /\ posted[c] # "no"
  /\ update[c] < MaxStatus
  /\ FoldFunction(+, 0, update) < MaxUpdates
  /\ update' = [update EXCEPT ![c] = @ + 1]
  /\ due' = due \cup {c}
  /\ UNCHANGED <<posted, realm, running, fetch, answer, excused, overlapped>>

-----------------------------------------------------------------------------
(* MainActivity.onRefreshNotification *)

\* onCreate, with or without internet. The toolbars of other activities open a
\* second MainActivity while the first one's fetch is in progress.
OnCreate ==
  /\ running' = TRUE
  /\ UNCHANGED <<posted, server, realm, fetch, answer, excused, overlapped>>

OnRefreshNotification(f) ==
  /\ running' = TRUE
  /\ fetch[f] = "idle"
  /\ fetch' = [fetch EXCEPT ![f] = "asked"]
  /\ overlapped' = IF Busy = {} THEN overlapped
                                ELSE overlapped \cup Busy \cup {f}
  /\ UNCHANGED <<posted, server, realm, answer, excused>>

\* The server answers with what is due, each update with or without its status
\* and an estimated date, and may or may not take it as reported.
ServerAnswers(f) ==
  /\ fetch[f] = "asked"
  /\ fetch' = [fetch EXCEPT ![f] = "answered"]
  /\ \E S \in SUBSET due, D \in SUBSET due :
       answer' = [answer EXCEPT ![f] =
         [c \in due |-> [status |-> IF c \in S THEN update[c] ELSE 0,
                         dated |-> c \in D]]]
  /\ \/ due' = {}
     \/ UNCHANGED due
  /\ UNCHANGED <<posted, update, realm, running, excused, overlapped>>

\* mutant: an answer with one update counts as empty
FewerThanTwo(a) == Cardinality(DOMAIN a) < 2

Empty(a) == DOMAIN a = {}

OnResponse(f) ==
  /\ fetch[f] = "answered"
  /\ IF Empty(answer[f])
     THEN EndFetch(f)
     ELSE /\ fetch' = [fetch EXCEPT ![f] = "queued"]
          /\ UNCHANGED <<answer, overlapped>>
  /\ UNCHANGED <<posted, server, realm, running, excused>>

\* A timeout or an HTTP error; the server may have taken the updates as reported.
OnFailure(f) ==
  /\ fetch[f] \in {"asked", "answered"}
  /\ EndFetch(f)
  /\ excused' = excused \cup DOMAIN answer[f]
  /\ UNCHANGED <<posted, server, realm, running>>

\* mutant: the status is set without the test for null
SetStatus(old, u) == u.status

NewStatus(old, u) == IF u.status # 0 THEN u.status ELSE old

\* mutant: an update without a status is stored as if it had one
NoteStatus(old, u) == u.status

NewNote(old, u) == IF u.status # 0 THEN u.status ELSE old

\* The transaction: every update is applied to its row and stored as a
\* notification.
Apply(f) ==
  /\ fetch[f] = "queued"
  /\ LET a == answer[f] IN
     /\ \A c \in DOMAIN a : Row(c)
     /\ complaintStatus' = [c \in Complaint |->
          IF c \in DOMAIN a THEN NewStatus(complaintStatus[c], a[c])
                            ELSE complaintStatus[c]]
     /\ notified' = [c \in Complaint |->
          IF c \in DOMAIN a THEN NewNote(notified[c], a[c]) ELSE notified[c]]
     /\ estimatedTime' = estimatedTime \cup {c \in DOMAIN a : a[c].dated}
     /\ silent' = (silent \/ \E c \in DOMAIN a : a[c].status = 0)
     /\ excused' = excused \cup
          {c \in DOMAIN a : a[c].status = 0 \/ f \in overlapped}
  /\ EndFetch(f)
  /\ UNCHANGED <<posted, server, running>>

\* An update of a complaint without a row ends the transaction by a null
\* pointer: it is rolled back, and the application, which gave no onError, ends.
UnknownComplaint(f) ==
  /\ fetch[f] = "queued"
  /\ \E c \in DOMAIN answer[f] : ~Row(c)
  /\ Die

Execute(f) == Apply(f) \/ UnknownComplaint(f)

-----------------------------------------------------------------------------
(* The lists, and the end. *)

\* A row that is no longer pending is shown with its estimated time; without
\* one that is a null pointer.
BindComplaint(c) ==
  /\ running
  /\ complaintStatus[c] > 0
  /\ c \notin estimatedTime
  /\ Die

\* A notification is shown with its status; without one that is a null pointer.
BindNotification ==
  /\ running
  /\ silent
  /\ Die

\* mutant: the estimated times outlive their rows
KeepEstimates == estimatedTime

ClearedEstimates == {}

\* The Realm is emptied; fetches and posts go on.
Logout ==
  /\ running
  /\ running' = FALSE
  /\ complaintStatus' = [c \in Complaint |-> -1]
  /\ estimatedTime' = ClearedEstimates
  /\ notified' = [c \in Complaint |-> 0]
  /\ silent' = FALSE
  /\ UNCHANGED <<posted, server, fetch, answer, excused, overlapped>>

Kill == running /\ Die

Next ==
  \/ OnCreate \/ Logout \/ Kill \/ BindNotification
  \/ \E c \in Complaint :
       \/ PostComplaint(c) \/ PostReply(c)
       \/ ServerUpdates(c) \/ BindComplaint(c)
  \/ \E f \in Fetch :
       \/ OnRefreshNotification(f) \/ ServerAnswers(f)
       \/ OnResponse(f) \/ OnFailure(f) \/ Execute(f)

Spec == Init /\ [][Next]_vars

-----------------------------------------------------------------------------
(* Properties. *)

\* The list of complaints and the list of notifications agree: the last status
\* a notification told is the one its complaint shows, and a complaint without
\* such a notification is pending. Two fields written from one update, in
\* transactions of several updates that may be rolled back, keep in step.
NotesMatchStatus ==
  \A c \in Complaint : notified[c] = IF Row(c) THEN complaintStatus[c] ELSE 0

\* The status of a complaint on the screen does not fall back to an earlier
\* one, unless the Realm was emptied or the answer is that of a fetch that met
\* another one: their transactions may run in either order.
StatusGoesOn ==
  \A c \in Complaint :
    complaintStatus'[c] < complaintStatus[c]
      => \/ complaintStatus'[c] = -1
         \/ \E f \in overlapped : f \notin Busy' /\ c \in DOMAIN answer[f]

\* A complaint shows the server's latest status when nothing about it is due or
\* on its way, unless an answer about it was lost, rolled back, came without it
\* or is that of a fetch that met another one.
UpdatesArrive ==
  \A c \in Complaint :
    (Row(c) /\ c \notin due \cup Carried) =>
      complaintStatus[c] = update[c] \/ c \in excused
=============================================================================
