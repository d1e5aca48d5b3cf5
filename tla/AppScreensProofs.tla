---- MODULE AppScreensProofs ----
(***************************************************************************)
(* Theorems about the screens of the application: notifications and lists, *)
(* the task of activities and the filter, for any complaints, fetches,     *)
(* words, days and bounds.                                                 *)
(***************************************************************************)
EXTENDS MC_AppScreens, WellFoundedInduction, TLAPS

-----------------------------------------------------------------------------
(* Sets of numbers *)

LessThan == {p \in Nat \X Nat : p[1] < p[2]}

\* A set of natural numbers that is not empty has a least element.
LEMMA LeastOf ==
  ASSUME NEW S, S \subseteq Nat, S # {}
  PROVE  \E n \in S : \A m \in S : n <= m
<1>1. IsWellFoundedOn(LessThan, Nat)
  BY NatLessThanWellFounded DEF OpToRel, LessThan
<1>2. PICK n \in S : \A m \in S : <<m, n>> \notin LessThan
  BY <1>1, WFMin
<1>3. \A m \in S : ~(m < n)
  BY <1>2 DEF LessThan
<1>4. QED
  BY <1>3

\* A set of numbers below a bound has a greatest element.
LEMMA GreatestOf ==
  ASSUME NEW k \in Nat, NEW S, S \subseteq 0..k, S # {}
  PROVE  \E n \in S : \A m \in S : n >= m
<1> DEFINE T == {k - n : n \in S}
<1>0. \A n \in S : n \in 0..k /\ k - n \in Nat
  OBVIOUS
<1>1. T \subseteq Nat /\ T # {}
  BY <1>0
<1>2. PICK l \in T : \A m \in T : l <= m
  BY <1>1, LeastOf
<1>3. PICK n \in S : l = k - n
  BY <1>2
<1>4. \A m \in S : k - n <= k - m
  BY <1>2, <1>3
<1>5. QED
  BY <1>0, <1>4

-----------------------------------------------------------------------------
(* Notifications *)

\* A complaint whose post has no reply yet has no row.
RowsAreReplied == \A c \in Complaint : posted[c] # "ended" => complaintStatus[c] = -1

\* A fetch without its answer carries nothing; fetches that are in progress at once have met.
FetchesFit ==
  /\ DOMAIN answer = Fetch
  /\ \A f \in Fetch : fetch[f] \in {"idle", "asked"} => DOMAIN answer[f] = {}
  /\ \A f, g \in Fetch : fetch[f] # "idle" /\ fetch[g] # "idle" /\ f # g => f \in overlapped

\* Nothing is ahead of the server.  The answer of a fetch that met no other is not behind the row, and as new as what is no longer due.
NothingAhead ==
  /\ \A c \in Complaint : complaintStatus[c] <= update[c]
  /\ \A f \in Fetch : \A c \in DOMAIN answer[f] :
       /\ answer[f][c].status <= update[c]
       /\ f \notin overlapped /\ answer[f][c].status # 0 =>
            complaintStatus[c] <= answer[f][c].status /\ (c \notin due => answer[f][c].status = update[c])

\* A complaint about which nothing is due or on its way is up to date, and so is the row its reply will bring.
UpToDate ==
  \A c \in Complaint :
    c \notin due /\ (\A f \in Fetch : c \notin DOMAIN answer[f]) /\ c \notin excused =>
      /\ complaintStatus[c] >= 0 => complaintStatus[c] = update[c]
      /\ posted[c] # "ended" => update[c] = 0

Agrees == RowsAreReplied /\ FetchesFit /\ NothingAhead /\ UpToDate /\ Notes!NotesMatchStatus
NotesInv == Notes!TypeOK /\ Agrees

\* What a step of the notifications does.
NotesStep == NotesInv' /\ Notes!StatusGoesOn

\* The types of what the fetches bring.
LEMMA AnswerTypes ==
  ASSUME Notes!TypeOK, NEW f \in Fetch
  PROVE  DOMAIN answer[f] \subseteq Complaint /\ \A c \in DOMAIN answer[f] : answer[f][c] \in Notes!Update /\ answer[f][c].status \in 0..MaxStatus
<1>1. PICK S \in SUBSET Complaint : answer[f] \in [S -> Notes!Update]
  BY DEF Notes!TypeOK
<1>2. QED
  BY <1>1 DEF Notes!Update

LEMMA NothingTyped == Notes!Nothing \in [{} -> Notes!Update] /\ DOMAIN Notes!Nothing = {}
  BY DEF Notes!Nothing

\* The numbers of statuses.
LEMMA StatusesAreNumbers ==
  ASSUME Notes!TypeOK
  PROVE  MaxStatus \in Nat /\ \A c \in Complaint : complaintStatus[c] \in Int /\ complaintStatus[c] >= -1 /\ update[c] \in Nat /\ notified[c] \in Nat
  BY BoundsAssumption DEF Notes!BoundsAssumption, Notes!TypeOK

\* The invariant of the notifications holds at first: no complaint was posted.
LEMMA NotesInvInit == Notes!Init => NotesInv
<1> SUFFICES ASSUME Notes!Init PROVE NotesInv
  OBVIOUS
<1>1. MaxStatus \in Nat /\ 0 \in 0..MaxStatus /\ -1 \in -1..MaxStatus
  BY BoundsAssumption DEF Notes!BoundsAssumption
<1>2. \A f \in Fetch : answer[f] \in [{} -> Notes!Update] /\ DOMAIN answer[f] = {}
  BY NothingTyped DEF Notes!Init
<1>3. Notes!TypeOK
  BY <1>1, <1>2 DEF Notes!Init, Notes!TypeOK, Notes!Busy
<1>4. Agrees
  BY <1>2 DEF Notes!Init, Agrees, RowsAreReplied, FetchesFit, NothingAhead, UpToDate, Notes!NotesMatchStatus, Notes!Row
<1>5. QED
  BY <1>3, <1>4 DEF NotesInv

\* A step that leaves the rows does not make a status fall back.
LEMMA SameRows ==
  ASSUME NotesInv, NotesInv', UNCHANGED complaintStatus
  PROVE  NotesStep
<1>1. \A c \in Complaint : ~(complaintStatus[c] < complaintStatus[c])
  BY StatusesAreNumbers DEF NotesInv
<1>2. QED
  BY <1>1 DEF NotesStep, Notes!StatusGoesOn

\* The post of a complaint, and its reply.
LEMMA PostStep == ASSUME NotesInv, NEW c \in Complaint, Notes!PostComplaint(c) PROVE NotesStep
<1>1. Notes!TypeOK'
  BY DEF NotesInv, Notes!PostComplaint, Notes!TypeOK, Notes!Busy, Notes!server, Notes!realm
<1>2. Agrees'
  BY DEF NotesInv, Notes!TypeOK, Notes!PostComplaint, Agrees, RowsAreReplied, FetchesFit, NothingAhead, UpToDate, Notes!NotesMatchStatus, Notes!Row,
         Notes!server, Notes!realm
<1>3. QED
  BY <1>1, <1>2, SameRows DEF NotesInv, Notes!PostComplaint, Notes!realm

LEMMA ReplyStep == ASSUME NotesInv, NEW c \in Complaint, Notes!PostReply(c) PROVE NotesStep
<1>1. /\ posted[c] = "sent" /\ posted' = [posted EXCEPT ![c] = "ended"]
      /\ UNCHANGED <<update, due, estimatedTime, notified, silent, running, fetch, answer, excused, overlapped>>
  BY DEF Notes!PostReply, Notes!server
<1>2. complaintStatus[c] = -1 /\ complaintStatus \in [Complaint -> -1..MaxStatus] /\ MaxStatus \in Nat
  BY <1>1, StatusesAreNumbers DEF NotesInv, Agrees, RowsAreReplied, Notes!TypeOK
<1>3. CASE UNCHANGED complaintStatus
  <2>1. Notes!TypeOK'
    BY <1>1, <1>3 DEF NotesInv, Notes!TypeOK, Notes!Busy
  <2>2. Agrees'
    BY <1>1, <1>3 DEF NotesInv, Notes!TypeOK, Agrees, RowsAreReplied, FetchesFit, NothingAhead, UpToDate, Notes!NotesMatchStatus, Notes!Row
  <2>3. QED
    BY <1>3, <2>1, <2>2, SameRows DEF NotesInv
<1>4. CASE complaintStatus' = [complaintStatus EXCEPT ![c] = 0]
  <2>1. 0 \in -1..MaxStatus
    BY <1>2
  <2>2. complaintStatus' \in [Complaint -> -1..MaxStatus]
    BY <1>2, <1>4, <2>1
  <2>3. \A d \in Complaint : complaintStatus'[d] = IF d = c THEN 0 ELSE complaintStatus[d]
    BY <1>2, <1>4
  <2>4. Notes!TypeOK'
    <3>1. estimatedTime' \in SUBSET {d \in Complaint : complaintStatus'[d] >= 0}
      BY <1>1, <2>3 DEF NotesInv, Notes!TypeOK
    <3>2. QED
      BY <1>1, <2>2, <3>1 DEF NotesInv, Notes!TypeOK, Notes!Busy
  <2>5. RowsAreReplied' /\ FetchesFit'
    BY <1>1, <2>3 DEF NotesInv, Notes!TypeOK, Agrees, RowsAreReplied, FetchesFit
  <2>6. NothingAhead'
    <3>1. \A d \in Complaint : complaintStatus'[d] <= update[d]
      BY <2>3, StatusesAreNumbers DEF NotesInv, Agrees, NothingAhead
    <3>2. ASSUME NEW f \in Fetch, NEW d \in DOMAIN answer[f], f \notin overlapped, answer[f][d].status # 0
          PROVE  complaintStatus'[d] <= answer[f][d].status
      <4>1. d \in Complaint /\ answer[f][d].status \in 0..MaxStatus /\ complaintStatus[d] <= answer[f][d].status
        BY <3>2, AnswerTypes DEF NotesInv, Agrees, NothingAhead
      <4>2. QED
        BY <1>2, <2>3, <4>1
    <3>3. QED
      BY <1>1, <3>1, <3>2 DEF NotesInv, Agrees, NothingAhead
  <2>7. UpToDate'
    BY <1>1, <2>3 DEF NotesInv, Notes!TypeOK, Agrees, UpToDate
  <2>8. Notes!NotesMatchStatus'
    BY <1>1, <1>2, <2>3 DEF NotesInv, Agrees, Notes!NotesMatchStatus, Notes!Row
  <2>9. Notes!StatusGoesOn
    BY <1>2, <2>3, StatusesAreNumbers DEF NotesInv, Notes!StatusGoesOn
  <2>10. QED
    BY <2>4, <2>5, <2>6, <2>7, <2>8, <2>9 DEF NotesStep, NotesInv, Agrees
<1>5. QED
  BY <1>3, <1>4 DEF Notes!PostReply

\* The server has an update.
LEMMA UpdateStep == ASSUME NotesInv, NEW c \in Complaint, Notes!ServerUpdates(c) PROVE NotesStep
<1>1. /\ update[c] < MaxStatus /\ update' = [update EXCEPT ![c] = @ + 1] /\ due' = due \cup {c}
      /\ UNCHANGED <<posted, complaintStatus, estimatedTime, notified, silent, running, fetch, answer, excused, overlapped>>
  BY DEF Notes!ServerUpdates, Notes!realm
<1>2. update[c] + 1 \in 0..MaxStatus
  BY <1>1, StatusesAreNumbers DEF NotesInv
<1>3. Notes!TypeOK'
  BY <1>1, <1>2 DEF NotesInv, Notes!TypeOK, Notes!Busy
<1>4. \A d \in Complaint : update'[d] = IF d = c THEN update[c] + 1 ELSE update[d]
  BY <1>1 DEF NotesInv, Notes!TypeOK
<1>5. NothingAhead'
  <2>1. \A d \in Complaint : complaintStatus[d] <= update'[d]
    BY <1>4, StatusesAreNumbers DEF NotesInv, Agrees, NothingAhead
  <2>2. ASSUME NEW f \in Fetch, NEW d \in DOMAIN answer[f]
        PROVE  answer[f][d].status <= update'[d] /\ (d \notin due' => d \notin due /\ update'[d] = update[d])
    <3>1. d \in Complaint /\ answer[f][d].status \in 0..MaxStatus /\ answer[f][d].status <= update[d]
      BY AnswerTypes DEF NotesInv, Agrees, NothingAhead
    <3>2. QED
      BY <1>1, <1>4, <3>1, StatusesAreNumbers DEF NotesInv
  <2>3. QED
    BY <1>1, <2>1, <2>2 DEF NotesInv, Agrees, NothingAhead
<1>6. Agrees'
  BY <1>1, <1>4, <1>5 DEF NotesInv, Agrees, RowsAreReplied, FetchesFit, UpToDate, Notes!NotesMatchStatus, Notes!Row
<1>7. QED
  BY <1>1, <1>3, <1>6, SameRows DEF NotesInv

\* The server answers a fetch.
LEMMA AnswerStep == ASSUME NotesInv, NEW f \in Fetch, Notes!ServerAnswers(f) PROVE NotesStep
<1>1. PICK S \in SUBSET due, D \in SUBSET due :
        answer' = [answer EXCEPT ![f] = [c \in due |-> [status |-> IF c \in S THEN update[c] ELSE 0, dated |-> c \in D]]]
  BY DEF Notes!ServerAnswers
<1>2. /\ fetch[f] = "asked" /\ fetch' = [fetch EXCEPT ![f] = "answered"] /\ due' \in {{}, due}
      /\ UNCHANGED <<posted, update, complaintStatus, estimatedTime, notified, silent, running, excused, overlapped>>
  BY DEF Notes!ServerAnswers, Notes!realm
<1> DEFINE a == [c \in due |-> [status |-> IF c \in S THEN update[c] ELSE 0, dated |-> c \in D]]
<1>3. due \subseteq Complaint /\ a \in [due -> Notes!Update]
  <2>1. due \subseteq Complaint /\ 0 \in 0..MaxStatus /\ \A c \in due : update[c] \in 0..MaxStatus
    BY StatusesAreNumbers DEF NotesInv, Notes!TypeOK
  <2>2. \A c \in due : a[c] \in Notes!Update
    BY <2>1 DEF Notes!Update
  <2>3. QED
    BY <2>1, <2>2
<1>4. DOMAIN a = due /\ \A c \in due : a[c].status \in {0, update[c]}
  OBVIOUS
<1> HIDE DEF a
<1>5. answer'[f] = a /\ (\A g \in Fetch : g # f => answer'[g] = answer[g]) /\ DOMAIN answer' = Fetch
  BY <1>1 DEF a, NotesInv, Agrees, FetchesFit
<1>6. Notes!TypeOK'
  <2>1. \A g \in Fetch : \E T \in SUBSET Complaint : answer'[g] \in [T -> Notes!Update]
    BY <1>3, <1>5 DEF NotesInv, Notes!TypeOK
  <2>2. QED
    BY <1>2, <2>1 DEF NotesInv, Notes!TypeOK, Notes!Busy
<1>7. FetchesFit'
  BY <1>2, <1>5 DEF NotesInv, Notes!TypeOK, Agrees, FetchesFit
<1>8. \A g \in Fetch : g # f /\ g \notin overlapped => DOMAIN answer[g] = {}
  BY <1>2 DEF NotesInv, Notes!TypeOK, Agrees, FetchesFit
<1>9. NothingAhead'
  <2>1. ASSUME NEW g \in Fetch, NEW c \in DOMAIN answer'[g]
        PROVE  /\ answer'[g][c].status <= update[c]
               /\ g \notin overlapped /\ answer'[g][c].status # 0 =>
                    complaintStatus[c] <= answer'[g][c].status /\ answer'[g][c].status = update[c]
    <3>1. CASE g = f
      <4>1. c \in Complaint /\ answer'[g][c].status \in {0, update[c]}
        BY <1>3, <1>4, <1>5, <2>1, <3>1
      <4>2. update[c] \in Nat /\ complaintStatus[c] <= update[c]
        BY <4>1, StatusesAreNumbers DEF NotesInv, Agrees, NothingAhead
      <4>3. QED
        BY <4>1, <4>2
    <3>2. CASE g # f
      <4>1. answer'[g] = answer[g] /\ g \in overlapped /\ answer[g][c].status <= update[c]
        BY <1>5, <1>8, <2>1, <3>2 DEF NotesInv, Agrees, NothingAhead
      <4>2. QED
        BY <4>1
    <3>3. QED
      BY <3>1, <3>2
  <2>2. QED
    BY <1>2, <2>1 DEF NotesInv, Agrees, NothingAhead
<1>10. UpToDate'
  <2>1. DOMAIN answer[f] = {}
    BY <1>2 DEF NotesInv, Agrees, FetchesFit
  <2>2. ASSUME NEW c \in Complaint, c \notin due', \A g \in Fetch : c \notin DOMAIN answer'[g]
        PROVE  c \notin due /\ \A g \in Fetch : c \notin DOMAIN answer[g]
    BY <1>4, <1>5, <2>1, <2>2
  <2>3. QED
    BY <1>2, <2>2 DEF NotesInv, Agrees, UpToDate
<1>11. Agrees'
  BY <1>2, <1>7, <1>9, <1>10 DEF NotesInv, Agrees, RowsAreReplied, Notes!NotesMatchStatus, Notes!Row
<1>12. QED
  BY <1>2, <1>6, <1>11, SameRows DEF NotesInv

\* MainActivity is created, with its fetch.
LEMMA CreateStep == ASSUME NotesInv, Notes!OnCreate PROVE NotesStep
<1>1. Notes!TypeOK'
  BY DEF NotesInv, Notes!OnCreate, Notes!TypeOK, Notes!Busy, Notes!server, Notes!realm
<1>2. Agrees'
  BY DEF NotesInv, Notes!OnCreate, Agrees, RowsAreReplied, FetchesFit, NothingAhead, UpToDate, Notes!NotesMatchStatus, Notes!Row,
         Notes!server, Notes!realm
<1>3. QED
  BY <1>1, <1>2, SameRows DEF NotesInv, Notes!OnCreate, Notes!realm

LEMMA RefreshStep == ASSUME NotesInv, NEW f \in Fetch, Notes!OnRefreshNotification(f) PROVE NotesStep
<1>1. /\ fetch[f] = "idle" /\ fetch' = [fetch EXCEPT ![f] = "asked"] /\ running' = TRUE
      /\ overlapped' = IF Notes!Busy = {} THEN overlapped ELSE overlapped \cup Notes!Busy \cup {f}
      /\ UNCHANGED <<posted, update, due, complaintStatus, estimatedTime, notified, silent, answer, excused>>
  BY DEF Notes!OnRefreshNotification, Notes!server, Notes!realm
<1>2. \A g \in Fetch : fetch'[g] = IF g = f THEN "asked" ELSE fetch[g]
  BY <1>1 DEF NotesInv, Notes!TypeOK
<1>3. Notes!TypeOK'
  BY <1>1, <1>2 DEF NotesInv, Notes!TypeOK, Notes!Busy
<1>4. FetchesFit'
  <2>1. ASSUME NEW g \in Fetch, NEW h \in Fetch, fetch'[g] # "idle", fetch'[h] # "idle", g # h
        PROVE  g \in overlapped'
    BY <1>1, <1>2, <2>1 DEF NotesInv, Agrees, FetchesFit, Notes!Busy
  <2>2. QED
    BY <1>1, <1>2, <2>1 DEF NotesInv, Agrees, FetchesFit
<1>5. overlapped \subseteq overlapped'
  BY <1>1
<1>6. Agrees'
  BY <1>1, <1>4, <1>5 DEF NotesInv, Agrees, RowsAreReplied, NothingAhead, UpToDate, Notes!NotesMatchStatus, Notes!Row
<1>7. QED
  BY <1>1, <1>3, <1>6, SameRows DEF NotesInv

\* What remains of the fetches when f has ended.
Ended(f) ==
  /\ fetch' = [g \in Fetch |-> IF g = f THEN "idle" ELSE fetch[g]]
  /\ DOMAIN answer' = Fetch /\ answer'[f] = Notes!Nothing /\ \A g \in Fetch : g # f => answer'[g] = answer[g]
  /\ overlapped' = overlapped \ {f}

LEMMA EndsFetch == ASSUME NotesInv, NEW f \in Fetch, Notes!EndFetch(f) PROVE Ended(f)
  BY DEF NotesInv, Notes!TypeOK, Agrees, FetchesFit, Notes!EndFetch, Ended

\* The end of a fetch keeps what is said of fetches.
LEMMA EndKeepsFetches ==
  ASSUME NotesInv, NEW f \in Fetch, Ended(f)
  PROVE  /\ fetch' \in [Fetch -> {"idle", "asked", "answered", "queued"}] /\ overlapped' \subseteq Notes!Busy'
         /\ \A g \in Fetch : \E S \in SUBSET Complaint : answer'[g] \in [S -> Notes!Update]
         /\ FetchesFit'
         /\ \A g \in Fetch : \A c \in DOMAIN answer'[g] :
              g # f /\ c \in DOMAIN answer[g] /\ answer'[g] = answer[g] /\ (g \in overlapped' <=> g \in overlapped)
<1>1. fetch' \in [Fetch -> {"idle", "asked", "answered", "queued"}] /\ overlapped' \subseteq Notes!Busy'
  BY DEF NotesInv, Notes!TypeOK, Ended, Notes!Busy
<1>2. \A g \in Fetch : \E S \in SUBSET Complaint : answer'[g] \in [S -> Notes!Update]
  BY NothingTyped DEF NotesInv, Notes!TypeOK, Ended
<1>3. FetchesFit'
  BY NothingTyped DEF NotesInv, Agrees, FetchesFit, Ended
<1>4. \A g \in Fetch : \A c \in DOMAIN answer'[g] :
        g # f /\ c \in DOMAIN answer[g] /\ answer'[g] = answer[g] /\ (g \in overlapped' <=> g \in overlapped)
  BY NothingTyped DEF Ended
<1>5. QED
  BY <1>1, <1>2, <1>3, <1>4

\* A fetch that ends without being applied excuses what it carried.
LEMMA EndStep ==
  ASSUME NotesInv, NEW f \in Fetch, Ended(f), excused \cup DOMAIN answer[f] \subseteq excused', excused' \subseteq Complaint,
         UNCHANGED <<posted, update, due, complaintStatus, estimatedTime, notified, silent, running>>
  PROVE  NotesStep
<1>1. Notes!TypeOK'
  BY EndKeepsFetches DEF NotesInv, Notes!TypeOK
<1>2. NothingAhead'
  BY EndKeepsFetches DEF NotesInv, Agrees, NothingAhead
<1>3. UpToDate'
  <2>1. ASSUME NEW c \in Complaint, \A g \in Fetch : c \notin DOMAIN answer'[g], c \notin excused'
        PROVE  (\A g \in Fetch : c \notin DOMAIN answer[g]) /\ c \notin excused
    BY <2>1 DEF Ended
  <2>2. QED
    BY <2>1 DEF NotesInv, Agrees, UpToDate
<1>4. Agrees'
  BY <1>2, <1>3, EndKeepsFetches DEF NotesInv, Agrees, RowsAreReplied, Notes!NotesMatchStatus, Notes!Row
<1>5. QED
  BY <1>1, <1>4, SameRows DEF NotesInv

LEMMA ResponseStep == ASSUME NotesInv, NEW f \in Fetch, Notes!OnResponse(f) PROVE NotesStep
<1>1. fetch[f] = "answered" /\ UNCHANGED <<posted, update, due, complaintStatus, estimatedTime, notified, silent, running, excused>>
  BY DEF Notes!OnResponse, Notes!server, Notes!realm
<1>2. CASE Notes!Empty(answer[f])
  <2>1. Ended(f) /\ DOMAIN answer[f] = {}
    BY <1>2, EndsFetch DEF Notes!OnResponse, Notes!Empty
  <2>2. QED
    BY <1>1, <2>1, EndStep DEF NotesInv, Notes!TypeOK
<1>3. CASE ~Notes!Empty(answer[f])
  <2>1. fetch' = [fetch EXCEPT ![f] = "queued"] /\ UNCHANGED <<answer, overlapped>>
    BY <1>3 DEF Notes!OnResponse
  <2>2. \A g \in Fetch : fetch'[g] = IF g = f THEN "queued" ELSE fetch[g]
    BY <2>1 DEF NotesInv, Notes!TypeOK
  <2>3. Notes!TypeOK'
    BY <1>1, <2>1, <2>2 DEF NotesInv, Notes!TypeOK, Notes!Busy
  <2>4. FetchesFit'
    BY <1>1, <2>1, <2>2 DEF NotesInv, Agrees, FetchesFit
  <2>5. Agrees'
    BY <1>1, <2>1, <2>4 DEF NotesInv, Agrees, RowsAreReplied, NothingAhead, UpToDate, Notes!NotesMatchStatus, Notes!Row
  <2>6. QED
    BY <1>1, <2>3, <2>5, SameRows DEF NotesInv
<1>4. QED
  BY <1>2, <1>3

LEMMA FailureStep == ASSUME NotesInv, NEW f \in Fetch, Notes!OnFailure(f) PROVE NotesStep
<1>1. excused' = excused \cup DOMAIN answer[f] /\ UNCHANGED <<posted, update, due, complaintStatus, estimatedTime, notified, silent, running>>
  BY DEF Notes!OnFailure, Notes!server, Notes!realm
<1>2. Ended(f)
  BY EndsFetch DEF Notes!OnFailure
<1>3. excused' \subseteq Complaint
  BY <1>1, AnswerTypes DEF NotesInv, Notes!TypeOK
<1>4. QED
  BY <1>1, <1>2, <1>3, EndStep

\* An answer is applied.  Row and notification take the same status; what a fetch that met no other has brought is the newest.
LEMMA ApplyStep == ASSUME NotesInv, NEW f \in Fetch, Notes!Apply(f) PROVE NotesStep
<1> DEFINE a == answer[f]
<1>1. /\ fetch[f] = "queued" /\ \A c \in DOMAIN a : complaintStatus[c] >= 0
      /\ complaintStatus' = [c \in Complaint |-> IF c \in DOMAIN a /\ a[c].status # 0 THEN a[c].status ELSE complaintStatus[c]]
      /\ notified' = [c \in Complaint |-> IF c \in DOMAIN a /\ a[c].status # 0 THEN a[c].status ELSE notified[c]]
      /\ estimatedTime' = estimatedTime \cup {c \in DOMAIN a : a[c].dated}
      /\ silent' = (silent \/ \E c \in DOMAIN a : a[c].status = 0)
      /\ excused' = excused \cup {c \in DOMAIN a : a[c].status = 0 \/ f \in overlapped}
      /\ UNCHANGED <<posted, update, due, running>>
  BY DEF Notes!Apply, Notes!NewStatus, Notes!NewNote, Notes!Row, Notes!server
<1>2. Ended(f)
  BY EndsFetch DEF Notes!Apply
<1>3. DOMAIN a \subseteq Complaint /\ \A c \in DOMAIN a : a[c] \in Notes!Update /\ a[c].status \in 0..MaxStatus
  BY AnswerTypes DEF NotesInv
<1> HIDE DEF a
<1>4. \A c \in Complaint : complaintStatus[c] \in -1..MaxStatus /\ notified[c] \in 0..MaxStatus /\ update[c] \in Nat /\ MaxStatus \in Nat
  BY StatusesAreNumbers DEF NotesInv, Notes!TypeOK
<1>5. \A n \in 0..MaxStatus : n \in -1..MaxStatus
  OBVIOUS
<1>6. \A c \in Complaint : complaintStatus'[c] \in -1..MaxStatus /\ (complaintStatus[c] >= 0 => complaintStatus'[c] >= 0)
  BY <1>1, <1>3, <1>4, <1>5
<1>7. Notes!TypeOK'
  <2>1. complaintStatus' \in [Complaint -> -1..MaxStatus] /\ notified' \in [Complaint -> 0..MaxStatus]
    BY <1>1, <1>3, <1>4, <1>6
  <2>2. estimatedTime' \in SUBSET {c \in Complaint : complaintStatus'[c] >= 0}
    BY <1>1, <1>3, <1>6 DEF NotesInv, Notes!TypeOK
  <2>3. silent' \in BOOLEAN /\ excused' \in SUBSET Complaint
    BY <1>1, <1>3 DEF NotesInv, Notes!TypeOK
  <2>4. QED
    BY <1>1, <1>2, <2>1, <2>2, <2>3, EndKeepsFetches DEF NotesInv, Notes!TypeOK
<1>8. RowsAreReplied'
  BY <1>1, <1>3 DEF NotesInv, Agrees, RowsAreReplied
<1>9. NothingAhead'
  <2>1. \A c \in Complaint : complaintStatus'[c] <= update[c]
    BY <1>1, <1>3, <1>4 DEF NotesInv, Agrees, NothingAhead, a
  <2>2. ASSUME NEW g \in Fetch, NEW c \in DOMAIN answer'[g]
        PROVE  /\ answer'[g][c].status <= update[c]
               /\ g \in overlapped'
    <3>1. g # f /\ c \in DOMAIN answer[g] /\ answer'[g] = answer[g] /\ (g \in overlapped' <=> g \in overlapped)
      BY <1>2, <2>2, EndKeepsFetches
    <3>2. fetch[g] # "idle" /\ fetch[f] # "idle"
      BY <1>1, <3>1 DEF NotesInv, Agrees, FetchesFit
    <3>3. QED
      BY <3>1, <3>2 DEF NotesInv, Agrees, FetchesFit, NothingAhead
  <2>3. QED
    BY <1>1, <2>1, <2>2 DEF NothingAhead
<1>10. UpToDate'
  <2>1. ASSUME NEW c \in Complaint, c \notin due, \A g \in Fetch : c \notin DOMAIN answer'[g], c \notin excused'
        PROVE  /\ complaintStatus'[c] >= 0 => complaintStatus'[c] = update[c]
               /\ posted[c] # "ended" => update[c] = 0
    <3>1. \A g \in Fetch : g # f => c \notin DOMAIN answer[g]
      BY <1>2, <2>1 DEF Ended
    <3>2. CASE c \in DOMAIN a
      <4>1. a[c].status # 0 /\ f \notin overlapped
        BY <1>1, <2>1, <3>2
      <4>2. a[c].status = update[c]
        BY <2>1, <3>2, <4>1 DEF NotesInv, Agrees, NothingAhead, a
      <4>3. posted[c] = "ended"
        BY <1>1, <1>4, <3>2 DEF NotesInv, Agrees, RowsAreReplied
      <4>4. QED
        BY <1>1, <3>2, <4>1, <4>2, <4>3
    <3>3. CASE c \notin DOMAIN a
      BY <1>1, <2>1, <3>1, <3>3 DEF NotesInv, Agrees, UpToDate, a
    <3>4. QED
      BY <3>2, <3>3
  <2>2. QED
    BY <1>1, <2>1 DEF UpToDate
<1>11. Notes!NotesMatchStatus'
  BY <1>1, <1>3, <1>4, <1>6 DEF NotesInv, Agrees, Notes!NotesMatchStatus, Notes!Row
<1>12. Notes!StatusGoesOn
  <2>1. ASSUME NEW c \in Complaint, complaintStatus'[c] < complaintStatus[c]
        PROVE  f \in overlapped /\ f \notin Notes!Busy' /\ c \in DOMAIN answer[f]
    <3>1. c \in DOMAIN a /\ a[c].status # 0 /\ complaintStatus'[c] = a[c].status
      BY <1>1, <1>4, <2>1
    <3>2. f \in overlapped
      BY <1>3, <1>4, <2>1, <3>1 DEF NotesInv, Agrees, NothingAhead, a
    <3>3. QED
      BY <1>2, <3>1, <3>2 DEF Ended, Notes!Busy, a
  <2>2. QED
    BY <2>1 DEF Notes!StatusGoesOn
<1>13. QED
  BY <1>2, <1>7, <1>8, <1>9, <1>10, <1>11, <1>12, EndKeepsFetches DEF NotesStep, NotesInv, Agrees

\* The process ends: posts and fetches are over, and what these carried is excused.
LEMMA DieStep == ASSUME NotesInv, Notes!Die PROVE NotesStep
<1>1. /\ running' = FALSE /\ fetch' = [f \in Fetch |-> "idle"] /\ answer' = [f \in Fetch |-> Notes!Nothing] /\ overlapped' = {}
      /\ excused' = excused \cup Notes!Carried
      /\ posted' = [c \in Complaint |-> IF posted[c] = "sent" THEN "ended" ELSE posted[c]]
      /\ UNCHANGED <<update, due, complaintStatus, estimatedTime, notified, silent>>
  BY DEF Notes!Die, Notes!server, Notes!realm
<1>2. \A f \in Fetch : DOMAIN answer[f] \subseteq Notes!Carried
  BY DEF Notes!Carried
<1>3. Notes!Carried \subseteq Complaint
  BY AnswerTypes DEF NotesInv, Notes!Carried
<1>4. \A f \in Fetch : answer'[f] \in [{} -> Notes!Update] /\ DOMAIN answer'[f] = {}
  BY <1>1, NothingTyped
<1>5. Notes!TypeOK'
  BY <1>1, <1>3, <1>4 DEF NotesInv, Notes!TypeOK, Notes!Busy
<1>6. \A c \in Complaint : posted'[c] # "ended" => posted[c] # "ended"
  BY <1>1
<1>7. RowsAreReplied' /\ FetchesFit' /\ NothingAhead' /\ Notes!NotesMatchStatus'
  BY <1>1, <1>4, <1>6 DEF NotesInv, Agrees, RowsAreReplied, FetchesFit, NothingAhead, Notes!NotesMatchStatus, Notes!Row
<1>8. UpToDate'
  BY <1>1, <1>2, <1>6 DEF NotesInv, Agrees, UpToDate
<1>9. QED
  BY <1>1, <1>5, <1>7, <1>8, SameRows DEF NotesInv, Agrees

\* The logout empties the Realm.
LEMMA NotesLogoutStep == ASSUME NotesInv, Notes!Logout PROVE NotesStep
<1>1. /\ running' = FALSE /\ complaintStatus' = [c \in Complaint |-> -1] /\ estimatedTime' = {} /\ notified' = [c \in Complaint |-> 0] /\ silent' = FALSE
      /\ UNCHANGED <<posted, update, due, fetch, answer, excused, overlapped>>
  BY DEF Notes!Logout, Notes!ClearedEstimates, Notes!server
<1>2. MaxStatus \in Nat /\ 0 \in 0..MaxStatus /\ -1 \in -1..MaxStatus
  BY StatusesAreNumbers DEF NotesInv
<1>3. Notes!TypeOK'
  BY <1>1, <1>2 DEF NotesInv, Notes!TypeOK, Notes!Busy
<1>4. NothingAhead'
  <2>1. ASSUME NEW f \in Fetch, NEW c \in DOMAIN answer[f] PROVE c \in Complaint /\ -1 <= answer[f][c].status
    BY AnswerTypes DEF NotesInv
  <2>2. ASSUME NEW c \in Complaint PROVE -1 <= update[c]
    <3>1. update[c] \in Nat
      BY StatusesAreNumbers DEF NotesInv
    <3>2. QED
      BY <3>1
  <2>3. QED
    BY <1>1, <2>1, <2>2 DEF NotesInv, Agrees, NothingAhead
<1>5. Agrees'
  BY <1>1, <1>4 DEF NotesInv, Agrees, RowsAreReplied, FetchesFit, UpToDate, Notes!NotesMatchStatus, Notes!Row
<1>6. Notes!StatusGoesOn
  BY <1>1 DEF Notes!StatusGoesOn
<1>7. QED
  BY <1>3, <1>5, <1>6 DEF NotesStep, NotesInv

\* Every step of the notifications keeps their invariant.
LEMMA NotesInvStep == NotesInv /\ [Notes!Next]_notesVars => NotesStep
<1> SUFFICES ASSUME NotesInv, [Notes!Next]_notesVars PROVE NotesStep
  OBVIOUS
<1>1. CASE Notes!OnCreate \/ Notes!Logout
  BY <1>1, CreateStep, NotesLogoutStep
<1>2. CASE Notes!Kill \/ Notes!BindNotification
  BY <1>2, DieStep DEF Notes!Kill, Notes!BindNotification
<1>3. ASSUME NEW c \in Complaint, Notes!PostComplaint(c) \/ Notes!PostReply(c) \/ Notes!ServerUpdates(c) PROVE NotesStep
  BY <1>3, PostStep, ReplyStep, UpdateStep
<1>4. ASSUME NEW c \in Complaint, Notes!BindComplaint(c) PROVE NotesStep
  BY <1>4, DieStep DEF Notes!BindComplaint
<1>5. ASSUME NEW f \in Fetch, Notes!OnRefreshNotification(f) \/ Notes!ServerAnswers(f) \/ Notes!OnResponse(f) \/ Notes!OnFailure(f)
      PROVE  NotesStep
  BY <1>5, RefreshStep, AnswerStep, ResponseStep, FailureStep
<1>6. ASSUME NEW f \in Fetch, Notes!Execute(f) PROVE NotesStep
  BY <1>6, ApplyStep, DieStep DEF Notes!Execute, Notes!UnknownComplaint
<1>7. CASE UNCHANGED notesVars
  <2>1. NotesInv'
    BY <1>7 DEF notesVars, NotesInv, Notes!TypeOK, Notes!Busy, Agrees, RowsAreReplied, FetchesFit, NothingAhead, UpToDate,
                Notes!NotesMatchStatus, Notes!Row
  <2>2. QED
    BY <1>7, <2>1, SameRows DEF notesVars
<1>8. QED
  BY <1>1, <1>2, <1>3, <1>4, <1>5, <1>6, <1>7 DEF Notes!Next

\* What the invariant says of the lists.
LEMMA NotesInvImplies == NotesInv => Notes!NotesMatchStatus /\ Notes!UpdatesArrive
<1> SUFFICES ASSUME NotesInv PROVE Notes!NotesMatchStatus /\ Notes!UpdatesArrive
  OBVIOUS
<1>1. \A f \in Fetch : DOMAIN answer[f] \subseteq Notes!Carried
  BY DEF Notes!Carried
<1>2. QED
  BY <1>1 DEF NotesInv, Agrees, UpToDate, Notes!UpdatesArrive, Notes!Row
-----------------------------------------------------------------------------
(* The task *)

\* A task of activities has the splash screen at its root only, and a branch lies on the home that opened it.
TaskFits(t) ==
  /\ t \in Seq(Nav!Activity)
  /\ \A n \in DOMAIN t : t[n] = "splash" => n = 1
  /\ \A n \in DOMAIN t : t[n] = "branch" => n > 1 /\ t[n - 1] = "home"

\* Without a login the task has no home, unless one was left over.
NavInv ==
  /\ TaskFits(task) /\ login \in BOOLEAN /\ leftover \in BOOLEAN
  /\ ~login /\ ~leftover => ~Nav!Has(task, "home")

\* What a task with one activity more has.
LEMMA Appended ==
  ASSUME NEW t \in Seq(Nav!Activity), NEW a \in Nav!Activity
  PROVE  /\ Append(t, a) \in Seq(Nav!Activity) /\ Append(t, a) # <<>> /\ Len(Append(t, a)) = Len(t) + 1
         /\ Nav!Last(Append(t, a)) = a
         /\ \A n \in DOMAIN Append(t, a) : Append(t, a)[n] = IF n = Len(t) + 1 THEN a ELSE t[n]
         /\ DOMAIN Append(t, a) = 1..Len(t) + 1 /\ DOMAIN t = 1..Len(t) /\ Len(t) \in Nat
  BY DEF Nav!Last

\* What a task without its last activity has.
LEMMA Popped ==
  ASSUME NEW t \in Seq(Nav!Activity), t # <<>>
  PROVE  /\ Nav!Front(t) \in Seq(Nav!Activity) /\ Len(Nav!Front(t)) = Len(t) - 1
         /\ DOMAIN Nav!Front(t) = 1..Len(t) - 1 /\ DOMAIN t = 1..Len(t) /\ Len(t) \in Nat \ {0}
         /\ \A n \in DOMAIN Nav!Front(t) : Nav!Front(t)[n] = t[n]
         /\ Nav!Last(t) = t[Len(t)]
<1>1. Len(t) \in Nat \ {0} /\ DOMAIN t = 1..Len(t)
  OBVIOUS
<1>2. \A n \in 1..Len(t) - 1 : n \in 1..Len(t) /\ t[n] \in Nav!Activity
  BY <1>1
<1>3. /\ SubSeq(t, 1, Len(t) - 1) \in Seq(Nav!Activity) /\ Len(SubSeq(t, 1, Len(t) - 1)) = Len(t) - 1
      /\ \A n \in 1..Len(t) - 1 : SubSeq(t, 1, Len(t) - 1)[n] = t[n]
  BY <1>1, <1>2
<1>4. DOMAIN SubSeq(t, 1, Len(t) - 1) = 1..Len(t) - 1
  BY <1>3
<1>5. QED
  BY <1>1, <1>3, <1>4 DEF Nav!Front, Nav!Last

\* The parts of a fitting task fit, and so does one with another activity.
LEMMA PoppedFits ==
  ASSUME NEW t, TaskFits(t), t # <<>>
  PROVE  TaskFits(Nav!Front(t)) /\ (Nav!Has(Nav!Front(t), "home") => Nav!Has(t, "home"))
<1>1. t \in Seq(Nav!Activity)
  BY DEF TaskFits
<1>2. DOMAIN Nav!Front(t) \subseteq DOMAIN t /\ \A n \in DOMAIN Nav!Front(t) : Nav!Front(t)[n] = t[n]
  BY <1>1, Popped
<1>3. \A n \in DOMAIN Nav!Front(t) : n > 1 => n - 1 \in DOMAIN Nav!Front(t)
  BY <1>1, Popped
<1>4. Nav!Front(t) \in Seq(Nav!Activity)
  BY <1>1, Popped
<1>5. QED
  BY <1>2, <1>3, <1>4 DEF TaskFits, Nav!Has

LEMMA AppendedFits ==
  ASSUME NEW t, TaskFits(t), NEW a \in Nav!Activity \ {"splash"}, a = "branch" => Nav!TopIs(t, "home")
  PROVE  /\ TaskFits(Append(t, a)) /\ Append(t, a) # <<>> /\ Nav!Last(Append(t, a)) = a
         /\ Nav!Has(Append(t, a), "home") <=> a = "home" \/ Nav!Has(t, "home")
         /\ Len(Append(t, a)) = Len(t) + 1
<1>1. t \in Seq(Nav!Activity)
  BY DEF TaskFits
<1>2. /\ DOMAIN Append(t, a) = 1..Len(t) + 1 /\ DOMAIN t = 1..Len(t) /\ Len(t) \in Nat
      /\ \A n \in 1..Len(t) + 1 : Append(t, a)[n] = IF n = Len(t) + 1 THEN a ELSE t[n]
  BY <1>1, Appended
<1>3. /\ Append(t, a) \in Seq(Nav!Activity) /\ Append(t, a) # <<>> /\ Nav!Last(Append(t, a)) = a
      /\ Len(Append(t, a)) = Len(t) + 1
  BY <1>1, Appended
<1>4. ASSUME NEW n \in 1..Len(t) + 1, Append(t, a)[n] = "branch"
      PROVE  n > 1 /\ Append(t, a)[n - 1] = "home"
  <2>1. CASE n = Len(t) + 1
    <3>1. t # <<>> /\ t[Len(t)] = "home"
      BY <1>2, <1>4, <2>1 DEF Nav!TopIs, Nav!Last
    <3>2. Len(t) > 0
      BY <1>1, <1>2, <3>1
    <3>3. n > 1 /\ n - 1 = Len(t)
      BY <1>2, <2>1, <3>2
    <3>4. Append(t, a)[Len(t)] = t[Len(t)]
      <4>1. \A m \in Nat : m > 0 => m \in 1..m + 1 /\ m # m + 1
        OBVIOUS
      <4>2. Len(t) \in 1..Len(t) + 1 /\ Len(t) # Len(t) + 1
        BY <1>2, <3>2, <4>1
      <4>3. QED
        BY <1>2, <4>2
    <3>5. QED
      BY <3>1, <3>3, <3>4
  <2>2. CASE n # Len(t) + 1
    <3>1. n \in 1..Len(t) /\ t[n] = "branch"
      BY <1>2, <1>4, <2>2
    <3>2. n > 1 /\ t[n - 1] = "home"
      BY <1>2, <3>1 DEF TaskFits
    <3>3. QED
      BY <1>2, <3>1, <3>2
  <2>3. QED
    BY <2>1, <2>2
<1>5. \A n \in 1..Len(t) + 1 : Append(t, a)[n] = "splash" => n = 1
  BY <1>2 DEF TaskFits
<1>6. Nav!Has(Append(t, a), "home") <=> a = "home" \/ Nav!Has(t, "home")
  <2>1. ASSUME a = "home" PROVE Nav!Has(Append(t, a), "home")
    BY <1>2, <2>1 DEF Nav!Has
  <2>2. ASSUME Nav!Has(t, "home") PROVE Nav!Has(Append(t, a), "home")
    <3>1. PICK n \in 1..Len(t) : t[n] = "home"
      BY <1>2, <2>2 DEF Nav!Has
    <3>2. n \in 1..Len(t) + 1 /\ Append(t, a)[n] = "home"
      BY <1>2, <3>1
    <3>3. QED
      BY <1>2, <3>2 DEF Nav!Has
  <2>3. ASSUME Nav!Has(Append(t, a), "home"), a # "home" PROVE Nav!Has(t, "home")
    BY <1>2, <2>3 DEF Nav!Has
  <2>4. QED
    BY <2>1, <2>2, <2>3
<1>7. QED
  BY <1>2, <1>3, <1>4, <1>5, <1>6 DEF TaskFits

\* A task without its splash screen.
LEMMA TailFits ==
  ASSUME NEW t, TaskFits(t), Nav!Has(t, "splash")
  PROVE  TaskFits(Tail(t)) /\ (Nav!Has(Tail(t), "home") => Nav!Has(t, "home")) /\ Len(Tail(t)) = Len(t) - 1
<1>1. t \in Seq(Nav!Activity) /\ t # <<>> /\ t[1] = "splash"
  BY DEF TaskFits, Nav!Has
<1>2. /\ Tail(t) \in Seq(Nav!Activity) /\ Len(Tail(t)) = Len(t) - 1 /\ Len(t) \in Nat \ {0}
      /\ DOMAIN Tail(t) = 1..Len(t) - 1 /\ DOMAIN t = 1..Len(t)
      /\ \A n \in 1..Len(t) - 1 : Tail(t)[n] = t[n + 1]
  BY <1>1
<1>3. ASSUME NEW n \in 1..Len(t) - 1
      PROVE  /\ Tail(t)[n] # "splash"
             /\ Tail(t)[n] = "branch" => n > 1 /\ Tail(t)[n - 1] = "home"
  <2>1. n + 1 \in 1..Len(t) /\ Tail(t)[n] = t[n + 1]
    BY <1>2
  <2>2. t[n + 1] # "splash"
    BY <1>2, <2>1 DEF TaskFits
  <2>3. ASSUME t[n + 1] = "branch" PROVE t[n] = "home"
    BY <1>2, <2>1, <2>3 DEF TaskFits
  <2>4. ASSUME t[n + 1] = "branch" PROVE n > 1 /\ Tail(t)[n - 1] = t[n]
    <3>1. n # 1
      BY <1>1, <2>3, <2>4
    <3>2. QED
      BY <1>2, <3>1
  <2>5. QED
    BY <2>1, <2>2, <2>3, <2>4
<1>4. Nav!Has(Tail(t), "home") => Nav!Has(t, "home")
  BY <1>2 DEF Nav!Has
<1>5. QED
  BY <1>2, <1>3, <1>4 DEF TaskFits

\* What AuthActivity does to a fitting task.
LEMMA OpenAuthFits ==
  ASSUME NEW t, TaskFits(t), login \in BOOLEAN
  PROVE  /\ TaskFits(Nav!OpenAuth(t)) /\ Nav!OpenAuth(t) # <<>> /\ Len(Nav!OpenAuth(t)) = Len(t) + 1
         /\ Nav!Last(Nav!OpenAuth(t)) = IF login THEN "home" ELSE "auth"
         /\ ~login /\ Nav!Has(Nav!OpenAuth(t), "home") => Nav!Has(t, "home")
<1>1. "home" \in Nav!Activity /\ "auth" \in Nav!Activity
  BY DEF Nav!Activity
<1>2. CASE login
  BY <1>1, <1>2, AppendedFits DEF Nav!OpenAuth
<1>3. CASE ~login
  BY <1>1, <1>3, AppendedFits DEF Nav!OpenAuth
<1>4. QED
  BY <1>2, <1>3

\* What a logout keeps of the task.
LEMMA KeptFits ==
  ASSUME NEW t, TaskFits(t), t # <<>>
  PROVE  TaskFits(Nav!Kept(t)) /\ Len(Nav!Kept(t)) < Len(t)
<1> DEFINE n == Nav!LastAuth(t)
<1>1. t \in Seq(Nav!Activity) /\ Len(t) \in Nat \ {0} /\ DOMAIN t = 1..Len(t)
  BY DEF TaskFits
<1>2. n \in 0..Len(t)
  <2> DEFINE I == {j \in 1..Len(t) : t[j] = "auth"}
  <2>1. n = IF I # {} THEN CHOOSE x \in I : \A y \in I : x >= y ELSE 0
    BY DEF Nav!LastAuth, Nav!SelectLastInSeq, Nav!Max
  <2>2. I \subseteq 0..Len(t)
    BY <1>1
  <2>3. ASSUME I # {} PROVE n \in I
    <3>1. \E x \in I : \A y \in I : x >= y
      BY <1>1, <2>2, <2>3, GreatestOf
    <3>2. QED
      BY <2>1, <2>3, <3>1
  <2>4. ASSUME I = {} PROVE n = 0
    BY <2>1, <2>4
  <2>5. QED
    BY <1>1, <2>2, <2>3, <2>4
<1>3. PICK m \in 0..Len(t) - 1 : Nav!Kept(t) = SubSeq(t, 1, m)
  BY <1>1, <1>2 DEF Nav!Kept
<1>4. /\ SubSeq(t, 1, m) \in Seq(Nav!Activity) /\ Len(SubSeq(t, 1, m)) = m /\ DOMAIN SubSeq(t, 1, m) = 1..m
      /\ \A j \in 1..m : SubSeq(t, 1, m)[j] = t[j]
  BY <1>1
<1>5. QED
  BY <1>1, <1>3, <1>4 DEF TaskFits

\* The invariant of the task holds at first: there is none.
LEMMA NavInvInit == Nav!Init => NavInv
<1>1. <<>> \in Seq(Nav!Activity) /\ DOMAIN <<>> = {}
  OBVIOUS
<1>2. QED
  BY <1>1 DEF Nav!Init, NavInv, TaskFits, Nav!Has

\* A task of one activity.
LEMMA SingleFits ==
  ASSUME NEW a \in {"intro", "splash"}
  PROVE  TaskFits(<<a>>) /\ ~Nav!Has(<<a>>, "home") /\ Nav!Last(<<a>>) = a
  BY DEF TaskFits, Nav!Has, Nav!Activity, Nav!Last

\* A task whose top is known is not empty.
LEMMA TopIsThere == \A t, a : Nav!TopIs(t, a) => t # <<>> /\ Nav!Last(t) = a
  BY DEF Nav!TopIs

\* What a step of the task does: it keeps the invariant, and does not open the login screen over a login.
NavStep ==
  /\ NavInv'
  /\ Nav!LoginScreenGone

\* A step that takes the top off, or opens nothing, is a good one.
LEMMA BackStep ==
  ASSUME NavInv, task # <<>>, task' = Nav!Front(task), UNCHANGED <<login, leftover>>
  PROVE  NavStep
<1>1. TaskFits(Nav!Front(task)) /\ (Nav!Has(Nav!Front(task), "home") => Nav!Has(task, "home"))
  BY PoppedFits DEF NavInv
<1>2. Len(Nav!Front(task)) = Len(task) - 1 /\ Len(task) \in Nat
  BY Popped DEF NavInv, TaskFits
<1>3. NavInv'
  BY <1>1 DEF NavInv
<1>4. Nav!LoginScreenGone
  BY <1>2 DEF Nav!LoginScreenGone
<1>5. QED
  BY <1>3, <1>4 DEF NavStep

\* A step that starts AuthActivity over a part of the task is a good one.
LEMMA OpenAuthStep ==
  ASSUME NavInv, NEW t, TaskFits(t), Nav!Has(t, "home") /\ ~login => Nav!Has(task, "home") \/ leftover', task' = Nav!OpenAuth(t),
         UNCHANGED login, leftover' \in BOOLEAN, leftover => leftover'
  PROVE  NavStep
<1>1. /\ TaskFits(Nav!OpenAuth(t)) /\ Nav!OpenAuth(t) # <<>>
      /\ Nav!Last(Nav!OpenAuth(t)) = IF login THEN "home" ELSE "auth"
      /\ ~login /\ Nav!Has(Nav!OpenAuth(t), "home") => Nav!Has(t, "home")
  BY OpenAuthFits DEF NavInv
<1>2. NavInv'
  BY <1>1 DEF NavInv
<1>3. Nav!LoginScreenGone
  BY <1>1 DEF Nav!LoginScreenGone, Nav!TopIs
<1>4. QED
  BY <1>2, <1>3 DEF NavStep

\* A step that puts something other than the login screen on a part of the task is a good one.
LEMMA OpenStep ==
  ASSUME NavInv, NEW t, TaskFits(t), NEW a \in {"home", "branch", "intro"}, task' = Append(t, a), a = "branch" => Nav!TopIs(t, "home"),
         login' \in BOOLEAN, leftover' \in BOOLEAN,
         ~login' /\ ~leftover' => a # "home" /\ ~Nav!Has(t, "home")
  PROVE  NavStep
<1>1. a \in Nav!Activity \ {"splash"}
  BY DEF Nav!Activity
<1>2. /\ TaskFits(Append(t, a)) /\ Append(t, a) # <<>> /\ Nav!Last(Append(t, a)) = a
      /\ Nav!Has(Append(t, a), "home") <=> a = "home" \/ Nav!Has(t, "home")
  BY <1>1, AppendedFits
<1>3. NavInv'
  BY <1>2 DEF NavInv
<1>4. Nav!LoginScreenGone
  BY <1>2 DEF Nav!LoginScreenGone, Nav!TopIs
<1>5. QED
  BY <1>3, <1>4 DEF NavStep

\* A step that leaves the task is a good one.
LEMMA StayStep ==
  ASSUME NavInv, UNCHANGED <<task, login, leftover>>
  PROVE  NavStep
<1>1. NavInv'
  BY DEF NavInv
<1>2. Nav!LoginScreenGone
  BY DEF Nav!LoginScreenGone
<1>3. QED
  BY <1>1, <1>2 DEF NavStep

\* The introduction ends.
LEMMA IntroSkipStep == ASSUME NavInv, Nav!IntroSkip PROVE NavStep
<1> DEFINE t == IF fromHelp THEN Append(Nav!Front(task), "home") ELSE Nav!Front(task)
<1>1. /\ task # <<>> /\ task' = Nav!OpenAuth(t) /\ UNCHANGED login
      /\ leftover' = (leftover \/ (fromHelp /\ ~login))
  BY TopIsThere DEF Nav!IntroSkip
<1>2. TaskFits(Nav!Front(task)) /\ (Nav!Has(Nav!Front(task), "home") => Nav!Has(task, "home"))
  BY <1>1, PoppedFits DEF NavInv
<1>3. TaskFits(Append(Nav!Front(task), "home"))
  BY <1>2, AppendedFits DEF Nav!Activity
<1>4. TaskFits(t)
  BY <1>2, <1>3
<1>5. Nav!Has(t, "home") /\ ~login => Nav!Has(task, "home") \/ leftover'
  BY <1>1, <1>2
<1>6. leftover' \in BOOLEAN /\ (leftover => leftover')
  BY <1>1 DEF NavInv
<1> HIDE DEF t
<1>7. QED
  BY <1>1, <1>4, <1>5, <1>6, OpenAuthStep

\* The logout.
LEMMA LogoutStep == ASSUME NavInv, Nav!Logout PROVE NavStep
<1>1. /\ task # <<>> /\ login' = FALSE /\ task' = Append(Nav!Kept(task), "auth")
      /\ leftover' = (leftover \/ Nav!Has(Nav!Kept(task), "home"))
  BY TopIsThere DEF Nav!Logout, Nav!LoginScreen
<1>2. TaskFits(Nav!Kept(task))
  BY <1>1, KeptFits DEF NavInv
<1>3. TaskFits(task') /\ (Nav!Has(task', "home") => Nav!Has(Nav!Kept(task), "home"))
  BY <1>1, <1>2, AppendedFits DEF Nav!Activity
<1>4. NavInv'
  BY <1>1, <1>3 DEF NavInv, Nav!Has
<1>5. Nav!LoginScreenGone
  BY <1>1 DEF Nav!LoginScreenGone
<1>6. QED
  BY <1>4, <1>5 DEF NavStep

\* Every step of the task is a good one.
LEMMA NavInvStep == NavInv /\ [Nav!Next]_navVars => NavStep
<1> SUFFICES ASSUME NavInv, [Nav!Next]_navVars PROVE NavStep
  OBVIOUS
<1>1. TaskFits(task)
  BY DEF NavInv
<1>2. ASSUME Nav!TopIs(task, "intro") \/ Nav!TopIs(task, "splash") \/ Nav!TopIs(task, "auth") \/ Nav!TopIs(task, "home") \/ Nav!TopIs(task, "branch")
      PROVE  task # <<>> /\ TaskFits(Nav!Front(task)) /\ (Nav!Has(Nav!Front(task), "home") => Nav!Has(task, "home"))
  BY <1>1, <1>2, PoppedFits, TopIsThere
<1>3. CASE Nav!Launch
  <2>1. PICK a \in {"intro", "splash"} : task' = <<a>> /\ UNCHANGED <<login, leftover>>
    BY <1>3 DEF Nav!Launch, Nav!FirstScreen, Nav!Persisted
  <2>2. NavInv'
    BY <2>1, SingleFits DEF NavInv
  <2>3. Nav!LoginScreenGone
    BY <2>1, SingleFits DEF Nav!LoginScreenGone, Nav!TopIs
  <2>4. QED
    BY <2>2, <2>3 DEF NavStep
<1>4. CASE Nav!IntroSkip
  BY <1>4, IntroSkipStep
<1>5. CASE Nav!IntroBack \/ Nav!SplashBack \/ Nav!AuthBack \/ Nav!HomeBack \/ Nav!BranchBack
  BY <1>2, <1>5, BackStep DEF Nav!IntroBack, Nav!SplashBack, Nav!AuthBack, Nav!HomeBack, Nav!BranchBack, Nav!Persisted
<1>6. CASE Nav!SplashTimer
  <2>1. TaskFits(Tail(task)) /\ (Nav!Has(Tail(task), "home") => Nav!Has(task, "home"))
    BY <1>1, <1>6, TailFits DEF Nav!SplashTimer
  <2>2. task' = Nav!OpenAuth(Tail(task)) /\ UNCHANGED <<login, leftover>>
    BY <1>6 DEF Nav!SplashTimer, Nav!Persisted
  <2>3. QED
    BY <2>1, <2>2, OpenAuthStep DEF NavInv
<1>7. CASE Nav!LateTimer
  <2>1. task' = Nav!OpenAuth(task) /\ UNCHANGED <<login, leftover>>
    BY <1>7 DEF Nav!LateTimer, Nav!Persisted
  <2>2. QED
    BY <1>1, <2>1, OpenAuthStep DEF NavInv
<1>8. CASE Nav!LoginAsked
  BY <1>8, StayStep DEF Nav!LoginAsked, Nav!Persisted
<1>9. CASE Nav!LoginReply
  <2>1. CASE UNCHANGED <<login, task, leftover>>
    BY <2>1, StayStep
  <2>2. CASE login' = TRUE /\ task' = Append(task, "home") /\ leftover' = FALSE
    BY <1>1, <2>2, OpenStep
  <2>3. QED
    BY <1>9, <2>1, <2>2 DEF Nav!LoginReply
<1>10. CASE Nav!AuthRecreated
  <2>1. task' = Nav!OpenAuth(Nav!Front(task)) /\ UNCHANGED <<login, leftover>>
    BY <1>10 DEF Nav!AuthRecreated, Nav!Persisted
  <2>2. TaskFits(Nav!Front(task)) /\ (Nav!Has(Nav!Front(task), "home") => Nav!Has(task, "home"))
    BY <1>2, <1>10 DEF Nav!AuthRecreated
  <2>3. QED
    BY <2>1, <2>2, OpenAuthStep DEF NavInv
<1>11. CASE Nav!OpenBranch
  <2>1. task' = Append(task, "branch") /\ Nav!TopIs(task, "home") /\ UNCHANGED <<login, leftover>>
    BY <1>11 DEF Nav!OpenBranch, Nav!Persisted
  <2>2. QED
    BY <1>1, <2>1, OpenStep DEF NavInv
<1>12. CASE Nav!BranchArrow
  <2>1. task' = Append(Nav!Front(task), "home") /\ Nav!TopIs(task, "branch") /\ UNCHANGED <<login, leftover>>
    BY <1>12 DEF Nav!BranchArrow, Nav!Persisted
  <2>2. TaskFits(Nav!Front(task))
    BY <1>2, <2>1
  <2>3. Nav!Has(task, "home")
    <3>1. Len(task) \in DOMAIN task /\ task[Len(task)] = "branch"
      BY <1>1, <2>1 DEF Nav!TopIs, Nav!Last, TaskFits
    <3>2. Len(task) > 1 /\ task[Len(task) - 1] = "home" /\ Len(task) - 1 \in DOMAIN task
      BY <1>1, <3>1 DEF TaskFits
    <3>3. QED
      BY <3>2 DEF Nav!Has
  <2>4. login \/ leftover
    BY <2>3 DEF NavInv
  <2>5. QED
    BY <2>1, <2>2, <2>4, OpenStep DEF NavInv
<1>13. CASE Nav!OpenHelp
  <2>1. task' = Append(task, "intro") /\ UNCHANGED <<login, leftover>>
    BY <1>13 DEF Nav!OpenHelp
  <2>2. QED
    BY <1>1, <2>1, OpenStep DEF NavInv
<1>14. CASE Nav!Logout
  BY <1>14, LogoutStep
<1>15. CASE Nav!SwipeAway
  <2>1. task' = <<>> /\ login' = login /\ leftover' = FALSE
    BY <1>15 DEF Nav!SwipeAway, Nav!Persisted
  <2>2. TaskFits(<<>>) /\ ~Nav!Has(<<>>, "home")
    <3>1. <<>> \in Seq(Nav!Activity) /\ DOMAIN <<>> = {}
      OBVIOUS
    <3>2. QED
      BY <3>1 DEF TaskFits, Nav!Has
  <2>3. NavInv'
    BY <2>1, <2>2 DEF NavInv
  <2>4. Nav!LoginScreenGone
    BY <2>1 DEF Nav!LoginScreenGone, Nav!TopIs
  <2>5. QED
    BY <2>3, <2>4 DEF NavStep
<1>16. CASE UNCHANGED navVars
  BY <1>16, StayStep DEF navVars
<1>17. QED
  BY <1>3, <1>4, <1>5, <1>6, <1>7, <1>8, <1>9, <1>10, <1>11, <1>12, <1>13, <1>14, <1>15, <1>16 DEF Nav!Next

\* What the invariant of the task says of the screen.
LEMMA NavInvImplies == NavInv => Nav!HomeNeedsLogin
<1> SUFFICES ASSUME NavInv, Nav!TopIs(task, "home") PROVE Nav!Has(task, "home")
  BY DEF NavInv, Nav!HomeNeedsLogin
<1>1. Len(task) \in DOMAIN task /\ task[Len(task)] = "home"
  BY DEF NavInv, TaskFits, Nav!TopIs, Nav!Last
<1>2. QED
  BY <1>1 DEF Nav!Has

\* The bounds of the task and of what is pending.
NavBounds ==
  /\ Len(task) <= MaxTask /\ late \in 0..MaxLate /\ asked \in 0..MaxAsked
  /\ firstTime \in BOOLEAN /\ fromHelp \in BOOLEAN

\* What AuthActivity and the back key do to the length.
LEMMA Lengths ==
  ASSUME NavInv, NEW t, TaskFits(t)
  PROVE  /\ Len(t) \in Nat /\ Len(Nav!OpenAuth(t)) = Len(t) + 1
         /\ t # <<>> => Len(Nav!Front(t)) = Len(t) - 1 /\ TaskFits(Nav!Front(t))
         /\ Nav!Has(t, "splash") => Len(Tail(t)) = Len(t) - 1 /\ TaskFits(Tail(t))
<1>1. Len(t) \in Nat
  BY DEF TaskFits
<1>2. Len(Nav!OpenAuth(t)) = Len(t) + 1
  BY OpenAuthFits DEF NavInv
<1>3. ASSUME t # <<>> PROVE Len(Nav!Front(t)) = Len(t) - 1 /\ TaskFits(Nav!Front(t))
  BY <1>3, Popped, PoppedFits DEF TaskFits
<1>4. ASSUME Nav!Has(t, "splash") PROVE Len(Tail(t)) = Len(t) - 1 /\ TaskFits(Tail(t))
  BY <1>4, TailFits
<1>5. QED
  BY <1>1, <1>2, <1>3, <1>4

LEMMA NavBoundsInit == Nav!Init => NavBounds
<1>1. MaxTask \in Nat \ {0} /\ MaxLate \in Nat /\ MaxAsked \in Nat
  BY BoundsAssumption DEF Nav!BoundsAssumption
<1>2. Len(<<>>) = 0 /\ 0 \in 0..MaxLate /\ 0 \in 0..MaxAsked /\ 0 <= MaxTask
  BY <1>1
<1>3. QED
  BY <1>2 DEF Nav!Init, NavBounds

\* Every step of the task keeps the bounds.
LEMMA NavBoundsStep == NavInv /\ NavBounds /\ [Nav!Next]_navVars => NavBounds'
<1> SUFFICES ASSUME NavInv, NavBounds, [Nav!Next]_navVars PROVE NavBounds'
  OBVIOUS
<1>1. MaxTask \in Nat \ {0} /\ MaxLate \in Nat /\ MaxAsked \in Nat
  BY BoundsAssumption DEF Nav!BoundsAssumption
<1>2. TaskFits(task) /\ Len(task) \in Nat
  BY Lengths DEF NavInv
<1>3. late \in Nat /\ asked \in Nat
  BY <1>1 DEF NavBounds
<1>4. CASE Nav!Launch
  <2>1. Len(task') = 1 /\ UNCHANGED <<late, asked, firstTime, fromHelp>>
    BY <1>4 DEF Nav!Launch, Nav!FirstScreen, Nav!Persisted, Nav!pending
  <2>2. QED
    BY <1>1, <2>1 DEF NavBounds
<1>5. CASE Nav!IntroSkip \/ Nav!OpenHelp \/ Nav!Logout
  BY <1>5 DEF Nav!IntroSkip, Nav!OpenHelp, Nav!Logout, Nav!Fits, Nav!pending, NavBounds
<1>6. CASE Nav!IntroBack \/ Nav!AuthBack \/ Nav!HomeBack \/ Nav!BranchBack
  <2>1. task # <<>> /\ task' = Nav!Front(task) /\ UNCHANGED <<late, asked, firstTime, fromHelp>>
    BY <1>6, TopIsThere DEF Nav!IntroBack, Nav!AuthBack, Nav!HomeBack, Nav!BranchBack, Nav!Persisted, Nav!pending
  <2>2. Len(task') = Len(task) - 1
    BY <1>2, <2>1, Lengths
  <2>3. QED
    BY <1>1, <1>2, <2>1, <2>2 DEF NavBounds
<1>7. CASE Nav!SplashBack
  <2>1. task # <<>> /\ task' = Nav!Front(task) /\ late < MaxLate /\ late' = late + 1 /\ UNCHANGED <<asked, firstTime, fromHelp>>
    BY <1>7, TopIsThere DEF Nav!SplashBack, Nav!Persisted
  <2>2. Len(task') = Len(task) - 1
    BY <1>2, <2>1, Lengths
  <2>3. QED
    BY <1>1, <1>2, <1>3, <2>1, <2>2 DEF NavBounds
<1>8. CASE Nav!SplashTimer
  <2>1. task' = Nav!OpenAuth(Tail(task)) /\ Nav!Has(task, "splash") /\ UNCHANGED <<late, asked, firstTime, fromHelp>>
    BY <1>8 DEF Nav!SplashTimer, Nav!Persisted, Nav!pending
  <2>2. TaskFits(Tail(task)) /\ Len(Tail(task)) = Len(task) - 1
    BY <1>2, <2>1, Lengths
  <2>3. Len(task') = Len(Tail(task)) + 1
    BY <2>1, <2>2, Lengths
  <2>4. QED
    BY <1>1, <1>2, <2>1, <2>2, <2>3 DEF NavBounds
<1>9. CASE Nav!LateTimer
  <2>1. late > 0 /\ late' = late - 1 /\ Len(task') <= MaxTask /\ UNCHANGED <<asked, firstTime, fromHelp>>
    BY <1>9 DEF Nav!LateTimer, Nav!Fits, Nav!Persisted
  <2>2. QED
    BY <1>1, <1>3, <2>1 DEF NavBounds
<1>10. CASE Nav!LoginAsked
  BY <1>1, <1>3, <1>10 DEF Nav!LoginAsked, Nav!Persisted, NavBounds
<1>11. CASE Nav!LoginReply
  <2>1. asked > 0 /\ asked' = asked - 1 /\ (Len(task') <= MaxTask \/ task' = task) /\ UNCHANGED <<late, firstTime, fromHelp>>
    BY <1>11 DEF Nav!LoginReply, Nav!Fits
  <2>2. QED
    BY <1>1, <1>3, <2>1 DEF NavBounds
<1>12. CASE Nav!AuthRecreated
  <2>1. task # <<>> /\ task' = Nav!OpenAuth(Nav!Front(task)) /\ UNCHANGED <<late, asked, firstTime, fromHelp>>
    BY <1>12, TopIsThere DEF Nav!AuthRecreated, Nav!Persisted, Nav!pending
  <2>2. TaskFits(Nav!Front(task)) /\ Len(Nav!Front(task)) = Len(task) - 1
    BY <1>2, <2>1, Lengths
  <2>3. Len(task') = Len(Nav!Front(task)) + 1
    BY <2>1, <2>2, Lengths
  <2>4. QED
    BY <1>1, <1>2, <2>1, <2>2, <2>3 DEF NavBounds
<1>13. CASE Nav!OpenBranch
  BY <1>13 DEF Nav!OpenBranch, Nav!Fits, Nav!Persisted, Nav!pending, NavBounds
<1>14. CASE Nav!BranchArrow
  <2>1. task # <<>> /\ task' = Append(Nav!Front(task), "home") /\ UNCHANGED <<late, asked, firstTime, fromHelp>>
    BY <1>14, TopIsThere DEF Nav!BranchArrow, Nav!Persisted, Nav!pending
  <2>2. TaskFits(Nav!Front(task)) /\ Len(Nav!Front(task)) = Len(task) - 1
    BY <1>2, <2>1, Lengths
  <2>3. Len(task') = Len(Nav!Front(task)) + 1
    BY <2>1, <2>2, AppendedFits DEF Nav!Activity
  <2>4. QED
    BY <1>1, <1>2, <2>1, <2>2, <2>3 DEF NavBounds
<1>15. CASE Nav!SwipeAway
  <2>1. task' = <<>> /\ late' = 0 /\ asked' = 0 /\ UNCHANGED <<firstTime, fromHelp>> /\ Len(<<>>) = 0
    BY <1>15 DEF Nav!SwipeAway, Nav!Persisted
  <2>2. QED
    BY <1>1, <2>1 DEF NavBounds
<1>16. CASE UNCHANGED navVars
  BY <1>16 DEF navVars, NavBounds
<1>17. QED
  BY <1>4, <1>5, <1>6, <1>7, <1>8, <1>9, <1>10, <1>11, <1>12, <1>13, <1>14, <1>15, <1>16 DEF Nav!Next

\* The types of the task follow.
LEMMA NavTypes == NavInv /\ NavBounds => Nav!TypeOK
<1> SUFFICES ASSUME NavInv, NavBounds PROVE Nav!TypeOK
  OBVIOUS
<1>1. task \in Seq(Nav!Activity) /\ Len(task) \in 0..MaxTask
  BY BoundsAssumption DEF Nav!BoundsAssumption, NavInv, NavBounds, TaskFits
<1>2. task \in [1..Len(task) -> Nav!Activity]
  BY <1>1
<1>3. task \in UNION {[1..n -> Nav!Activity] : n \in 0..MaxTask}
  BY <1>1, <1>2
<1>4. QED
  BY <1>3 DEF Nav!TypeOK, NavInv, NavBounds, TaskFits
-----------------------------------------------------------------------------
(* The filter *)

\* The list is right as it was when the filter was applied last, and it shows rows only.
FilterInv == Filter!TypeOK /\ Filter!ListMatchesCriteria

\* The invariant of the filter holds at first: it is not open.
LEMMA FilterInvInit == Filter!Init => FilterInv
<1> SUFFICES ASSUME Filter!Init PROVE FilterInv
  OBVIOUS
<1>1. 1 \in Filter!Day /\ MaxDay \in Filter!Day /\ 0 \in 0..Grievances /\ 0 \in 0..Statuses
  BY BoundsAssumption DEF Filter!NumbersAssumption, Filter!Day
<1>2. QED
  BY <1>1 DEF FilterInv, Filter!Init, Filter!TypeOK, Filter!ListMatchesCriteria, Filter!Rows

\* The query finds what the criteria ask for, in English, but the rows whose word is no word of the spinner.
LEMMA QueryIsRight ==
  ASSUME Filter!TypeOK, language = "en", ~Filter!InvalidDates
  PROVE  {c \in Filter!Queried : Filter!InRange(row[c].time)} = Filter!Wanted \ Filter!Misspelt
<1> DEFINE OfStatus(c) == status \in {0, row[c].status}
           OfGrievance(c) == grievance = 0 \/ (row[c].grievance = grievance /\ grievance \notin Spaced)
<1>1. ASSUME NEW c \in Filter!Rows
      PROVE  row[c] \in Filter!Row
  BY <1>1 DEF Filter!Rows, Filter!TypeOK
<1>2. ASSUME NEW c \in Filter!Rows
      PROVE  /\ row[c].time \in 0..MaxDay /\ row[c].status \in 1..Statuses + 1 /\ row[c].grievance \in 1..Grievances
  BY <1>1 DEF Filter!Row, Filter!Posted
<1>3. start \in 1..MaxDay /\ end \in 1..MaxDay /\ start <= end /\ status \in 0..Statuses /\ grievance \in 0..Grievances
  BY DEF Filter!TypeOK, Filter!Day, Filter!InvalidDates
<1>4. MaxDay \in Nat /\ Statuses \in Nat /\ Grievances \in Nat
  BY BoundsAssumption DEF Filter!NumbersAssumption
<1>5. ASSUME NEW c \in Filter!Rows
      PROVE  Filter!InRange(row[c].time) <=> row[c].time \in start..end
  BY <1>2, <1>3, <1>4, <1>5 DEF Filter!InRange
<1>6. \A n : Filter!IsAll(n) <=> n = 0
  BY DEF Filter!IsAll, Filter!Word
<1>7. Filter!HasStatus = {c \in Filter!Rows : row[c].status = status}
  BY DEF Filter!HasStatus, Filter!Word
<1>8. Filter!HasGrievance = {c \in Filter!Rows : row[c].grievance = grievance /\ grievance \notin Spaced}
  <2>1. ASSUME NEW c \in Filter!Rows
        PROVE  Filter!RowGrievance(c) = Filter!Word(grievance) <=> row[c].grievance = grievance /\ grievance \notin Spaced
    BY " en" # "en" DEF Filter!RowGrievance, Filter!Word
  <2>2. QED
    BY <2>1 DEF Filter!HasGrievance
<1>9. Filter!Queried = {c \in Filter!Rows : OfStatus(c) /\ OfGrievance(c)}
  <2>1. CASE grievance = 0 /\ status = 0
    BY <1>6, <2>1 DEF Filter!Queried
  <2>2. CASE grievance = 0 /\ status # 0
    BY <1>6, <1>7, <2>2 DEF Filter!Queried
  <2>3. CASE grievance # 0 /\ status = 0
    BY <1>6, <1>8, <2>3 DEF Filter!Queried
  <2>4. CASE grievance # 0 /\ status # 0
    BY <1>6, <1>7, <1>8, <2>4 DEF Filter!Queried
  <2>5. QED
    BY <2>1, <2>2, <2>3, <2>4
<1>10. ASSUME NEW c \in Filter!Rows
       PROVE  c \in Filter!Wanted \ Filter!Misspelt <=> OfStatus(c) /\ OfGrievance(c) /\ row[c].time \in start..end
  <2>1. 1 \in 1..Statuses /\ Statuses + 1 \notin 0..Statuses
    BY BoundsAssumption DEF Filter!NumbersAssumption
  <2>2. c \in Filter!Wanted <=>
          /\ grievance \in {0, row[c].grievance} /\ row[c].time \in start..end
          /\ status \in {0, row[c].status} \/ (status = 1 /\ row[c].status = Statuses + 1)
    BY <1>10 DEF Filter!Wanted, Filter!Pending, Filter!Posted
  <2>3. c \in Filter!Misspelt <=> (grievance # 0 /\ row[c].grievance \in Spaced) \/ (status = 1 /\ row[c].status = Statuses + 1)
    BY <1>10 DEF Filter!Misspelt, Filter!Pending, Filter!Posted
  <2>4. status = 1 /\ row[c].status = Statuses + 1 => ~OfStatus(c)
    BY <1>3, <2>1
  <2>5. QED
    BY <2>2, <2>3, <2>4
<1>11. QED
  BY <1>5, <1>9, <1>10 DEF Filter!Wanted

\* Every step of the filter keeps its invariant: what changes rows or criteria makes the list outdated.
LEMMA FilterInvStep == FilterInv /\ [Filter!Next]_filterVars => FilterInv'
<1> SUFFICES ASSUME FilterInv, [Filter!Next]_filterVars PROVE FilterInv'
  OBVIOUS
<1> USE DEF FilterInv
<1>1. ASSUME NEW l \in {"en", "hi"}, Filter!OnCreate(l) PROVE FilterInv'
  <2>1. 1 \in Filter!Day /\ MaxDay \in Filter!Day /\ 0 \in 0..Grievances /\ 0 \in 0..Statuses
    BY BoundsAssumption DEF Filter!NumbersAssumption, Filter!Day
  <2>2. QED
    BY <1>1, <2>1 DEF Filter!OnCreate, Filter!TypeOK, Filter!ListMatchesCriteria, Filter!Rows
<1>2. CASE Filter!ShowFilterDialog
  BY <1>2 DEF Filter!ShowFilterDialog, Filter!TypeOK, Filter!ListMatchesCriteria, Filter!Rows, Filter!criteria, Filter!Wanted, Filter!Misspelt
<1>3. CASE Filter!ApplyFilter
  <2>1. Filter!Queried \subseteq Filter!Rows
    BY DEF Filter!Queried, Filter!HasStatus, Filter!HasGrievance
  <2>2. Filter!TypeOK'
    BY <1>3, <2>1 DEF Filter!ApplyFilter, Filter!TypeOK, Filter!Rows, Filter!criteria
  <2>3. CASE Filter!InvalidDates
    BY <1>3, <2>2, <2>3 DEF Filter!ApplyFilter, Filter!ListMatchesCriteria, Filter!Rows, Filter!criteria, Filter!Wanted, Filter!Misspelt
  <2>4. CASE ~Filter!InvalidDates
    <3>1. Filter!Wanted' = Filter!Wanted /\ Filter!Misspelt' = Filter!Misspelt
      BY <1>3 DEF Filter!ApplyFilter, Filter!Rows, Filter!criteria, Filter!Wanted, Filter!Misspelt
    <3>2. shown' = {c \in Filter!Queried : Filter!InRange(row[c].time)}
      BY <1>3, <2>4 DEF Filter!ApplyFilter
    <3>3. language' = language
      BY <1>3 DEF Filter!ApplyFilter, Filter!criteria
    <3>4. QED
      BY <2>2, <2>4, <3>1, <3>2, <3>3, QueryIsRight DEF Filter!ListMatchesCriteria
  <2>5. QED
    BY <2>3, <2>4
<1>4. CASE Filter!CancelFilter
  BY <1>4 DEF Filter!CancelFilter, Filter!TypeOK, Filter!ListMatchesCriteria, Filter!Rows, Filter!criteria, Filter!Wanted, Filter!Misspelt
<1>5. CASE Filter!Close
  BY <1>5 DEF Filter!Close, Filter!TypeOK, Filter!ListMatchesCriteria, Filter!Rows, Filter!criteria
<1>6. ASSUME NEW d \in Filter!Day, Filter!PickStart(d) \/ Filter!PickEnd(d) PROVE FilterInv'
  BY <1>6 DEF Filter!PickStart, Filter!PickEnd, Filter!Picked, Filter!TypeOK, Filter!ListMatchesCriteria, Filter!Rows
<1>7. ASSUME NEW n \in 0..Grievances, Filter!SelectGrievance(n) PROVE FilterInv'
  BY <1>7 DEF Filter!SelectGrievance, Filter!TypeOK, Filter!ListMatchesCriteria, Filter!Rows
<1>8. ASSUME NEW n \in 0..Statuses, Filter!SelectStatus(n) PROVE FilterInv'
  BY <1>8 DEF Filter!SelectStatus, Filter!TypeOK, Filter!ListMatchesCriteria, Filter!Rows
<1>9. ASSUME NEW c \in Complaint, NEW r \in Filter!Row, Filter!AddRow(c, r) PROVE FilterInv'
  <2>1. r # Filter!NoRow
    BY DEF Filter!Row, Filter!NoRow
  <2>2. Filter!Rows \subseteq Filter!Rows'
    BY <1>9, <2>1 DEF Filter!AddRow, Filter!Rows, Filter!TypeOK
  <2>3. row' \in [Complaint -> Filter!Row \cup {Filter!NoRow}]
    BY <1>9 DEF Filter!AddRow, Filter!TypeOK
  <2>4. outdated' /\ UNCHANGED <<open, language, dialog, error, start, end, grievance, status, shown>>
    BY <1>9 DEF Filter!AddRow, Filter!activity, Filter!criteria
  <2>5. QED
    BY <2>2, <2>3, <2>4 DEF Filter!TypeOK, Filter!ListMatchesCriteria
<1>10. ASSUME NEW c \in Complaint, NEW s \in 1..Filter!Posted, Filter!UpdateStatus(c, s) PROVE FilterInv'
  <2>1. row[c] \in Filter!Row
    BY <1>10 DEF Filter!UpdateStatus, Filter!Rows, Filter!TypeOK
  <2>2. row' = [row EXCEPT ![c] = [row[c] EXCEPT !.status = s]]
    BY <1>10 DEF Filter!UpdateStatus
  <2>3. [row[c] EXCEPT !.status = s] \in Filter!Row
    BY <2>1, <1>10 DEF Filter!Row
  <2>4. [row[c] EXCEPT !.status = s] # Filter!NoRow
    BY <2>3 DEF Filter!Row, Filter!NoRow
  <2>5. row' \in [Complaint -> Filter!Row \cup {Filter!NoRow}]
    BY <2>2, <2>3 DEF Filter!TypeOK
  <2>6. Filter!Rows \subseteq Filter!Rows'
    BY <2>2, <2>4 DEF Filter!Rows, Filter!TypeOK
  <2>7. outdated' /\ UNCHANGED <<open, language, dialog, error, start, end, grievance, status, shown>>
    BY <1>10 DEF Filter!UpdateStatus, Filter!activity, Filter!criteria
  <2>8. QED
    BY <2>5, <2>6, <2>7 DEF Filter!TypeOK, Filter!ListMatchesCriteria
<1>11. CASE UNCHANGED filterVars
  BY <1>11 DEF filterVars, Filter!TypeOK, Filter!ListMatchesCriteria, Filter!Rows, Filter!Wanted, Filter!Misspelt
<1>12. QED
  BY <1>1, <1>2, <1>3, <1>4, <1>5, <1>6, <1>7, <1>8, <1>9, <1>10, <1>11 DEF Filter!Next
-----------------------------------------------------------------------------
(* The verdict *)

\* Distances are numbers.
LEMMA DistancesAreNumbers == (\A d \in Distance : d \in Nat) /\ Limit \in Nat /\ MaxRoads \in Nat
  BY BoundsAssumption DEF Verdict!DistanceAssumption

\* What the loop finds is the distance of the first road and the number of the last.
LEMMA ScanFinds ==
  ASSUME NEW r \in Seq(Distance), r # <<>>
  PROVE  Verdict!Scan(r) = [minD |-> r[1], index |-> Len(r)]
<1> DEFINE After(f) == [n \in 0..Len(r) |-> IF n = 0 THEN Verdict!Start(r) ELSE Verdict!Visit(r, n, f[n - 1])]
           g == [n \in 0..Len(r) |-> [minD |-> r[1], index |-> IF n = 0 THEN 1 ELSE n]]
           after == CHOOSE f : f = After(f)
<1>1. Len(r) \in Nat \ {0} /\ r[1] \in Nat
  <2>1. Len(r) \in Nat \ {0} /\ r[1] \in Distance
    OBVIOUS
  <2>2. QED
    BY <2>1, DistancesAreNumbers
<1>2. g = After(g)
  <2>1. ASSUME NEW n \in 0..Len(r)
        PROVE  g[n] = IF n = 0 THEN Verdict!Start(r) ELSE Verdict!Visit(r, n, g[n - 1])
    <3>1. CASE n = 0
      BY <3>1 DEF Verdict!Start
    <3>2. CASE n # 0
      <4>1. n - 1 \in 0..Len(r)
        BY <1>1, <3>2
      <4>2. g[n - 1].minD = r[1] /\ ~(r[1] > r[1])
        BY <1>1, <4>1
      <4>3. QED
        BY <3>2, <4>2 DEF Verdict!Visit
    <3>3. QED
      BY <3>1, <3>2
  <2>2. QED
    BY <2>1
<1>3. after = After(after)
  BY <1>2
<1>4. Verdict!Scan(r) = after[Len(r)]
  BY DEF Verdict!Scan
<1> HIDE DEF after
<1> DEFINE S == {n \in 0..Len(r) : after[n] # g[n]}
<1>5. ASSUME S # {} PROVE FALSE
  <2>1. S \subseteq Nat
    OBVIOUS
  <2>2. PICK n \in S : \A m \in S : n <= m
    BY <1>5, <2>1, LeastOf
  <2>3. n \in 0..Len(r) /\ after[n] # g[n]
    BY <2>2
  <2>4. after[n] = IF n = 0 THEN Verdict!Start(r) ELSE Verdict!Visit(r, n, after[n - 1])
    BY <1>3, <2>3
  <2>5. g[n] = IF n = 0 THEN Verdict!Start(r) ELSE Verdict!Visit(r, n, g[n - 1])
    BY <1>2, <2>3
  <2>6. n # 0
    BY <2>3, <2>4, <2>5
  <2>7. n - 1 \in 0..Len(r) /\ ~(n <= n - 1)
    BY <1>1, <2>3, <2>6
  <2>8. after[n - 1] = g[n - 1]
    BY <2>2, <2>7
  <2>9. QED
    BY <2>3, <2>4, <2>5, <2>6, <2>8
<1>6. Len(r) \in 0..Len(r)
  BY <1>1
<1>7. after[Len(r)] = g[Len(r)]
  BY <1>5, <1>6
<1>8. g[Len(r)] = [minD |-> r[1], index |-> Len(r)]
  BY <1>1, <1>6
<1>9. QED
  BY <1>4, <1>7, <1>8

\* The first road decides; the last is posted.
VerdictInv ==
  /\ Verdict!TypeOK
  /\ refusal => outcome = "far"
  /\ outcome \in {"posted", "far", "closed"} => response # <<>>
  /\ outcome = "posted" => response[1] <= Limit /\ index = Len(response)
  /\ outcome \in {"far", "closed"} => response[1] > Limit

\* An answer is a sequence.
LEMMA AnswersAreSeqs ==
  ASSUME NEW r \in Verdict!Answers
  PROVE  r \in Seq(Distance) /\ Len(r) \in 0..MaxRoads /\ DOMAIN r = 1..Len(r) /\ (r # <<>> => Len(r) > 0)
<1>1. PICK n \in 0..MaxRoads : r \in [1..n -> Distance]
  BY DEF Verdict!Answers
<1>2. r \in Seq(Distance) /\ Len(r) = n
  BY <1>1
<1>3. QED
  BY <1>1, <1>2

\* The invariant of the verdict holds at first, and its steps keep it.
LEMMA VerdictInvInit == Verdict!Init => VerdictInv
<1>1. 0 \in 0..MaxRoads
  BY DistancesAreNumbers
<1>2. QED
  BY <1>1 DEF Verdict!Init, VerdictInv, Verdict!TypeOK, Verdict!Outcome

LEMMA VerdictInvStep == VerdictInv /\ [Verdict!Next]_verdictVars => VerdictInv'
<1> SUFFICES ASSUME VerdictInv, [Verdict!Next]_verdictVars PROVE VerdictInv'
  OBVIOUS
<1>1. response \in Seq(Distance) /\ Len(response) \in 0..MaxRoads
  BY AnswersAreSeqs DEF VerdictInv, Verdict!TypeOK
<1>2. response # <<>> => Verdict!Scan(response) = [minD |-> response[1], index |-> Len(response)]
  BY <1>1, ScanFinds
<1>3. CASE Verdict!EmptyAnswer
  BY <1>3 DEF VerdictInv, Verdict!EmptyAnswer, Verdict!TypeOK, Verdict!Outcome
<1>4. CASE Verdict!FormRefuses \/ Verdict!CardRefuses
  <2>1. response # <<>> /\ Verdict!TooFar(response) /\ outcome' = "far" /\ refusal' \in BOOLEAN /\ UNCHANGED <<screen, response, index>>
    BY <1>4 DEF VerdictInv, Verdict!TypeOK, Verdict!FormRefuses, Verdict!CardRefuses
  <2>2. response[1] > Limit
    BY <1>2, <2>1 DEF Verdict!TooFar
  <2>3. QED
    BY <2>1, <2>2 DEF VerdictInv, Verdict!TypeOK, Verdict!Outcome
<1>5. CASE Verdict!Post
  <2>1. response # <<>> /\ ~(response[1] > Limit) /\ index' = Len(response) /\ outcome' = "posted" /\ outcome = "asked"
        /\ UNCHANGED <<screen, response, refusal>>
    BY <1>2, <1>5 DEF Verdict!Post, Verdict!TooFar
  <2>2. response[1] \in Distance
    BY <1>1, <2>1
  <2>3. response[1] \in Nat /\ Limit \in Nat
    BY <2>2, DistancesAreNumbers
  <2>4. QED
    BY <1>1, <2>1, <2>3 DEF VerdictInv, Verdict!TypeOK, Verdict!Outcome
<1>6. CASE Verdict!DialogOk
  BY <1>6 DEF VerdictInv, Verdict!DialogOk, Verdict!TypeOK, Verdict!Outcome
<1>7. CASE UNCHANGED verdictVars
  BY <1>7 DEF verdictVars, VerdictInv, Verdict!TypeOK
<1>8. QED
  BY <1>3, <1>4, <1>5, <1>6, <1>7 DEF Verdict!Next

\* What the first road and the last tell of the nearest.
LEMMA VerdictInvImplies == VerdictInv => Verdict!VerdictSound /\ Verdict!PostedRoadWhenNearestLast
<1> SUFFICES ASSUME VerdictInv PROVE Verdict!VerdictSound /\ Verdict!PostedRoadWhenNearestLast
  OBVIOUS
<1>1. response \in Seq(Distance) /\ DOMAIN response = 1..Len(response) /\ Len(response) \in Nat /\ (response # <<>> => Len(response) > 0)
  BY AnswersAreSeqs DEF VerdictInv, Verdict!TypeOK
<1>2. \A n \in DOMAIN response : response[n] \in Nat /\ Limit \in Nat
  <2>1. \A n \in DOMAIN response : response[n] \in Distance
    BY <1>1
  <2>2. QED
    BY <2>1, DistancesAreNumbers
<1>3. ASSUME outcome = "posted" PROVE \E n \in Verdict!Roads : response[n] <= Limit
  BY <1>1, <1>3 DEF VerdictInv, Verdict!Roads
<1>4. ASSUME 1 \in Verdict!Nearest, outcome \in {"far", "closed"}, NEW n \in Verdict!Roads PROVE response[n] > Limit
  <2>1. 1 \in DOMAIN response /\ response[1] <= response[n] /\ response[1] > Limit /\ n \in DOMAIN response
    BY <1>4 DEF VerdictInv, Verdict!Nearest, Verdict!Roads
  <2>2. QED
    BY <1>2, <2>1
<1>5. QED
  BY <1>3, <1>4 DEF VerdictInv, Verdict!VerdictSound, Verdict!PostedRoadWhenNearestLast
-----------------------------------------------------------------------------
(* The parts together *)

\* A step of the composition is a step of each part, or leaves it alone.
LEMMA PartsStep ==
  [Next]_vars => [Notes!Next]_notesVars /\ [Nav!Next]_navVars /\ [Filter!Next]_filterVars /\ [Verdict!Next]_verdictVars
  BY DEF Next, vars

\* The notifications keep their invariant, and statuses go on.
LEMMA NotesAlways == Spec => []NotesInv /\ [][Notes!StatusGoesOn]_vars
<1>1. Init => NotesInv
  BY NotesInvInit DEF Init
<1>2. NotesInv /\ [Next]_vars => NotesInv' /\ Notes!StatusGoesOn
  BY PartsStep, NotesInvStep DEF NotesStep
<1>3. QED
  BY <1>1, <1>2, PTL DEF Spec

\* The task keeps its invariant, and opens no login screen over a login.
LEMMA NavAlways == Spec => [](NavInv /\ NavBounds) /\ [][Nav!LoginScreenGone]_vars
<1>1. Init => NavInv /\ NavBounds
  BY NavInvInit, NavBoundsInit DEF Init
<1>2. NavInv /\ NavBounds /\ [Next]_vars => NavInv' /\ NavBounds' /\ Nav!LoginScreenGone
  BY PartsStep, NavInvStep, NavBoundsStep DEF NavStep
<1>3. QED
  BY <1>1, <1>2, PTL DEF Spec

\* The filter keeps its invariant.
LEMMA FilterAlways == Spec => []FilterInv
<1>1. Init => FilterInv
  BY FilterInvInit DEF Init
<1>2. FilterInv /\ [Next]_vars => FilterInv'
  BY PartsStep, FilterInvStep
<1>3. QED
  BY <1>1, <1>2, PTL DEF Spec

\* The verdict keeps its invariant.
LEMMA VerdictAlways == Spec => []VerdictInv
<1>1. Init => VerdictInv
  BY VerdictInvInit DEF Init
<1>2. VerdictInv /\ [Next]_vars => VerdictInv'
  BY PartsStep, VerdictInvStep
<1>3. QED
  BY <1>1, <1>2, PTL DEF Spec

-----------------------------------------------------------------------------
(* The theorems *)

\* Every variable keeps its type.
THEOREM TypesStay == Spec => []TypesHold
<1>1. NotesInv /\ NavInv /\ NavBounds /\ FilterInv /\ VerdictInv => TypesHold
  BY NavTypes DEF NotesInv, FilterInv, VerdictInv, TypesHold
<1>2. QED
  BY <1>1, NotesAlways, NavAlways, FilterAlways, VerdictAlways, PTL

\* The two lists agree, and a complaint about which nothing is due or on its way shows the server's latest status, but for the named causes.
THEOREM UpdatesStayShown == Spec => []UpdatesAreShown
<1>1. NotesInv => UpdatesAreShown
  BY NotesInvImplies DEF UpdatesAreShown
<1>2. QED
  BY <1>1, NotesAlways, PTL

\* Nobody sees the home without a login, but over what a logout or the help's flag left in the task.
THEOREM HomeKeepsNeedingLogin == Spec => []HomeNeedsLogin
<1>1. NavInv => HomeNeedsLogin
  BY NavInvImplies DEF HomeNeedsLogin
<1>2. QED
  BY <1>1, NavAlways, PTL

\* The list of the filter is what its criteria ask for.
THEOREM ListKeepsMatching == Spec => []ListMatchesCriteria
<1>1. FilterInv => ListMatchesCriteria
  BY DEF FilterInv, ListMatchesCriteria
<1>2. QED
  BY <1>1, FilterAlways, PTL

\* What the verdict on an answer of any length is right about.
THEOREM RoadStaysRight == Spec => []RoadIsRight
<1>1. VerdictInv => RoadIsRight
  BY VerdictInvImplies DEF RoadIsRight
<1>2. QED
  BY <1>1, VerdictAlways, PTL

\* A status does not fall back, and no login screen opens over a login, but for the named causes.
THEOREM ScreensKeepGoingForward == Spec => ScreensGoForward
<1>1. Notes!StatusGoesOn /\ Nav!LoginScreenGone => (part = "notes" => Notes!StatusGoesOn) /\ (part = "nav" => Nav!LoginScreenGone)
  OBVIOUS
<1>2. QED
  BY <1>1, NotesAlways, NavAlways, PTL DEF ScreensGoForward
====
