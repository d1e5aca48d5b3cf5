---------------------------- MODULE OfflineQueue ----------------------------
(***************************************************************************)
(* The offline complaints of the application: rows of the Realm table      *)
(* OfflineComplainModel, saved by InputActivity2.saveOffline when there is *)
(* no internet, listed by OfflineComplainListFragment, cancelled or        *)
(* retried from the cards of OfflineComplainListDataAdapter.  A retry asks *)
(* the BISAG road service, posts the complaint to the server, copies the   *)
(* server's answer to the Realm and deletes the row, each step in the      *)
(* callback of the one before.                                             *)
(*                                                                         *)
(* Realm, Retrofit, the RecyclerView and the two services are external:    *)
(* they are modelled by what the code above relies on.  A complaint is     *)
(* one press of "save offline"; its text, photo and position do not        *)
(* matter here.                                                            *)
(***************************************************************************)
EXTENDS Integers, FiniteSets

CONSTANTS
  Complaint,     \* the complaints the user may save
  NoComplaint,   \* "no complaint"
  Holder,        \* the view holders of the RecyclerView
  Call,          \* bound: retries that can be in progress at once
  MaxAccepted    \* bound: how often the server accepts one complaint

ASSUME NoComplaintAssumption == NoComplaint \notin Complaint
ASSUME MaxAcceptedAssumption == MaxAccepted \in Nat
ASSUME CallAssumption == IsFiniteSet(Call)

VARIABLES
  id,               \* primary key of the complaint's row, 0 when it has no row
  history,          \* copies of the complaint among the rows of ComplainModel
  accepted,         \* complaints the server created for it
  running,          \* the application's process exists
  itemsList,        \* the rows of the adapter on screen, a snapshot
  bound,            \* the row each view holder shows
  retryClickable, cancelClickable,   \* the holders whose button is clickable
  stage, item,      \* per call: how far the retry is, and of which row
  saved, withdrawn, \* history variables: saved once; cancelled or logged out
  excused           \* history variable: an event that may duplicate it occurred

ui == <<itemsList, bound, retryClickable, cancelClickable>>
stored == <<id, history, accepted, saved, withdrawn>>
vars == <<stored, running, ui, stage, item, excused>>

\* The progress of a retry. "bisag": the road service has been asked. "sent":
\* the complaint is on its way. "accepted", "refused": the server's answer is
\* on its way back. "copying": executeTransactionAsync is queued. "copied": it
\* has committed, its onSuccess has not run. "orphan": the application has
\* given the call up, the server may still receive it.
Stage == {"idle", "bisag", "sent", "accepted", "refused", "copying", "copied",
          "orphan"}

TypeOK ==
  /\ id \in [Complaint -> Nat]
  /\ history \in [Complaint -> Nat]
  /\ accepted \in [Complaint -> 0..MaxAccepted]
  /\ running \in BOOLEAN
  /\ itemsList \in SUBSET Complaint
  /\ bound \in [Holder -> Complaint \cup {NoComplaint}]
  /\ retryClickable \in SUBSET Holder
  /\ cancelClickable \in SUBSET Holder
  /\ stage \in [Call -> Stage]
  /\ item \in [Call -> Complaint \cup {NoComplaint}]
  /\ \A k \in Call : item[k] = NoComplaint <=> stage[k] = "idle"
  /\ saved \in SUBSET Complaint
  /\ withdrawn \in SUBSET Complaint
  /\ excused \in SUBSET Complaint

Init ==
  /\ id = [c \in Complaint |-> 0]
  /\ history = [c \in Complaint |-> 0]
  /\ accepted = [c \in Complaint |-> 0]
  /\ running = FALSE
  /\ itemsList = {}
  /\ bound = [h \in Holder |-> NoComplaint]
  /\ retryClickable = Holder
  /\ cancelClickable = Holder
  /\ stage = [k \in Call |-> "idle"]
  /\ item = [k \in Call |-> NoComplaint]
  /\ saved = {}
  /\ withdrawn = {}
  /\ excused = {}

-----------------------------------------------------------------------------
Queued == {c \in Complaint : id[c] # 0}

\* A callback of the complaint's retry is still to come.
Live(c) == \E k \in Call : item[k] = c /\ stage[k] \notin {"idle", "orphan"}

\* A retry the server may have accepted, or still accept, unknown to the row.
Outstanding(k) == stage[k] \in {"sent", "accepted", "copying", "copied"}

\* setAdapter: a snapshot of the given rows behind new view holders, whose
\* buttons are clickable.
SetAdapter(rows) ==
  /\ itemsList' = rows
  /\ bound' = [h \in Holder |-> NoComplaint]
  /\ retryClickable' = Holder
  /\ cancelClickable' = Holder

EndCall(k) ==
  /\ stage' = [stage EXCEPT ![k] = "idle"]
  /\ item' = [item EXCEPT ![k] = NoComplaint]

MoveCall(k, s) ==
  /\ stage' = [stage EXCEPT ![k] = s]
  /\ UNCHANGED item

\* The process ends, killed by the system or by an exception nobody catches.
\* What is on its way to the server still arrives or not.
ProcessDies ==
  /\ running' = FALSE
  /\ SetAdapter({})
  /\ stage' = [k \in Call |->
                 IF stage[k] \in {"sent", "orphan"} THEN "orphan" ELSE "idle"]
  /\ item' = [k \in Call |->
                IF stage[k] \in {"sent", "orphan"} THEN item[k] ELSE NoComplaint]
  /\ excused' = excused \cup {item[k] : k \in {j \in Call : Outstanding(j)}}
  /\ UNCHANGED stored

\* deleteComplaint looks the row up by the id of the snapshot's object and
\* deletes what it finds. The object of a deleted row has no id any more: the
\* read throws, and so does every caller.
DeleteUncommitted(c) == id[c] # 0 /\ UNCHANGED id    \* mutant: no commitTransaction

DeleteComplaint(c) ==
  /\ id[c] # 0
  /\ \E d \in Complaint :
       /\ id[d] = id[c]
       /\ id' = [id EXCEPT ![d] = 0]

-----------------------------------------------------------------------------
(* The queue and its list on the screen. *)

\* mutant: max("id") read before the transaction, rows may have come since
StaleIds == {n + 1 : n \in {0} \cup {id[c] : c \in Complaint}}

DownIds == {n - 1 : n \in {0} \cup {id[c] : c \in Complaint}}    \* mutant: keys count down

\* maxId.intValue() + 1, and 1 for an empty table.
NextIds ==
  {m + 1 : m \in {n \in {0} \cup {id[c] : c \in Complaint} :
                   \A c \in Complaint : id[c] <= n}}

\* The transaction of saveOffline.
SaveOffline(c) ==
  /\ running
  /\ c \notin saved
  /\ \E nextId \in NextIds : id' = [id EXCEPT ![c] = nextId]
  /\ saved' = saved \cup {c}
  /\ UNCHANGED <<history, accepted, withdrawn, running, ui, stage, item, excused>>

\* A new MainActivity, perhaps in a new process, builds the list.
OnCreateView ==
  /\ running' = TRUE
  /\ SetAdapter(Queued)
  /\ excused' = excused \cup {c \in Complaint : Live(c)}
  /\ UNCHANGED <<stored, stage, item>>

OnChangeIgnored == running /\ UNCHANGED vars    \* mutant: the adapter is not replaced

\* The Realm changed, here or in another table: a new adapter replaces the old.
OnChange ==
  /\ running
  /\ SetAdapter(Queued)
  /\ excused' = excused \cup {c \in Complaint : Live(c)}
  /\ UNCHANGED <<stored, running, stage, item>>

\* The RecyclerView shows a row in a holder, which may have scrolled off with
\* another row; the holder keeps its buttons as they are.
OnBindViewHolder(h, c) ==
  /\ running
  /\ c \in itemsList
  /\ \A g \in Holder : bound[g] # c
  /\ \/ /\ id[c] # 0
        /\ bound' = [bound EXCEPT ![h] = c]
        /\ excused' = IF Live(c) THEN excused \cup {c} ELSE excused
        /\ UNCHANGED <<stored, running, itemsList, retryClickable,
                       cancelClickable, stage, item>>
     \/ /\ id[c] = 0
        /\ ProcessDies

CancelClick(h) ==
  /\ running
  /\ bound[h] # NoComplaint
  /\ h \in cancelClickable
  /\ \/ /\ DeleteComplaint(bound[h])
        /\ withdrawn' = withdrawn \cup {bound[h]}
        /\ cancelClickable' = cancelClickable \ {h}
        /\ UNCHANGED <<history, accepted, saved, running, itemsList, bound,
                       retryClickable, stage, item, excused>>
     \/ /\ id[bound[h]] = 0
        /\ ProcessDies

\* SharedPrefrenceUser.logout empties the Realm and leaves for AuthActivity;
\* the callbacks of the retries survive it.
Logout ==
  /\ running
  /\ id' = [c \in Complaint |-> 0]
  /\ history' = [c \in Complaint |-> 0]
  /\ withdrawn' = withdrawn \cup saved
  /\ SetAdapter({})
  /\ UNCHANGED <<accepted, saved, running, stage, item, excused>>

Kill == running /\ ProcessDies

-----------------------------------------------------------------------------
(* The retry of a card and its chain of callbacks. *)

StaysClickable(h) == retryClickable' = retryClickable    \* mutant: no setClickable(false)

SetUnclickable(h) == retryClickable' = retryClickable \ {h}

RetryClick(h, k) ==
  /\ running
  /\ bound[h] # NoComplaint
  /\ h \in retryClickable
  /\ \/ /\ id[bound[h]] # 0
        /\ stage[k] = "idle"
        /\ SetUnclickable(h)
        /\ stage' = [stage EXCEPT ![k] = "bisag"]
        /\ item' = [item EXCEPT ![k] = bound[h]]
        /\ UNCHANGED <<stored, running, itemsList, bound, cancelClickable,
                       excused>>
     \/ /\ id[bound[h]] = 0
        /\ ProcessDies

\* Without internet the handler makes its button clickable again.
RetryClickOffline(h) ==
  /\ running
  /\ bound[h] # NoComplaint
  /\ h \in retryClickable
  /\ id[bound[h]] # 0
  /\ retryClickable' = (retryClickable \ {h}) \cup {h}
  /\ UNCHANGED <<stored, running, itemsList, bound, cancelClickable, stage,
                 item, excused>>

CopyReadable(k) == TRUE    \* mutant: mInputData is an unmanaged copy

\* mInputData is a managed object: it can be read while its row exists.
RowReadable(k) == id[item[k]] # 0

\* The road is near: the image upload starts and the complaint is posted. When
\* the row has been deleted meanwhile, reading mInputData throws an
\* IllegalStateException, which mCallBack swallows.
BisagNear(k) ==
  /\ running
  /\ stage[k] = "bisag"
  /\ IF RowReadable(k) THEN MoveCall(k, "sent") ELSE EndCall(k)
  /\ UNCHANGED <<stored, running, ui, excused>>

\* The road is too far (the dialog is built and never shown), the service
\* answered with an HTTP error, or it did not answer.
BisagFarOrFailed(k) ==
  /\ running
  /\ stage[k] = "bisag"
  /\ EndCall(k)
  /\ UNCHANGED <<stored, running, ui, excused>>

\* response.get(0) of an empty answer throws, and mCallBack does not catch it.
BisagEmpty(k) ==
  /\ running
  /\ stage[k] = "bisag"
  /\ ProcessDies

ServerAccepts(k) ==
  /\ stage[k] \in {"sent", "orphan"}
  /\ accepted[item[k]] < MaxAccepted
  /\ accepted' = [accepted EXCEPT ![item[k]] = @ + 1]
  /\ IF stage[k] = "sent" THEN MoveCall(k, "accepted") ELSE EndCall(k)
  /\ UNCHANGED <<id, history, saved, withdrawn, running, ui, excused>>

\* success = false or an HTTP error; for an orphan, the request is lost.
ServerRefuses(k) ==
  /\ stage[k] \in {"sent", "orphan"}
  /\ IF stage[k] = "sent" THEN MoveCall(k, "refused") ELSE EndCall(k)
  /\ UNCHANGED <<stored, running, ui, excused>>

PostReplyUnchecked(k) ==    \* mutant: response.getSuccess() is not looked at
  /\ running
  /\ stage[k] \in {"accepted", "refused"}
  /\ MoveCall(k, "copying")
  /\ UNCHANGED <<stored, running, ui, excused>>

\* The server's answer arrives: an acceptance is copied to the Realm, a refusal
\* only shows a dialog.
PostReply(k) ==
  /\ running
  /\ \/ stage[k] = "accepted" /\ MoveCall(k, "copying")
     \/ stage[k] = "refused" /\ EndCall(k)
  /\ UNCHANGED <<stored, running, ui, excused>>

\* A timeout or a lost connection: onFailureResponse is empty.
PostFailure(k) ==
  /\ running
  /\ \/ stage[k] = "sent" /\ MoveCall(k, "orphan")
     \/ stage[k] \in {"accepted", "refused"} /\ EndCall(k)
  /\ excused' = IF Outstanding(k) THEN excused \cup {item[k]} ELSE excused
  /\ UNCHANGED <<stored, running, ui>>

\* copyToRealm on the Realm's background thread.
CopyToRealm(k) ==
  /\ running
  /\ stage[k] = "copying"
  /\ history' = [history EXCEPT ![item[k]] = @ + 1]
  /\ MoveCall(k, "copied")
  /\ UNCHANGED <<id, accepted, saved, withdrawn, running, ui, excused>>

\* onSuccess of that transaction, back on the main thread.
CopySuccess(k) ==
  /\ running
  /\ stage[k] = "copied"
  /\ \/ /\ DeleteComplaint(item[k])
        /\ EndCall(k)
        /\ UNCHANGED <<history, accepted, saved, withdrawn, running, ui, excused>>
     \/ /\ id[item[k]] = 0
        /\ ProcessDies

-----------------------------------------------------------------------------
User ==
  \/ \E c \in Complaint : SaveOffline(c)
  \/ OnCreateView
  \/ Logout
  \/ \E h \in Holder :
       \/ CancelClick(h)
       \/ RetryClickOffline(h)
       \/ \E k \in Call : RetryClick(h, k)

Device ==
  \/ OnChange
  \/ \E h \in Holder, c \in Complaint : OnBindViewHolder(h, c)
  \/ Kill

Callback(k) ==
  \/ BisagNear(k)
  \/ BisagFarOrFailed(k)
  \/ BisagEmpty(k)
  \/ PostReply(k)
  \/ PostFailure(k)
  \/ CopyToRealm(k)
  \/ CopySuccess(k)

Server(k) == ServerAccepts(k) \/ ServerRefuses(k)

Next == User \/ Device \/ \E k \in Call : Callback(k) \/ Server(k)

Spec == Init /\ [][Next]_vars

\* A call is answered or times out, a queued transaction and its onSuccess run,
\* and the looper delivers a change of the Realm to the listener.
Fairness ==
  /\ \A k \in Call : WF_vars(Callback(k))
  /\ WF_vars(OnChange /\ itemsList # Queued)

FairSpec == Spec /\ Fairness

-----------------------------------------------------------------------------
(* Properties. *)

\* A complaint saved offline is never lost: it is in the queue, or the user
\* gave it up, or the server accepted it and the application shows it among the
\* complaints. (OfflineComplainListDataAdapter deletes a row only in the
\* onSuccess of the transaction that stored the server's answer.)
NeverLost ==
  \A c \in saved :
    \/ id[c] # 0
    \/ c \in withdrawn
    \/ accepted[c] > 0 /\ history[c] > 0

\* Two rows never share a key, so that the lookup by id of deleteComplaint
\* deletes the card's own row: max("id") + 1 reuses keys of deleted rows only.
UniqueIds ==
  \A c, d \in Queued : id[c] = id[d] => c = d

\* The server holds a complaint twice only if a reply was lost, the process
\* died during a retry, or the list was rebuilt or scrolled during a retry: the
\* handler's setClickable(false) excludes every other way.
DuplicatesAreExplained ==
  \A c \in Complaint : accepted[c] > 1 => c \in excused

\* Nothing of the complaint is on its way to the server.
OffTheWire(c) ==
  \A k \in Call : item[k] = c => stage[k] \notin {"sent", "orphan"}

\* Once a complaint has been deleted from the queue, by cancel, logout or a
\* completed retry, while nothing of it is on its way, it never reaches the
\* server again, whatever calls to the road service are still answered:
\* mInputData is read through the Realm when that answer arrives.
DeletedIsNotPosted ==
  [][\A c \in saved :
       (id[c] = 0 /\ OffTheWire(c)) => (accepted'[c] = accepted[c] /\ OffTheWire(c)')]_vars

\* The list of complaints shows no more copies of a complaint than the server
\* created, the copies still to be written included.
HistoryIsBacked ==
  \A c \in Complaint :
    history[c] + Cardinality({k \in Call : item[k] = c /\ stage[k] \in {"accepted", "copying"}})
      <= accepted[c]

\* The queue keeps the promise of ComplaintDelivery to each complaint.
Status(c) ==
  CASE c \notin saved -> "unsaved"
    [] c \in saved /\ id[c] # 0 -> "queued"
    [] c \in saved /\ id[c] = 0 /\ c \in withdrawn -> "withdrawn"
    [] OTHER -> "delivered"

Delivery == INSTANCE ComplaintDelivery
              WITH status <- [c \in Complaint |-> Status(c)], created <- accepted

ImplementsDelivery == Delivery!Spec

\* A complaint whose acceptance is on its way back leaves the queue, unless the
\* reply is lost or the process dies first: onResponse, the asynchronous
\* transaction and its onSuccess follow each other.
AcceptedLeavesQueue ==
  \A c \in Complaint :
    (\E k \in Call : item[k] = c /\ stage[k] = "accepted")
      ~> (id[c] = 0 \/ c \in excused)

\* A row deleted under the list disappears from it: until then its card is a
\* trap, any click on it ends the process.
DeletedCardsDisappear ==
  \A c \in Complaint :
    (c \in itemsList /\ id[c] = 0) ~> (c \notin itemsList)
=============================================================================
