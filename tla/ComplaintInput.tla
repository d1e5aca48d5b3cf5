---------------------------- MODULE ComplaintInput ----------------------------
(***************************************************************************)
(* The complaint form, Input/InputActivity2.java: the user takes and crops *)
(* a photo, picks a grievance and presses upload. Without internet the     *)
(* complaint can be saved offline; with it the form asks the BISAG road    *)
(* service, then posts the complaint and uploads its photo, and copies the *)
(* server's answer to the Realm.                                           *)
(*                                                                         *)
(* A complaint is named by the photo on the form when upload is pressed.   *)
(* Callbacks outlive their form: the activity may be finished, covered by  *)
(* the camera or in the background when they run.                          *)
(***************************************************************************)
EXTENDS Integers, FiniteSets

CONSTANTS
  Photo,         \* bound: the files getOutputMediaFile names
  NoPhoto,
  Call,          \* bound: submissions in progress at once
  SaveCall,      \* bound: saves of all forms
  MaxAccepted    \* bound: how often the server accepts one complaint

NoPhotoAssumption == NoPhoto \notin Photo
MaxAcceptedAssumption == MaxAccepted \in Nat

VARIABLES
  form,        \* the activity exists
  away,        \* the application is in the background
  camera,      \* the activity in front of the form: "none", "camera", "crop"
  photo,       \* mCropImagedUri
  grievance,   \* mGri has been picked
  clickable,   \* btn_upload
  dialog,      \* the dialog in front of the form
  stage,       \* per call: how far the submission is
  name,        \* per call: the photo named in mInputData
  image,       \* per call: the photo uploaded, or that of its finished form
  mine,        \* the calls whose form is the open one
  saving,      \* per save: its transaction is "queued", "done" (onSuccess is
               \* pending) or "over"
  kept,       \* per save: the photo of its row, or that of its finished form
  saves,       \* the saves of the open form
  used, files, \* photo names given out; files the crop activity wrote
  history,     \* complaints copied to the Realm
  accepted,    \* how often the server created each complaint
  excused, retaken, aborted, unanswered, resaved    \* history variables, see below

screen == <<form, away, camera, photo, grievance, clickable, dialog>>
calls == <<stage, name, image, mine>>
store == <<saving, kept, saves>>
world == <<used, files, history, accepted>>
ghosts == <<excused, retaken, aborted, unanswered, resaved>>
vars == <<screen, calls, store, world, ghosts>>

Stage == {"idle", "bisag", "sent", "accepted", "refused", "copying", "copied",
          "orphan"}

Dialog == {"none", "message", "offline", "finishing"}

TypeOK ==
  /\ form \in BOOLEAN
  /\ away \in BOOLEAN
  /\ camera \in {"none", "camera", "crop"}
  /\ photo \in Photo \cup {NoPhoto}
  /\ grievance \in BOOLEAN
  /\ clickable \in BOOLEAN
  /\ dialog \in Dialog
  /\ stage \in [Call -> Stage]
  /\ name \in [Call -> Photo \cup {NoPhoto}]
  /\ image \in [Call -> Photo \cup {NoPhoto}]
  /\ mine \in SUBSET Call
  /\ saving \in [SaveCall -> {"no", "queued", "done", "over"}]
  /\ kept \in [SaveCall -> Photo \cup {NoPhoto}]
  /\ saves \in SUBSET SaveCall
  /\ used \in SUBSET Photo
  /\ files \in SUBSET used
  /\ history \in SUBSET used
  /\ accepted \in [Photo -> 0..MaxAccepted]
  /\ excused \in SUBSET used
  /\ retaken \in SUBSET used
  /\ aborted \in SUBSET used
  /\ unanswered \in BOOLEAN
  /\ resaved \in SUBSET SaveCall

Init ==
  /\ form = FALSE
  /\ away = FALSE
  /\ camera = "none"
  /\ photo = NoPhoto
  /\ grievance = FALSE
  /\ clickable = TRUE
  /\ dialog = "none"
  /\ stage = [k \in Call |-> "idle"]
  /\ name = [k \in Call |-> NoPhoto]
  /\ image = [k \in Call |-> NoPhoto]
  /\ mine = {}
  /\ saving = [s \in SaveCall |-> "no"]
  /\ kept = [s \in SaveCall |-> NoPhoto]
  /\ saves = {}
  /\ used = {}
  /\ files = {}
  /\ history = {}
  /\ accepted = [p \in Photo |-> 0]
  /\ excused = {}
  /\ retaken = {}
  /\ aborted = {}
  /\ unanswered = FALSE
  /\ resaved = {}

-----------------------------------------------------------------------------
Visible == form /\ ~away /\ camera = "none"

\* The user can press a button of the form.
Ready == Visible /\ dialog = "none"

Live(k) == stage[k] \notin {"idle", "orphan"}

\* mutant: the URI is static, shared with the next form
SharedPhoto(k) == IF form THEN photo ELSE image[k]

\* mCropImagedUri of the call's own form, which stays what it was when the
\* form was finished.
OwnPhoto(k) == IF k \in mine THEN photo ELSE image[k]

ImagesKept == [k \in Call |-> IF stage[k] = "bisag" THEN OwnPhoto(k) ELSE image[k]]

\* The complaints saved offline, one row of the queue for each save.
Rows == {s \in SaveCall : saving[s] \in {"done", "over"}}
Offline == {kept[s] : s \in Rows}

\* The photo a queued transaction will store: that of its form.
PhotoOf(s) == IF s \in saves THEN photo ELSE kept[s]

\* A finished form keeps its photo for the transactions still queued.
PhotosKept == [s \in SaveCall |-> IF saving[s] = "queued" THEN PhotoOf(s) ELSE kept[s]]

\* finish()
Finish ==
  /\ form' = FALSE
  /\ away' = FALSE
  /\ camera' = "none"
  /\ photo' = NoPhoto
  /\ grievance' = FALSE
  /\ clickable' = TRUE
  /\ dialog' = "none"
  /\ mine' = {}
  /\ saves' = {}
  /\ kept' = PhotosKept

FinishOnly ==
  /\ Finish
  /\ image' = ImagesKept
  /\ UNCHANGED <<saving, stage, name, world, ghosts>>

FormUnchanged == UNCHANGED <<form, away, camera, photo, grievance, store>>

\* The call ends; what it leaves on the form is said apart.
EndCall(k) ==
  /\ stage' = [stage EXCEPT ![k] = "idle"]
  /\ name' = [name EXCEPT ![k] = NoPhoto]
  /\ image' = [image EXCEPT ![k] = NoPhoto]
  /\ mine' = mine \ {k}

\* The request stays on its way after the application gave the call up.
Abandon(k) ==
  /\ stage' = [stage EXCEPT ![k] = "orphan"]
  /\ mine' = mine \ {k}
  /\ UNCHANGED <<name, image>>

MoveCall(k, s) ==
  /\ stage' = [stage EXCEPT ![k] = s]
  /\ UNCHANGED <<name, image, mine>>

\* A callback shows a dialog. When the form is not visible, show() throws an
\* IllegalStateException that mCallBack swallows.
Show(k, d) ==
  dialog' = IF k \in mine /\ Visible THEN d ELSE dialog

\* The form of the call is left without a usable button or without a word.
LeftAlone(k) ==
  unanswered' = (unanswered \/ k \in mine)

-----------------------------------------------------------------------------
(* The form and its photo. *)

OpenForm ==
  /\ ~form
  /\ form' = TRUE
  /\ unanswered' = FALSE
  /\ UNCHANGED <<away, camera, photo, grievance, clickable, dialog, store,
                 calls, world, excused, retaken, aborted, resaved>>

CloseForm == Ready /\ FinishOnly

GoAway ==
  /\ form
  /\ away' = ~away
  /\ UNCHANGED <<form, camera, photo, grievance, clickable, dialog, store,
                 calls, world, ghosts>>

PickGrievance ==
  /\ Ready
  /\ ~grievance
  /\ grievance' = TRUE
  /\ UNCHANGED <<form, away, camera, photo, clickable, dialog, store, calls,
                 world, ghosts>>

\* The capture button, or the one that takes the photo again.
CaptureImage ==
  /\ Ready
  /\ camera' = "camera"
  /\ UNCHANGED <<form, away, photo, grievance, clickable, dialog, store,
                 calls, world, ghosts>>

\* onActivityResult of the camera starts the crop activity, and mCropImagedUri
\* already names the file that activity may write.
CameraOk(p) ==
  /\ camera = "camera"
  /\ p \in Photo \ used
  /\ camera' = "crop"
  /\ photo' = p
  /\ used' = used \cup {p}
  /\ retaken' = retaken \cup {name[k] : k \in {j \in mine : stage[j] = "bisag"}}
  /\ UNCHANGED <<form, away, grievance, clickable, dialog, store, calls,
                 files, history, accepted, excused, aborted, unanswered, resaved>>

CameraFailed ==
  /\ camera = "camera"
  /\ camera' = "none"
  /\ UNCHANGED <<form, away, photo, grievance, clickable, dialog, store,
                 calls, world, ghosts>>

CropOk ==
  /\ camera = "crop"
  /\ camera' = "none"
  /\ files' = files \cup {photo}
  /\ UNCHANGED <<form, away, photo, grievance, clickable, dialog, store,
                 calls, used, history, accepted, ghosts>>

\* The crop ends without data, or with a code that is neither OK nor CANCELED:
\* the form goes on with a URI nothing was written to.
CropAborted ==
  /\ camera = "crop"
  /\ camera' = "none"
  /\ aborted' = aborted \cup {photo}
  /\ UNCHANGED <<form, away, photo, grievance, clickable, dialog, store,
                 calls, world, excused, retaken, unanswered, resaved>>

\* Camera and crop, when cancelled, finish the form.
CaptureCancelled == camera # "none" /\ FinishOnly

\* The button of a dialog, or the back key, which only dismisses it.
DialogOk ==
  /\ Visible
  /\ dialog = "finishing"
  /\ FinishOnly

DialogDismiss ==
  /\ Visible
  /\ dialog # "none"
  /\ dialog' = "none"
  /\ unanswered' = (unanswered \/ dialog = "finishing")
  /\ UNCHANGED <<form, away, camera, photo, grievance, clickable, store,
                 calls, world, excused, retaken, aborted, resaved>>

ProcessDies ==
  /\ form' = FALSE
  /\ away' = FALSE
  /\ camera' = "none"
  /\ photo' = NoPhoto
  /\ grievance' = FALSE
  /\ clickable' = TRUE
  /\ dialog' = "none"
  /\ stage' = [k \in Call |->
                 IF stage[k] \in {"sent", "orphan"} THEN "orphan" ELSE "idle"]
  /\ name' = [k \in Call |->
                IF stage[k] \in {"sent", "orphan"} THEN name[k] ELSE NoPhoto]
  /\ image' = [k \in Call |->
                 IF stage[k] \in {"sent", "orphan"} THEN image[k] ELSE NoPhoto]
  /\ mine' = {}
  /\ saving' = [s \in SaveCall |-> IF s \in Rows THEN "over" ELSE "no"]
  /\ kept' = [s \in SaveCall |-> IF s \in Rows THEN kept[s] ELSE NoPhoto]
  /\ saves' = {}
  /\ UNCHANGED <<world, ghosts>>

-----------------------------------------------------------------------------
(* The upload button. *)

\* Location is not in high accuracy mode: the dialog is built, never shown.
UploadClickGpsOff == Ready /\ clickable /\ UNCHANGED vars

UploadClickIncomplete ==
  /\ Ready
  /\ clickable
  /\ photo = NoPhoto \/ ~grievance
  /\ dialog' = "message"
  /\ UNCHANGED <<form, away, camera, photo, grievance, clickable, store,
                 calls, world, ghosts>>

Complete == photo # NoPhoto /\ grievance

UploadClickOffline ==
  /\ Ready
  /\ clickable
  /\ Complete
  /\ dialog' = "offline"
  /\ UNCHANGED <<form, away, camera, photo, grievance, clickable, store,
                 calls, world, ghosts>>

SetUnclickable == clickable' = FALSE

UploadClickOnline(k) ==
  /\ Ready
  /\ clickable
  /\ Complete
  /\ stage[k] = "idle"
  /\ SetUnclickable
  /\ stage' = [stage EXCEPT ![k] = "bisag"]
  /\ name' = [name EXCEPT ![k] = photo]
  /\ mine' = mine \cup {k}
  /\ excused' = IF saves = {} THEN excused ELSE excused \cup {photo}
  /\ UNCHANGED <<form, away, camera, photo, grievance, dialog, store, image,
                 world, retaken, aborted, unanswered, resaved>>

\* Nothing keeps the button from being pressed, and a second save from being
\* queued, while the first is on its way.
OfflineSave(s) ==
  /\ Visible
  /\ dialog = "offline"
  /\ saving[s] = "no"
  /\ dialog' = "none"
  /\ saving' = [saving EXCEPT ![s] = "queued"]
  /\ saves' = saves \cup {s}
  /\ resaved' = IF saves = {} THEN resaved \ {s} ELSE resaved \cup {s}
  /\ UNCHANGED <<form, away, camera, photo, grievance, clickable, calls, kept,
                 world, excused, retaken, aborted, unanswered>>

OfflineCancel == Visible /\ dialog = "offline" /\ FinishOnly

\* mutant: the transaction runs only while its form is there
SaveWaits(s) == s \in saves /\ saving[s] = "queued"

SaveWaiting(s) == saving[s] = "queued"

\* The transaction of saveOffline stores its form's current photo.
SaveCommit(s) ==
  /\ SaveWaiting(s)
  /\ saving' = [saving EXCEPT ![s] = "done"]
  /\ kept' = [kept EXCEPT ![s] = PhotoOf(s)]
  /\ UNCHANGED <<screen, calls, saves, world, ghosts>>

\* onSuccess finishes the form, which may have been finished before.
SaveSuccess(s) ==
  /\ saving[s] = "done"
  /\ saving' = [saving EXCEPT ![s] = "over"]
  /\ \/ s \in saves /\ Finish /\ image' = ImagesKept /\ UNCHANGED <<stage, name>>
     \/ s \notin saves /\ UNCHANGED <<screen, calls, kept, saves>>
  /\ UNCHANGED <<world, ghosts>>

-----------------------------------------------------------------------------
(* The callbacks of a submission. *)

BisagNear(k) ==
  /\ stage[k] = "bisag"
  /\ stage' = [stage EXCEPT ![k] = "sent"]
  /\ image' = [image EXCEPT ![k] = OwnPhoto(k)]
  /\ UNCHANGED <<screen, store, name, mine, world, ghosts>>

BisagFar(k) ==
  /\ stage[k] = "bisag"
  /\ EndCall(k)
  /\ Show(k, "finishing")
  /\ IF Visible THEN UNCHANGED unanswered ELSE LeftAlone(k)
  /\ FormUnchanged
  /\ UNCHANGED <<clickable, world, excused, retaken, aborted, resaved>>

\* mutant: the button stays as it is
ForgetButton(k) == clickable' = clickable

\* onFailureResponse of the form's own button.
ReviveButton(k) == clickable' = (clickable \/ k \in mine)

BisagFailure(k) ==
  /\ stage[k] = "bisag"
  /\ EndCall(k)
  /\ ReviveButton(k)
  /\ Show(k, "message")
  /\ FormUnchanged
  /\ UNCHANGED <<world, ghosts>>

\* onResponse with an HTTP error shows a dialog and leaves the button dead.
HttpError(k) ==
  /\ \/ stage[k] \in {"bisag", "accepted", "refused"} /\ EndCall(k)
     \/ stage[k] = "sent" /\ Abandon(k)
  /\ Show(k, "message")
  /\ LeftAlone(k)
  /\ FormUnchanged
  /\ UNCHANGED <<clickable, world, excused, retaken, aborted, resaved>>

\* response.get(0) of an empty answer throws; mCallBack does not catch it.
BisagEmpty(k) == stage[k] = "bisag" /\ ProcessDies

ServerAccepts(k) ==
  /\ stage[k] \in {"sent", "orphan"}
  /\ accepted[name[k]] < MaxAccepted
  /\ accepted' = [accepted EXCEPT ![name[k]] = @ + 1]
  /\ IF stage[k] = "sent" THEN MoveCall(k, "accepted") ELSE EndCall(k)
  /\ UNCHANGED <<screen, store, used, files, history, ghosts>>

ServerRefuses(k) ==
  /\ stage[k] \in {"sent", "orphan"}
  /\ IF stage[k] = "sent" THEN MoveCall(k, "refused") ELSE EndCall(k)
  /\ UNCHANGED <<screen, store, world, ghosts>>

PostAccepted(k) ==
  /\ stage[k] = "accepted"
  /\ MoveCall(k, "copying")
  /\ UNCHANGED <<screen, store, world, ghosts>>

PostRefused(k) ==
  /\ stage[k] = "refused"
  /\ EndCall(k)
  /\ Show(k, "finishing")
  /\ IF Visible THEN UNCHANGED unanswered ELSE LeftAlone(k)
  /\ FormUnchanged
  /\ UNCHANGED <<clickable, world, excused, retaken, aborted, resaved>>

PostFailure(k) ==
  /\ \/ stage[k] \in {"accepted", "refused"} /\ EndCall(k)
     \/ stage[k] = "sent" /\ Abandon(k)
  /\ ReviveButton(k)
  /\ Show(k, "message")
  /\ excused' = IF stage[k] = "refused" THEN excused ELSE excused \cup {name[k]}
  /\ FormUnchanged
  /\ UNCHANGED <<world, retaken, aborted, unanswered, resaved>>

CopyToRealm(k) ==
  /\ stage[k] = "copying"
  /\ history' = history \cup {name[k]}
  /\ MoveCall(k, "copied")
  /\ UNCHANGED <<screen, store, used, files, accepted, ghosts>>

\* onSuccess finishes the form that sent the complaint.
CopySuccess(k) ==
  /\ stage[k] = "copied"
  /\ \/ k \notin mine /\ EndCall(k) /\ UNCHANGED <<screen, store>>
     \/ /\ k \in mine
        /\ Finish
        /\ stage' = [stage EXCEPT ![k] = "idle"]
        /\ name' = [name EXCEPT ![k] = NoPhoto]
        /\ image' = [ImagesKept EXCEPT ![k] = NoPhoto]
        /\ UNCHANGED saving
  /\ UNCHANGED <<world, ghosts>>

-----------------------------------------------------------------------------
User ==
  \/ OpenForm \/ CloseForm \/ GoAway \/ PickGrievance \/ CaptureImage
  \/ DialogOk \/ DialogDismiss \/ OfflineCancel
  \/ \E s \in SaveCall : OfflineSave(s)
  \/ UploadClickGpsOff \/ UploadClickIncomplete \/ UploadClickOffline
  \/ \E k \in Call : UploadClickOnline(k)

Camera ==
  \/ \E p \in Photo : CameraOk(p)
  \/ CameraFailed \/ CropOk \/ CropAborted \/ CaptureCancelled

Callback(k) ==
  \/ BisagNear(k) \/ BisagFar(k) \/ BisagFailure(k) \/ BisagEmpty(k)
  \/ HttpError(k)
  \/ PostAccepted(k) \/ PostRefused(k) \/ PostFailure(k)
  \/ CopyToRealm(k) \/ CopySuccess(k)

Server(k) == ServerAccepts(k) \/ ServerRefuses(k)

Next ==
  \/ User
  \/ Camera
  \/ \E s \in SaveCall : SaveCommit(s) \/ SaveSuccess(s)
  \/ \E k \in Call : Callback(k) \/ Server(k)
  \/ ProcessDies

Spec == Init /\ [][Next]_vars

\* OkHttp ends every call; Realm runs queued transactions and their onSuccess.
Fairness ==
  /\ \A k \in Call : WF_vars(Callback(k))
  /\ \A s \in SaveCall : WF_vars(SaveCommit(s)) /\ WF_vars(SaveSuccess(s))

FairSpec == Spec /\ Fairness

-----------------------------------------------------------------------------
(* Properties. *)

\* An open form has at most one submission in progress, and none while its
\* upload button can be pressed: every path that revives the button has ended
\* the call first.
OneSubmission ==
  /\ \A j, k \in mine : j = k
  /\ clickable => mine = {}

\* The photo uploaded with a complaint is the one its URL names, unless the
\* user took another photo while the road service was asked: the name is taken
\* when upload is pressed, the file when the service answers.
ImageMatchesName ==
  \A k \in Call :
    stage[k] \in {"sent", "accepted", "refused", "copying", "copied"} =>
      image[k] = name[k] \/ name[k] \in retaken

\* The file that is uploaded exists, unless its crop was aborted or the photo
\* was being taken again when the road service answered.
PostedImageExists ==
  \A k \in Call :
    stage[k] = "sent" =>
      image[k] \in files \/ image[k] \in aborted \/ name[k] \in retaken

\* A complaint reaches the server twice, or is both posted and saved offline to
\* be posted again, only after a post without an answer or when upload was
\* pressed while an offline copy was being written.
DuplicatesAreExplained ==
  \A p \in used :
    (accepted[p] > 1 \/ (accepted[p] > 0 /\ p \in Offline)) => p \in excused

\* A form in front of the user whose upload button is dead, with no dialog and
\* nothing in progress, got there by an HTTP error, by a dialog that could not
\* be shown in the background, or by a dialog dismissed with the back key.
DeadButtonIsExplained ==
  Ready /\ ~clickable /\ mine = {} => unanswered

\* Every submission comes to an end the form shows: it is finished, its button
\* works again, a dialog is open, or one of the causes above left it alone.
SubmissionEnds ==
  \A k \in Call :
    (k \in mine) ~> (~form \/ clickable \/ dialog # "none" \/ unanswered)

\* A complaint is in the queue twice, under two keys and to be posted twice,
\* only after it was saved again while a save of the same form was on its way.
SavedOnce ==
  \A s, t \in Rows : kept[s] = kept[t] => s = t \/ s \in resaved \/ t \in resaved

\* A complaint the user saved offline is stored, and its form closes, unless
\* the process dies; neither a covered nor a finished form loses it.
SaveEnds ==
  \A s \in SaveCall :
    (saving[s] = "queued") ~> (saving[s] \in {"over", "no"} /\ s \notin saves)
=============================================================================
