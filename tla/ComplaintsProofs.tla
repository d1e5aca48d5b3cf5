---- MODULE ComplaintsProofs ----
(***************************************************************************)
(* Theorems about the two ways of a complaint to the server, the form and  *)
(* the queue of complaints saved offline, for any photos, submissions,     *)
(* complaints, calls and bounds: the form posts the photo it names, sends  *)
(* a complaint twice or keeps a dead button only for the named causes, and *)
(* what is proved about the queue holds of the composition.                *)
(***************************************************************************)
EXTENDS MC_Complaints, OfflineQueueProofs

\* The photo of the form: its name has been given out, and its file exists unless
\* the crop was aborted.  A crop, a save and the offline dialog all have one.
PhotoIsOwn ==
  /\ photo \in used \cup {NoPhoto}
  /\ camera = "crop" \/ saves # {} \/ dialog = "offline" => photo # NoPhoto
  /\ ~form => photo = NoPhoto
  /\ form /\ camera # "crop" /\ photo # NoPhoto => photo \in files \cup aborted

\* The photo of the row that a save has made or will make.
Target(s) == IF saving[s] = "queued" THEN Form!PhotoOf(s) ELSE kept[s]

\* Saves of other forms have other photos than the open form, and of two saves
\* with one photo, as of two saves of the open form, one came after the other.
SavesFit ==
  /\ \A s \in saves : saving[s] \in {"queued", "done"}
  /\ \A s \in SaveCall : saving[s] # "no" => Target(s) \in used
  /\ \A s \in SaveCall \ saves : saving[s] # "no" => Target(s) # photo
  /\ \A s, t \in SaveCall :
       saving[s] # "no" /\ saving[t] # "no" /\ Target(s) = Target(t) => s = t \/ s \in resaved \/ t \in resaved
  /\ \A s, t \in saves : s = t \/ s \in resaved \/ t \in resaved

\* Only an open form has submissions, dialogs or a camera in front of it, and
\* the offline dialog opens only over a button that works.
FormIsOpen ==
  /\ ~form => mine = {} /\ saves = {} /\ clickable /\ dialog = "none" /\ camera = "none"
  /\ dialog = "offline" => clickable
  /\ \A k \in mine : Form!Live(k)

NamesAreUsed ==
  \A k \in Submission : IF step[k] = "idle" THEN name[k] = NoPhoto ELSE name[k] \in used

\* The photo a submission will upload or has uploaded.
OwnImage(k) == IF step[k] = "bisag" THEN Form!OwnPhoto(k) ELSE image[k]

Posting == {"bisag", "sent", "accepted", "refused", "copying", "copied"}

\* That photo is the one the complaint names, and its file is there, unless the
\* photo was taken again.
ImagesFit ==
  \A k \in Submission :
    /\ step[k] \in Posting => OwnImage(k) = name[k] \/ name[k] \in retaken
    /\ step[k] \in {"bisag", "sent"} =>
         OwnImage(k) \in files \cup aborted \/ name[k] \in retaken

\* Neither the server nor a submission knows the complaint.
Fresh(p) == created[p] = 0 /\ \A k \in Submission : name[k] # p

\* A complaint no excusing event befell has one submission at most, the server
\* created it only for that one, and it is unknown to both while it is saved
\* offline, about to be, or can still be submitted.
SentOnce ==
  \A p \in used \ explained :
    /\ \A j, k \in Submission : name[j] = p /\ name[k] = p => j = k
    /\ created[p] <= 1
    /\ \A k \in Submission :
         created[p] = 1 /\ name[k] = p => step[k] \in {"accepted", "copying", "copied"}
    /\ \A s \in SaveCall : saving[s] # "no" /\ Target(s) = p => Fresh(p)
    /\ form /\ photo = p /\ (clickable \/ (mine # {} /\ \A k \in mine : name[k] # p))
         => Fresh(p)

UnusedIsFresh == \A p \in Photo \ used : created[p] = 0

\* A dead button without a submission: the dialog that ends the form is open,
\* or one of the named causes left it alone.
DeadForm == form /\ ~clickable /\ mine = {} => unanswered \/ dialog = "finishing"

\* The inductive invariant of the form.
FormInv ==
  /\ Form!TypeOK /\ PhotoIsOwn /\ FormIsOpen /\ NamesAreUsed /\ Form!OneSubmission
  /\ ImagesFit /\ SavesFit /\ SentOnce /\ UnusedIsFresh /\ DeadForm

CallsTyped ==
  /\ step \in [Submission -> Form!Stage]
  /\ name \in [Submission -> Photo \cup {NoPhoto}]
  /\ image \in [Submission -> Photo \cup {NoPhoto}]

\* The photo a call reads from its form, whatever became of that form.
LEMMA PhotosTyped ==
  ASSUME Form!TypeOK
  PROVE  /\ \A k \in Submission : Form!OwnPhoto(k) \in Photo \cup {NoPhoto}
         /\ Form!ImagesKept \in [Submission -> Photo \cup {NoPhoto}]
         /\ Form!PhotosKept \in [SaveCall -> Photo \cup {NoPhoto}]
BY DEF Form!TypeOK, Form!OwnPhoto, Form!ImagesKept, Form!PhotosKept, Form!PhotoOf, Form!Rows

\* The end of the form keeps the invariant of the form.
LEMMA FinishOnlyKeeps ==
  ASSUME FormInv, Form!FinishOnly, form
  PROVE  FormInv'
<1>1. CallsTyped'
  BY PhotosTyped DEF Form!store, Form!FinishOnly, Form!Finish, Form!ImagesKept, Form!PhotosKept,
     Form!PhotoOf, Form!Rows, FormInv, Form!TypeOK, CallsTyped, Form!Stage
<1>2. Form!TypeOK'
  BY <1>1 DEF Form!store, Form!FinishOnly, Form!Finish, Form!ImagesKept, Form!PhotosKept, Form!PhotoOf,
     Form!Rows, FormInv, Form!TypeOK, Form!world, Form!ghosts, Form!Stage, Form!Dialog, CallsTyped
<1>3. NamesAreUsed' /\ UnusedIsFresh'
  BY DEF Form!store, Form!FinishOnly, Form!Finish, Form!ImagesKept, Form!PhotosKept, Form!PhotoOf,
     Form!Rows, FormInv, Form!world, Form!Live, NamesAreUsed, UnusedIsFresh, Form!Stage
<1>4. PhotoIsOwn' /\ FormIsOpen' /\ Form!OneSubmission' /\ DeadForm'
  BY DEF Form!store, Form!FinishOnly, Form!Finish, Form!ImagesKept, Form!PhotosKept, Form!PhotoOf,
     Form!Rows, FormInv, Form!world, Form!Live, DeadForm, PhotoIsOwn, FormIsOpen, Form!OneSubmission,
     Form!Stage
<1>5. ImagesFit'
  BY DEF Form!store, Form!FinishOnly, Form!Finish, Form!ImagesKept, Form!PhotosKept, Form!PhotoOf,
     Form!Rows, FormInv, Form!world, Form!ghosts, Form!Live, ImagesFit, OwnImage, Form!OwnPhoto,
     Form!OneSubmission
<1>6. SavesFit'
  BY FormAssumption DEF Form!store, Form!FinishOnly, Form!Finish, Form!ImagesKept, Form!PhotosKept,
     Form!PhotoOf, Form!Rows, FormInv, Form!world, Form!ghosts, Form!Live, SavesFit, PhotoIsOwn, FormIsOpen,
     Target, Form!TypeOK, Form!NoPhotoAssumption, Form!OneSubmission
<1>7. SentOnce'
  BY DEF Form!store, Form!FinishOnly, Form!Finish, Form!ImagesKept, Form!PhotosKept, Form!PhotoOf,
     Form!Rows, FormInv, Form!world, Form!ghosts, Form!Live, SentOnce, Fresh, Target, SavesFit,
     Form!OneSubmission
<1>8. QED
  BY <1>1, <1>2, <1>3, <1>4, <1>5, <1>6, <1>7 DEF FormInv

\* A new form keeps the invariant of the form.
LEMMA OpenFormKeeps ==
  ASSUME FormInv, Form!OpenForm
  PROVE  FormInv'
<1>1. Form!TypeOK'
  BY DEF Form!store, Form!OpenForm, FormInv, Form!TypeOK, Form!calls, Form!world, Form!Stage, Form!Dialog
<1>2. NamesAreUsed' /\ UnusedIsFresh'
  BY DEF Form!store, Form!OpenForm, FormInv, Form!calls, Form!world, Form!Live, NamesAreUsed,
     UnusedIsFresh, Form!Stage
<1>3. PhotoIsOwn' /\ FormIsOpen' /\ Form!OneSubmission' /\ DeadForm'
  BY FormAssumption DEF Form!store, Form!OpenForm, FormInv, Form!NoPhotoAssumption, Form!TypeOK,
     Form!calls, Form!world, Form!Live, DeadForm, PhotoIsOwn, FormIsOpen, Form!OneSubmission, Form!Stage
<1>4. ImagesFit'
  BY DEF Form!store, Form!OpenForm, FormInv, Form!calls, Form!world, Form!Live, ImagesFit, OwnImage,
     Form!OwnPhoto, Form!OneSubmission
<1>5. SavesFit'
  BY FormAssumption DEF Form!store, Form!OpenForm, FormInv, Form!NoPhotoAssumption, Form!TypeOK,
     Form!calls, Form!world, Form!Live, SavesFit, PhotoIsOwn, FormIsOpen, Target, Form!PhotoOf,
     Form!OneSubmission
<1>6. SentOnce'
  BY FormAssumption DEF Form!store, Form!OpenForm, FormInv, Form!NoPhotoAssumption, Form!TypeOK,
     Form!calls, Form!world, Form!Live, SentOnce, Fresh, Target, Form!PhotoOf, SavesFit, PhotoIsOwn,
     Form!OneSubmission
<1>7. QED
  BY <1>1, <1>2, <1>3, <1>4, <1>5, <1>6 DEF FormInv

\* Leaving the form for another screen and coming back keeps the invariant of the form.
LEMMA GoAwayKeeps ==
  ASSUME FormInv, Form!GoAway
  PROVE  FormInv'
<1>1. Form!TypeOK'
  BY DEF Form!store, Form!GoAway, FormInv, Form!TypeOK, Form!calls, Form!world, Form!ghosts, Form!Stage,
     Form!Dialog
<1>2. NamesAreUsed' /\ UnusedIsFresh'
  BY DEF Form!store, Form!GoAway, FormInv, Form!calls, Form!world, Form!Live, NamesAreUsed, UnusedIsFresh,
     Form!Stage
<1>3. PhotoIsOwn' /\ FormIsOpen' /\ Form!OneSubmission' /\ DeadForm'
  BY DEF Form!store, Form!GoAway, FormInv, Form!calls, Form!world, Form!ghosts, Form!Live, DeadForm,
     PhotoIsOwn, FormIsOpen, Form!OneSubmission, Form!Stage
<1>4. ImagesFit'
  BY DEF Form!store, Form!GoAway, FormInv, Form!calls, Form!world, Form!ghosts, Form!Live, ImagesFit,
     OwnImage, Form!OwnPhoto, Form!OneSubmission
<1>5. SavesFit'
  BY FormAssumption DEF Form!store, Form!GoAway, FormInv, Form!calls, Form!world, Form!ghosts, Form!Live,
     SavesFit, PhotoIsOwn, FormIsOpen, Target, Form!PhotoOf, Form!TypeOK, Form!NoPhotoAssumption,
     Form!OneSubmission
<1>6. SentOnce'
  BY DEF Form!store, Form!GoAway, FormInv, Form!calls, Form!world, Form!ghosts, Form!Live, SentOnce,
     Fresh, Target, Form!PhotoOf, SavesFit, Form!OneSubmission
<1>7. QED
  BY <1>1, <1>2, <1>3, <1>4, <1>5, <1>6 DEF FormInv

\* The choice of a grievance keeps the invariant of the form.
LEMMA PickGrievanceKeeps ==
  ASSUME FormInv, Form!PickGrievance
  PROVE  FormInv'
<1>1. Form!TypeOK'
  BY DEF Form!store, Form!PickGrievance, FormInv, Form!TypeOK, Form!calls, Form!world, Form!ghosts,
     Form!Stage, Form!Dialog
<1>2. NamesAreUsed' /\ UnusedIsFresh'
  BY DEF Form!store, Form!PickGrievance, FormInv, Form!calls, Form!world, Form!Live, NamesAreUsed,
     UnusedIsFresh, Form!Stage
<1>3. PhotoIsOwn' /\ FormIsOpen' /\ Form!OneSubmission' /\ DeadForm'
  BY DEF Form!store, Form!PickGrievance, FormInv, Form!calls, Form!world, Form!ghosts, Form!Live,
     DeadForm, PhotoIsOwn, FormIsOpen, Form!OneSubmission, Form!Stage
<1>4. ImagesFit'
  BY DEF Form!store, Form!PickGrievance, FormInv, Form!calls, Form!world, Form!ghosts, Form!Live,
     ImagesFit, OwnImage, Form!OwnPhoto, Form!OneSubmission
<1>5. SavesFit'
  BY FormAssumption DEF Form!store, Form!PickGrievance, FormInv, Form!calls, Form!world, Form!ghosts,
     Form!Live, SavesFit, PhotoIsOwn, FormIsOpen, Target, Form!PhotoOf, Form!TypeOK, Form!NoPhotoAssumption,
     Form!OneSubmission
<1>6. SentOnce'
  BY DEF Form!store, Form!PickGrievance, FormInv, Form!calls, Form!world, Form!ghosts, Form!Live,
     SentOnce, Fresh, Target, Form!PhotoOf, SavesFit, Form!OneSubmission
<1>7. QED
  BY <1>1, <1>2, <1>3, <1>4, <1>5, <1>6 DEF FormInv

\* Opening the camera keeps the invariant of the form.
LEMMA CaptureImageKeeps ==
  ASSUME FormInv, Form!CaptureImage
  PROVE  FormInv'
<1>1. Form!TypeOK'
  BY DEF Form!store, Form!CaptureImage, FormInv, Form!TypeOK, Form!calls, Form!world, Form!ghosts,
     Form!Stage, Form!Dialog
<1>2. NamesAreUsed' /\ UnusedIsFresh'
  BY DEF Form!store, Form!CaptureImage, FormInv, Form!calls, Form!world, Form!Live, NamesAreUsed,
     UnusedIsFresh, Form!Stage
<1>3. PhotoIsOwn' /\ FormIsOpen' /\ Form!OneSubmission' /\ DeadForm'
  BY DEF Form!store, Form!CaptureImage, Form!Ready, FormInv, Form!calls, Form!world, Form!ghosts,
     Form!Live, Form!Visible, DeadForm, PhotoIsOwn, FormIsOpen, Form!OneSubmission, Form!Stage
<1>4. ImagesFit'
  BY DEF Form!store, Form!CaptureImage, FormInv, Form!calls, Form!world, Form!ghosts, Form!Live,
     ImagesFit, OwnImage, Form!OwnPhoto, Form!OneSubmission
<1>5. SavesFit'
  BY FormAssumption DEF Form!store, Form!CaptureImage, FormInv, Form!calls, Form!world, Form!ghosts,
     Form!Live, SavesFit, PhotoIsOwn, FormIsOpen, Target, Form!PhotoOf, Form!TypeOK, Form!NoPhotoAssumption,
     Form!OneSubmission
<1>6. SentOnce'
  BY DEF Form!store, Form!CaptureImage, FormInv, Form!calls, Form!world, Form!ghosts, Form!Live, SentOnce,
     Fresh, Target, Form!PhotoOf, SavesFit, Form!OneSubmission
<1>7. QED
  BY <1>1, <1>2, <1>3, <1>4, <1>5, <1>6 DEF FormInv

\* A photo that was taken keeps the invariant of the form.
LEMMA CameraOkKeeps ==
  ASSUME FormInv, NEW p \in Photo, Form!CameraOk(p)
  PROVE  FormInv'
<1>1. Form!TypeOK'
  BY DEF Form!store, Form!CameraOk, FormInv, Form!TypeOK, Form!calls, NamesAreUsed, Form!Stage, Form!Dialog
<1>2. NamesAreUsed' /\ UnusedIsFresh'
  BY DEF Form!store, Form!CameraOk, FormInv, Form!calls, Form!Live, NamesAreUsed, UnusedIsFresh, Form!Stage
<1>3. PhotoIsOwn' /\ FormIsOpen' /\ Form!OneSubmission' /\ DeadForm'
  BY FormAssumption DEF Form!store, Form!CameraOk, FormInv, Form!NoPhotoAssumption, Form!TypeOK,
     Form!calls, Form!Live, DeadForm, PhotoIsOwn, FormIsOpen, Form!OneSubmission, Form!Stage
<1>4. ImagesFit'
  BY DEF Form!store, Form!CameraOk, FormInv, Form!calls, Form!Live, ImagesFit, OwnImage, Form!OwnPhoto,
     Form!OneSubmission
<1>5. SavesFit'
  BY FormAssumption DEF Form!store, Form!CameraOk, FormInv, Form!NoPhotoAssumption, Form!calls, Form!Live,
     SavesFit, PhotoIsOwn, FormIsOpen, Target, Form!PhotoOf, Form!TypeOK, NamesAreUsed, Form!OneSubmission,
     UnusedIsFresh
<1>6. SentOnce'
  BY FormAssumption DEF Form!store, Form!CameraOk, FormInv, Form!NoPhotoAssumption, Form!calls, Form!Live,
     SentOnce, Fresh, Target, Form!PhotoOf, SavesFit, NamesAreUsed, Form!OneSubmission, UnusedIsFresh
<1>7. QED
  BY <1>1, <1>2, <1>3, <1>4, <1>5, <1>6 DEF FormInv

\* A camera that was left without a photo keeps the invariant of the form.
LEMMA CameraFailedKeeps ==
  ASSUME FormInv, Form!CameraFailed
  PROVE  FormInv'
<1>1. Form!TypeOK'
  BY DEF Form!store, Form!CameraFailed, FormInv, Form!TypeOK, Form!calls, Form!world, Form!ghosts,
     Form!Stage, Form!Dialog
<1>2. NamesAreUsed' /\ UnusedIsFresh'
  BY DEF Form!store, Form!CameraFailed, FormInv, Form!calls, Form!world, Form!Live, NamesAreUsed,
     UnusedIsFresh, Form!Stage
<1>3. PhotoIsOwn' /\ FormIsOpen' /\ Form!OneSubmission' /\ DeadForm'
  BY DEF Form!store, Form!CameraFailed, FormInv, Form!calls, Form!world, Form!ghosts, Form!Live, DeadForm,
     PhotoIsOwn, FormIsOpen, Form!OneSubmission, Form!Stage
<1>4. ImagesFit'
  BY DEF Form!store, Form!CameraFailed, FormInv, Form!calls, Form!world, Form!ghosts, Form!Live,
     ImagesFit, OwnImage, Form!OwnPhoto, Form!OneSubmission
<1>5. SavesFit'
  BY FormAssumption DEF Form!store, Form!CameraFailed, FormInv, Form!calls, Form!world, Form!ghosts,
     Form!Live, SavesFit, PhotoIsOwn, FormIsOpen, Target, Form!PhotoOf, Form!TypeOK, Form!NoPhotoAssumption,
     Form!OneSubmission
<1>6. SentOnce'
  BY DEF Form!store, Form!CameraFailed, FormInv, Form!calls, Form!world, Form!ghosts, Form!Live, SentOnce,
     Fresh, Target, Form!PhotoOf, SavesFit, Form!OneSubmission
<1>7. QED
  BY <1>1, <1>2, <1>3, <1>4, <1>5, <1>6 DEF FormInv

\* A cropped photo keeps the invariant of the form.
LEMMA CropOkKeeps ==
  ASSUME FormInv, Form!CropOk
  PROVE  FormInv'
<1>1. Form!TypeOK'
  BY DEF Form!store, Form!CropOk, FormInv, Form!TypeOK, Form!calls, Form!ghosts, PhotoIsOwn, Form!Stage,
     Form!Dialog
<1>2. NamesAreUsed' /\ UnusedIsFresh'
  BY DEF Form!store, Form!CropOk, FormInv, Form!calls, Form!Live, NamesAreUsed, UnusedIsFresh, Form!Stage
<1>3. PhotoIsOwn' /\ FormIsOpen' /\ Form!OneSubmission' /\ DeadForm'
  BY DEF Form!store, Form!CropOk, FormInv, Form!calls, Form!ghosts, Form!Live, DeadForm, PhotoIsOwn,
     FormIsOpen, Form!OneSubmission, Form!Stage
<1>4. ImagesFit'
  BY DEF Form!store, Form!CropOk, FormInv, Form!calls, Form!ghosts, Form!Live, ImagesFit, OwnImage,
     Form!OwnPhoto, Form!OneSubmission
<1>5. SavesFit'
  BY FormAssumption DEF Form!store, Form!CropOk, FormInv, Form!calls, Form!ghosts, Form!Live, SavesFit,
     PhotoIsOwn, FormIsOpen, Target, Form!PhotoOf, Form!TypeOK, Form!NoPhotoAssumption, Form!OneSubmission
<1>6. SentOnce'
  BY DEF Form!store, Form!CropOk, FormInv, Form!calls, Form!ghosts, Form!Live, SentOnce, Fresh, Target,
     Form!PhotoOf, SavesFit, Form!OneSubmission
<1>7. QED
  BY <1>1, <1>2, <1>3, <1>4, <1>5, <1>6 DEF FormInv

\* A crop that was aborted keeps the invariant of the form.
LEMMA CropAbortedKeeps ==
  ASSUME FormInv, Form!CropAborted
  PROVE  FormInv'
<1>1. Form!TypeOK'
  BY DEF Form!store, Form!CropAborted, FormInv, Form!TypeOK, Form!calls, Form!world, PhotoIsOwn,
     Form!Stage, Form!Dialog
<1>2. NamesAreUsed' /\ UnusedIsFresh'
  BY DEF Form!store, Form!CropAborted, FormInv, Form!calls, Form!world, Form!Live, NamesAreUsed,
     UnusedIsFresh, Form!Stage
<1>3. PhotoIsOwn' /\ FormIsOpen' /\ Form!OneSubmission' /\ DeadForm'
  BY DEF Form!store, Form!CropAborted, FormInv, Form!calls, Form!world, Form!Live, DeadForm, PhotoIsOwn,
     FormIsOpen, Form!OneSubmission, Form!Stage
<1>4. ImagesFit'
  BY DEF Form!store, Form!CropAborted, FormInv, Form!calls, Form!world, Form!Live, ImagesFit, OwnImage,
     Form!OwnPhoto, Form!OneSubmission
<1>5. SavesFit'
  BY FormAssumption DEF Form!store, Form!CropAborted, FormInv, Form!calls, Form!world, Form!Live,
     SavesFit, PhotoIsOwn, FormIsOpen, Target, Form!PhotoOf, Form!TypeOK, Form!NoPhotoAssumption,
     Form!OneSubmission
<1>6. SentOnce'
  BY DEF Form!store, Form!CropAborted, FormInv, Form!calls, Form!world, Form!Live, SentOnce, Fresh,
     Target, Form!PhotoOf, SavesFit, Form!OneSubmission
<1>7. QED
  BY <1>1, <1>2, <1>3, <1>4, <1>5, <1>6 DEF FormInv

\* A dialog that is dismissed keeps the invariant of the form.
LEMMA DialogDismissKeeps ==
  ASSUME FormInv, Form!DialogDismiss
  PROVE  FormInv'
<1>1. Form!TypeOK'
  BY DEF Form!store, Form!DialogDismiss, FormInv, Form!TypeOK, Form!calls, Form!world, Form!Stage, Form!Dialog
<1>2. NamesAreUsed' /\ UnusedIsFresh'
  BY DEF Form!store, Form!DialogDismiss, FormInv, Form!calls, Form!world, Form!Live, NamesAreUsed,
     UnusedIsFresh, Form!Stage
<1>3. PhotoIsOwn' /\ FormIsOpen' /\ Form!OneSubmission' /\ DeadForm'
  BY DEF Form!store, Form!DialogDismiss, FormInv, Form!calls, Form!world, Form!Live, DeadForm, PhotoIsOwn,
     FormIsOpen, Form!OneSubmission, Form!Stage
<1>4. ImagesFit'
  BY DEF Form!store, Form!DialogDismiss, FormInv, Form!calls, Form!world, Form!Live, ImagesFit, OwnImage,
     Form!OwnPhoto, Form!OneSubmission
<1>5. SavesFit'
  BY FormAssumption DEF Form!store, Form!DialogDismiss, FormInv, Form!calls, Form!world, Form!Live,
     SavesFit, PhotoIsOwn, FormIsOpen, Target, Form!PhotoOf, Form!TypeOK, Form!NoPhotoAssumption,
     Form!OneSubmission
<1>6. SentOnce'
  BY DEF Form!store, Form!DialogDismiss, FormInv, Form!calls, Form!world, Form!Live, SentOnce, Fresh,
     Target, Form!PhotoOf, SavesFit, Form!OneSubmission
<1>7. QED
  BY <1>1, <1>2, <1>3, <1>4, <1>5, <1>6 DEF FormInv

\* The death of the process keeps the invariant of the form.
LEMMA ProcessDiesKeeps ==
  ASSUME FormInv, Form!ProcessDies
  PROVE  FormInv'
<1>1. Form!TypeOK'
  BY DEF Form!store, Form!Rows, Form!ProcessDies, FormInv, Form!TypeOK, Form!world, Form!ghosts,
     Form!Stage, Form!Dialog
<1>2. NamesAreUsed' /\ UnusedIsFresh'
  BY DEF Form!store, Form!Rows, Form!ProcessDies, FormInv, Form!world, Form!Live, NamesAreUsed,
     UnusedIsFresh, Form!Stage
<1>3. PhotoIsOwn' /\ FormIsOpen' /\ Form!OneSubmission' /\ DeadForm'
  BY DEF Form!store, Form!Rows, Form!ProcessDies, Form!Live, DeadForm, PhotoIsOwn, FormIsOpen,
     Form!OneSubmission, Form!Stage
<1>4. ImagesFit'
  BY DEF Form!store, Form!Rows, Form!ProcessDies, Form!Live, ImagesFit, Form!OwnPhoto, Posting,
     Form!OneSubmission
<1>5. SavesFit'
  BY FormAssumption DEF Form!store, Form!Rows, Form!ProcessDies, FormInv, Form!NoPhotoAssumption,
     Form!TypeOK, Form!world, Form!ghosts, Form!Live, SavesFit, PhotoIsOwn, FormIsOpen, Target, Form!PhotoOf,
     Form!OneSubmission
<1>6. SentOnce'
  BY FormAssumption DEF Form!store, Form!Rows, Form!ProcessDies, FormInv, Form!NoPhotoAssumption,
     Form!TypeOK, Form!world, Form!ghosts, Form!Live, SentOnce, Fresh, Target, Form!PhotoOf, SavesFit,
     Form!OneSubmission
<1>7. QED
  BY <1>1, <1>2, <1>3, <1>4, <1>5, <1>6 DEF FormInv

\* A press of the button of an incomplete form keeps the invariant of the form.
LEMMA UploadClickIncompleteKeeps ==
  ASSUME FormInv, Form!UploadClickIncomplete
  PROVE  FormInv'
<1>1. Form!TypeOK'
  BY DEF Form!store, Form!UploadClickIncomplete, FormInv, Form!TypeOK, Form!calls, Form!world,
     Form!ghosts, Form!Stage, Form!Dialog
<1>2. NamesAreUsed' /\ UnusedIsFresh'
  BY DEF Form!store, Form!UploadClickIncomplete, FormInv, Form!calls, Form!world, Form!Live, NamesAreUsed,
     UnusedIsFresh, Form!Stage
<1>3. PhotoIsOwn' /\ FormIsOpen' /\ Form!OneSubmission' /\ DeadForm'
  BY DEF Form!store, Form!UploadClickIncomplete, Form!Ready, FormInv, Form!calls, Form!world, Form!ghosts,
     Form!Live, Form!Visible, DeadForm, PhotoIsOwn, FormIsOpen, Form!OneSubmission, Form!Stage
<1>4. ImagesFit'
  BY DEF Form!store, Form!UploadClickIncomplete, FormInv, Form!calls, Form!world, Form!ghosts, Form!Live,
     ImagesFit, OwnImage, Form!OwnPhoto, Form!OneSubmission
<1>5. SavesFit'
  BY FormAssumption DEF Form!store, Form!UploadClickIncomplete, FormInv, Form!calls, Form!world,
     Form!ghosts, Form!Live, SavesFit, PhotoIsOwn, FormIsOpen, Target, Form!PhotoOf, Form!TypeOK,
     Form!NoPhotoAssumption, Form!OneSubmission
<1>6. SentOnce'
  BY DEF Form!store, Form!UploadClickIncomplete, FormInv, Form!calls, Form!world, Form!ghosts, Form!Live,
     SentOnce, Fresh, Target, Form!PhotoOf, SavesFit, Form!OneSubmission
<1>7. QED
  BY <1>1, <1>2, <1>3, <1>4, <1>5, <1>6 DEF FormInv

\* A press of the button without internet keeps the invariant of the form.
LEMMA UploadClickOfflineKeeps ==
  ASSUME FormInv, Form!UploadClickOffline
  PROVE  FormInv'
<1>1. Form!TypeOK'
  BY DEF Form!store, Form!UploadClickOffline, Form!Complete, FormInv, Form!TypeOK, Form!calls, Form!world,
     Form!ghosts, Form!Stage, Form!Dialog
<1>2. NamesAreUsed' /\ UnusedIsFresh'
  BY DEF Form!store, Form!UploadClickOffline, Form!Complete, FormInv, Form!calls, Form!world, Form!Live,
     NamesAreUsed, UnusedIsFresh, Form!Stage
<1>3. PhotoIsOwn' /\ FormIsOpen' /\ Form!OneSubmission' /\ DeadForm'
  BY DEF Form!store, Form!UploadClickOffline, Form!Ready, Form!Complete, FormInv, Form!calls, Form!world,
     Form!ghosts, Form!Live, Form!Visible, DeadForm, PhotoIsOwn, FormIsOpen, Form!OneSubmission, Form!Stage
<1>4. ImagesFit'
  BY DEF Form!store, Form!UploadClickOffline, Form!Complete, FormInv, Form!calls, Form!world, Form!ghosts,
     Form!Live, ImagesFit, OwnImage, Form!OwnPhoto, Form!OneSubmission
<1>5. SavesFit'
  BY FormAssumption DEF Form!store, Form!UploadClickOffline, Form!Complete, FormInv, Form!calls,
     Form!world, Form!ghosts, Form!Live, SavesFit, PhotoIsOwn, FormIsOpen, Target, Form!PhotoOf, Form!TypeOK,
     Form!NoPhotoAssumption, Form!OneSubmission
<1>6. SentOnce'
  BY DEF Form!store, Form!UploadClickOffline, Form!Complete, FormInv, Form!calls, Form!world, Form!ghosts,
     Form!Live, SentOnce, Fresh, Target, Form!PhotoOf, SavesFit, Form!OneSubmission
<1>7. QED
  BY <1>1, <1>2, <1>3, <1>4, <1>5, <1>6 DEF FormInv

\* A press of the button with internet keeps the invariant of the form.
LEMMA UploadClickOnlineKeeps ==
  ASSUME FormInv, NEW k \in Submission, Form!UploadClickOnline(k)
  PROVE  FormInv'
<1>1. Form!TypeOK'
  BY DEF Form!store, Form!UploadClickOnline, Form!Complete, Form!SetUnclickable, FormInv, Form!TypeOK,
     Form!world, PhotoIsOwn, Form!Stage, Form!Dialog
<1>2. NamesAreUsed' /\ UnusedIsFresh'
  BY DEF Form!store, Form!UploadClickOnline, Form!Complete, Form!SetUnclickable, FormInv, Form!TypeOK,
     Form!world, Form!Live, NamesAreUsed, UnusedIsFresh, PhotoIsOwn, Form!Stage
<1>3. PhotoIsOwn' /\ FormIsOpen' /\ Form!OneSubmission' /\ DeadForm'
  BY DEF Form!store, Form!UploadClickOnline, Form!Ready, Form!Complete, Form!SetUnclickable, FormInv,
     Form!TypeOK, Form!world, Form!Live, Form!Visible, DeadForm, PhotoIsOwn, FormIsOpen, Form!OneSubmission,
     Form!Stage
<1>4. ImagesFit'
  BY DEF Form!store, Form!UploadClickOnline, Form!Ready, Form!Complete, Form!SetUnclickable, FormInv,
     Form!TypeOK, Form!world, Form!Live, Form!Visible, ImagesFit, OwnImage, Form!OwnPhoto, PhotoIsOwn,
     Form!OneSubmission
<1>5. SavesFit'
  BY FormAssumption DEF Form!store, Form!UploadClickOnline, Form!Complete, Form!SetUnclickable, FormInv,
     Form!world, Form!Live, SavesFit, PhotoIsOwn, FormIsOpen, Target, Form!PhotoOf, Form!TypeOK,
     Form!NoPhotoAssumption, Form!OneSubmission
<1>6. SentOnce'
  BY DEF Form!store, Form!UploadClickOnline, Form!Complete, Form!SetUnclickable, FormInv, Form!world,
     Form!Live, SentOnce, Fresh, Target, Form!PhotoOf, SavesFit, PhotoIsOwn, Form!OneSubmission
<1>7. QED
  BY <1>1, <1>2, <1>3, <1>4, <1>5, <1>6 DEF FormInv

\* The choice to save offline keeps the invariant of the form.
LEMMA OfflineSaveKeeps ==
  ASSUME FormInv, NEW s \in SaveCall, Form!OfflineSave(s)
  PROVE  FormInv'
<1>1. Form!TypeOK'
  BY DEF Form!store, Form!OfflineSave, FormInv, Form!TypeOK, Form!calls, Form!world, Form!ghosts,
     Form!Stage, Form!Dialog
<1>2. NamesAreUsed' /\ UnusedIsFresh'
  BY DEF Form!store, Form!OfflineSave, FormInv, Form!calls, Form!world, Form!Live, NamesAreUsed,
     UnusedIsFresh, Form!Stage
<1>3. PhotoIsOwn' /\ FormIsOpen' /\ Form!OneSubmission' /\ DeadForm'
  BY DEF Form!store, Form!OfflineSave, FormInv, Form!calls, Form!world, Form!ghosts, Form!Live, DeadForm,
     PhotoIsOwn, FormIsOpen, Form!OneSubmission, Form!Stage
<1>4. ImagesFit'
  BY DEF Form!store, Form!OfflineSave, FormInv, Form!calls, Form!world, Form!ghosts, Form!Live, ImagesFit,
     OwnImage, Form!OwnPhoto, Form!OneSubmission
<1>5. SavesFit'
  BY FormAssumption DEF Form!store, Form!OfflineSave, FormInv, Form!calls, Form!world, Form!ghosts,
     Form!Live, SavesFit, PhotoIsOwn, FormIsOpen, Target, Form!PhotoOf, Form!TypeOK, Form!NoPhotoAssumption,
     Form!OneSubmission
<1>6. SentOnce'
  BY DEF Form!store, Form!OfflineSave, FormInv, Form!calls, Form!world, Form!ghosts, Form!Live, SentOnce,
     Fresh, Target, Form!PhotoOf, SavesFit, FormIsOpen, Form!OneSubmission
<1>7. QED
  BY <1>1, <1>2, <1>3, <1>4, <1>5, <1>6 DEF FormInv

\* The commit of a save keeps the invariant of the form.
LEMMA SaveCommitKeeps ==
  ASSUME FormInv, NEW s \in SaveCall, Form!SaveCommit(s)
  PROVE  FormInv'
<1>1. Form!TypeOK'
  BY DEF Form!store, Form!screen, Form!world, Form!PhotoOf, Target, SavesFit, Form!Rows, Form!SaveCommit,
     Form!SaveWaiting, FormInv, Form!TypeOK, Form!calls, Form!ghosts, PhotoIsOwn, Form!Stage, Form!Dialog
<1>2. NamesAreUsed' /\ UnusedIsFresh'
  BY DEF Form!store, Form!screen, Form!world, Form!PhotoOf, Target, SavesFit, Form!Rows, Form!SaveCommit,
     Form!SaveWaiting, FormInv, Form!calls, Form!Live, NamesAreUsed, UnusedIsFresh, Form!Stage
<1>3. PhotoIsOwn' /\ FormIsOpen' /\ Form!OneSubmission' /\ DeadForm'
  BY DEF Form!store, Form!screen, Form!world, Form!PhotoOf, Target, SavesFit, Form!Rows, Form!SaveCommit,
     Form!SaveWaiting, FormInv, Form!calls, Form!ghosts, Form!Live, DeadForm, PhotoIsOwn, FormIsOpen,
     Form!OneSubmission, Form!Stage
<1>4. ImagesFit'
  BY DEF Form!store, Form!screen, Form!world, Form!PhotoOf, Target, SavesFit, Form!Rows, Form!SaveCommit,
     Form!SaveWaiting, FormInv, Form!calls, Form!ghosts, Form!Live, ImagesFit, OwnImage, Form!OwnPhoto,
     Form!OneSubmission
<1>5. SavesFit'
  BY FormAssumption DEF Form!store, Form!screen, Form!world, Form!PhotoOf, Target, SavesFit, Form!Rows,
     Form!SaveCommit, Form!SaveWaiting, FormInv, Form!calls, Form!ghosts, Form!Live, PhotoIsOwn, FormIsOpen,
     Form!TypeOK, Form!NoPhotoAssumption, Form!OneSubmission
<1>6. \A x \in SaveCall : Target(x)' = Target(x) /\ (saving'[x] = "no" <=> saving[x] = "no")
  BY DEF Form!store, Form!screen, Form!PhotoOf, Target, Form!SaveCommit, Form!SaveWaiting, FormInv,
     Form!TypeOK
<1>7. SentOnce'
  BY <1>6 DEF Form!store, Form!screen, Form!world, Form!SaveCommit, Form!SaveWaiting, FormInv, Form!calls,
     Form!ghosts, SentOnce, Fresh, Form!OneSubmission
<1>8. QED
  BY <1>1, <1>2, <1>3, <1>4, <1>5, <1>7 DEF FormInv

\* The end of a save keeps the invariant of the form.
LEMMA SaveSuccessKeeps ==
  ASSUME FormInv, NEW s \in SaveCall, Form!SaveSuccess(s)
  PROVE  FormInv'
<1>1. CallsTyped'
  BY PhotosTyped DEF Form!store, Form!screen, Form!calls, Form!SaveSuccess, Form!Finish, Form!ImagesKept,
     Form!PhotosKept, Form!PhotoOf, Form!Rows, FormInv, Form!TypeOK, CallsTyped, Form!Stage
<1>2. Form!TypeOK'
  BY <1>1, PhotosTyped DEF Form!store, Form!screen, Form!calls, Form!SaveSuccess, Form!Finish,
     Form!ImagesKept, Form!PhotosKept, Form!PhotoOf, Form!Rows, FormInv, Form!TypeOK, Form!world,
     Form!ghosts, Form!Stage, Form!Dialog, CallsTyped
<1>3. NamesAreUsed' /\ UnusedIsFresh'
  BY DEF Form!store, Form!screen, Form!calls, Form!SaveSuccess, Form!Finish, Form!ImagesKept,
     Form!PhotosKept, Form!PhotoOf, Form!Rows, FormInv, Form!world, Form!Live, NamesAreUsed, UnusedIsFresh,
     Form!Stage
<1>4. PhotoIsOwn' /\ FormIsOpen' /\ Form!OneSubmission' /\ DeadForm'
  BY DEF Form!store, Form!screen, Form!calls, Form!SaveSuccess, Form!Finish, Form!ImagesKept,
     Form!PhotosKept, Form!PhotoOf, Form!Rows, Form!Live, FormInv, Form!world, Form!ghosts, DeadForm,
     PhotoIsOwn, FormIsOpen, Form!OneSubmission, Form!Stage
<1>5. ImagesFit'
  BY DEF Form!store, Form!screen, Form!calls, Form!SaveSuccess, Form!Finish, Form!ImagesKept,
     Form!PhotosKept, Form!PhotoOf, Form!Rows, FormInv, Form!world, Form!ghosts, Form!Live, ImagesFit,
     OwnImage, Form!OwnPhoto, Form!OneSubmission
<1>6. SavesFit'
  BY FormAssumption DEF Form!store, Form!screen, Form!calls, Form!SaveSuccess, Form!Finish,
     Form!ImagesKept, Form!PhotosKept, Form!PhotoOf, Form!Rows, FormInv, Form!world, Form!ghosts, Form!Live,
     SavesFit, PhotoIsOwn, FormIsOpen, Target, Form!TypeOK, Form!NoPhotoAssumption, Form!OneSubmission
<1>7. SentOnce'
  BY DEF Form!store, Form!screen, Form!calls, Form!SaveSuccess, Form!Finish, Form!ImagesKept,
     Form!PhotosKept, Form!PhotoOf, Form!Rows, FormInv, Form!world, Form!ghosts, Form!Live, SentOnce, Fresh,
     Target, SavesFit, Form!OneSubmission
<1>8. QED
  BY <1>1, <1>2, <1>3, <1>4, <1>5, <1>6, <1>7 DEF FormInv

\* The answer that a road is near keeps the invariant of the form.
LEMMA BisagNearKeeps ==
  ASSUME FormInv, NEW k \in Submission, Form!BisagNear(k)
  PROVE  FormInv'
<1>1. CallsTyped'
  BY PhotosTyped DEF Form!store, Form!BisagNear, FormInv, Form!TypeOK, Form!screen, CallsTyped, Form!Stage
<1>2. Form!TypeOK'
  BY <1>1 DEF Form!store, Form!BisagNear, FormInv, Form!TypeOK, Form!screen, Form!world, Form!ghosts,
     Form!Stage, Form!Dialog, CallsTyped
<1>3. NamesAreUsed' /\ UnusedIsFresh'
  BY DEF Form!store, Form!BisagNear, FormInv, Form!screen, Form!world, Form!Live, NamesAreUsed,
     UnusedIsFresh, Form!Stage
<1>4. PhotoIsOwn' /\ FormIsOpen' /\ Form!OneSubmission' /\ DeadForm'
  BY DEF Form!store, Form!BisagNear, FormInv, Form!screen, Form!world, Form!ghosts, Form!Live, DeadForm,
     PhotoIsOwn, FormIsOpen, Form!OneSubmission, Form!Stage
<1>5. ImagesFit'
  BY DEF Form!store, Form!BisagNear, FormInv, Form!TypeOK, Form!screen, Form!world, Form!ghosts,
     Form!Live, ImagesFit, OwnImage, Form!OwnPhoto, Posting, Form!OneSubmission
<1>6. SavesFit'
  BY FormAssumption DEF Form!store, Form!BisagNear, FormInv, Form!screen, Form!world, Form!ghosts,
     Form!Live, SavesFit, PhotoIsOwn, FormIsOpen, Target, Form!PhotoOf, Form!TypeOK, Form!NoPhotoAssumption,
     Form!OneSubmission
<1>7. SentOnce'
  BY DEF Form!store, Form!BisagNear, FormInv, Form!screen, Form!world, Form!ghosts, Form!Live, SentOnce,
     Fresh, Target, Form!PhotoOf, SavesFit, Form!OneSubmission
<1>8. QED
  BY <1>1, <1>2, <1>3, <1>4, <1>5, <1>6, <1>7 DEF FormInv

\* The answer that no road is near keeps the invariant of the form.
LEMMA BisagFarKeeps ==
  ASSUME FormInv, NEW k \in Submission, Form!BisagFar(k)
  PROVE  FormInv'
<1>1. Form!TypeOK'
  BY DEF Form!store, Form!BisagFar, Form!EndCall, Form!Show, Form!LeftAlone, Form!FormUnchanged, FormInv,
     Form!TypeOK, Form!world, Form!Stage, Form!Dialog
<1>2. NamesAreUsed' /\ UnusedIsFresh'
  BY DEF Form!store, Form!BisagFar, Form!EndCall, Form!Show, Form!LeftAlone, Form!FormUnchanged, FormInv,
     Form!TypeOK, Form!world, Form!Live, NamesAreUsed, UnusedIsFresh, Form!Stage
<1>3. PhotoIsOwn' /\ FormIsOpen' /\ Form!OneSubmission' /\ DeadForm'
  BY DEF Form!store, Form!BisagFar, Form!EndCall, Form!Show, Form!LeftAlone, Form!FormUnchanged, FormInv,
     Form!TypeOK, Form!world, Form!Live, DeadForm, PhotoIsOwn, FormIsOpen, Form!OneSubmission, Form!Stage
<1>4. ImagesFit'
  BY DEF Form!store, Form!BisagFar, Form!EndCall, Form!Show, Form!LeftAlone, Form!FormUnchanged, FormInv,
     Form!TypeOK, Form!world, Form!Live, ImagesFit, OwnImage, Form!OwnPhoto, Form!OneSubmission
<1>5. SavesFit'
  BY FormAssumption DEF Form!store, Form!BisagFar, Form!EndCall, Form!Show, Form!LeftAlone,
     Form!FormUnchanged, FormInv, Form!NoPhotoAssumption, Form!TypeOK, Form!world, Form!Live, SavesFit,
     PhotoIsOwn, FormIsOpen, Target, Form!PhotoOf, Form!OneSubmission
<1>6. SentOnce'
  BY FormAssumption DEF Form!store, Form!BisagFar, Form!EndCall, Form!Show, Form!LeftAlone,
     Form!FormUnchanged, FormInv, Form!NoPhotoAssumption, Form!TypeOK, Form!world, Form!Live, SentOnce,
     Fresh, Target, Form!PhotoOf, SavesFit, Form!OneSubmission
<1>7. QED
  BY <1>1, <1>2, <1>3, <1>4, <1>5, <1>6 DEF FormInv

\* A road service that does not answer keeps the invariant of the form.
LEMMA BisagFailureKeeps ==
  ASSUME FormInv, NEW k \in Submission, Form!BisagFailure(k)
  PROVE  FormInv'
<1>1. Form!TypeOK'
  BY DEF Form!store, Form!BisagFailure, Form!EndCall, Form!Show, Form!ReviveButton, Form!FormUnchanged,
     FormInv, Form!TypeOK, Form!world, Form!ghosts, Form!Stage, Form!Dialog
<1>2. NamesAreUsed' /\ UnusedIsFresh'
  BY DEF Form!store, Form!BisagFailure, Form!EndCall, Form!Show, Form!ReviveButton, Form!FormUnchanged,
     FormInv, Form!TypeOK, Form!world, Form!Live, NamesAreUsed, UnusedIsFresh, Form!Stage
<1>3. PhotoIsOwn' /\ FormIsOpen' /\ Form!OneSubmission' /\ DeadForm'
  BY DEF Form!store, Form!BisagFailure, Form!EndCall, Form!Show, Form!ReviveButton, Form!FormUnchanged,
     FormInv, Form!TypeOK, Form!world, Form!ghosts, Form!Live, DeadForm, PhotoIsOwn, FormIsOpen,
     Form!OneSubmission, Form!Stage
<1>4. ImagesFit'
  BY DEF Form!store, Form!BisagFailure, Form!EndCall, Form!Show, Form!ReviveButton, Form!FormUnchanged,
     FormInv, Form!TypeOK, Form!world, Form!ghosts, Form!Live, ImagesFit, OwnImage, Form!OwnPhoto,
     Form!OneSubmission
<1>5. SavesFit'
  BY FormAssumption DEF Form!store, Form!BisagFailure, Form!EndCall, Form!Show, Form!ReviveButton,
     Form!FormUnchanged, FormInv, Form!NoPhotoAssumption, Form!TypeOK, Form!world, Form!ghosts, Form!Live,
     SavesFit, PhotoIsOwn, FormIsOpen, Target, Form!PhotoOf, Form!OneSubmission
<1>6. SentOnce'
  BY FormAssumption DEF Form!store, Form!BisagFailure, Form!EndCall, Form!Show, Form!ReviveButton,
     Form!FormUnchanged, FormInv, Form!NoPhotoAssumption, Form!TypeOK, Form!world, Form!ghosts, Form!Live,
     SentOnce, Fresh, Target, Form!PhotoOf, SavesFit, Form!OneSubmission
<1>7. QED
  BY <1>1, <1>2, <1>3, <1>4, <1>5, <1>6 DEF FormInv

\* An error of the road service keeps the invariant of the form.
LEMMA HttpErrorKeeps ==
  ASSUME FormInv, NEW k \in Submission, Form!HttpError(k)
  PROVE  FormInv'
<1>1. Form!TypeOK'
  BY DEF Form!store, Form!HttpError, Form!EndCall, Form!Abandon, Form!Show, Form!LeftAlone,
     Form!FormUnchanged, FormInv, Form!TypeOK, Form!world, Form!Stage, Form!Dialog
<1>2. NamesAreUsed' /\ UnusedIsFresh'
  BY DEF Form!store, Form!HttpError, Form!EndCall, Form!Abandon, Form!Show, Form!LeftAlone,
     Form!FormUnchanged, FormInv, Form!TypeOK, Form!world, Form!Live, NamesAreUsed, UnusedIsFresh, Form!Stage
<1>3. PhotoIsOwn' /\ FormIsOpen' /\ Form!OneSubmission' /\ DeadForm'
  BY DEF Form!store, Form!HttpError, Form!EndCall, Form!Abandon, Form!Show, Form!LeftAlone,
     Form!FormUnchanged, FormInv, Form!TypeOK, Form!world, Form!Live, DeadForm, PhotoIsOwn, FormIsOpen,
     Form!OneSubmission, Form!Stage
<1>4. ImagesFit'
  BY DEF Form!store, Form!HttpError, Form!EndCall, Form!Abandon, Form!Show, Form!LeftAlone,
     Form!FormUnchanged, FormInv, Form!TypeOK, Form!world, Form!Live, ImagesFit, OwnImage, Form!OwnPhoto,
     Posting, Form!OneSubmission
<1>5. SavesFit'
  BY FormAssumption DEF Form!store, Form!HttpError, Form!EndCall, Form!Abandon, Form!Show, Form!LeftAlone,
     Form!FormUnchanged, FormInv, Form!NoPhotoAssumption, Form!TypeOK, Form!world, Form!Live, SavesFit,
     PhotoIsOwn, FormIsOpen, Target, Form!PhotoOf, Form!OneSubmission
<1>6. SentOnce'
  BY FormAssumption DEF Form!store, Form!HttpError, Form!EndCall, Form!Abandon, Form!Show, Form!LeftAlone,
     Form!FormUnchanged, FormInv, Form!NoPhotoAssumption, Form!TypeOK, Form!world, Form!Live, SentOnce,
     Fresh, Target, Form!PhotoOf, SavesFit, Form!OneSubmission
<1>7. QED
  BY <1>1, <1>2, <1>3, <1>4, <1>5, <1>6 DEF FormInv

\* The server's acceptance keeps the invariant of the form.
LEMMA ServerAcceptsKeeps ==
  ASSUME FormInv, NEW k \in Submission, Form!ServerAccepts(k)
  PROVE  FormInv'
<1>1. Form!TypeOK'
  BY FormAssumption DEF Form!store, Form!ServerAccepts, Form!MoveCall, Form!EndCall, FormInv,
     Form!MaxAcceptedAssumption, Form!TypeOK, Form!screen, Form!ghosts, NamesAreUsed, Form!Stage, Form!Dialog
<1>2. NamesAreUsed' /\ UnusedIsFresh'
  BY DEF Form!store, Form!ServerAccepts, Form!MoveCall, Form!EndCall, FormInv, Form!TypeOK, Form!screen,
     Form!Live, NamesAreUsed, UnusedIsFresh, Form!Stage
<1>3. PhotoIsOwn' /\ FormIsOpen' /\ Form!OneSubmission' /\ DeadForm'
  BY DEF Form!store, Form!ServerAccepts, Form!MoveCall, Form!EndCall, FormInv, Form!TypeOK, Form!screen,
     Form!ghosts, Form!Live, DeadForm, PhotoIsOwn, FormIsOpen, Form!OneSubmission, Form!Stage
<1>4. ImagesFit'
  BY DEF Form!store, Form!ServerAccepts, Form!MoveCall, Form!EndCall, FormInv, Form!TypeOK, Form!screen,
     Form!ghosts, Form!Live, ImagesFit, OwnImage, Form!OwnPhoto, Posting, Form!OneSubmission
<1>5. SavesFit'
  BY FormAssumption DEF Form!store, Form!ServerAccepts, Form!MoveCall, Form!EndCall, FormInv,
     Form!NoPhotoAssumption, Form!TypeOK, Form!screen, Form!ghosts, Form!Live, SavesFit, PhotoIsOwn,
     FormIsOpen, Target, Form!PhotoOf, Form!OneSubmission
<1>6. SentOnce'
  BY FormAssumption DEF Form!store, Form!ServerAccepts, Form!MoveCall, Form!EndCall, FormInv,
     Form!NoPhotoAssumption, Form!TypeOK, Form!screen, Form!ghosts, Form!Live, SentOnce, Fresh, Target,
     Form!PhotoOf, SavesFit, Form!OneSubmission
<1>7. QED
  BY <1>1, <1>2, <1>3, <1>4, <1>5, <1>6 DEF FormInv

\* The server's refusal keeps the invariant of the form.
LEMMA ServerRefusesKeeps ==
  ASSUME FormInv, NEW k \in Submission, Form!ServerRefuses(k)
  PROVE  FormInv'
<1>1. Form!TypeOK'
  BY DEF Form!store, Form!ServerRefuses, Form!MoveCall, Form!EndCall, FormInv, Form!TypeOK, Form!screen,
     Form!world, Form!ghosts, Form!Stage, Form!Dialog
<1>2. NamesAreUsed' /\ UnusedIsFresh'
  BY DEF Form!store, Form!ServerRefuses, Form!MoveCall, Form!EndCall, FormInv, Form!TypeOK, Form!screen,
     Form!world, Form!Live, NamesAreUsed, UnusedIsFresh, Form!Stage
<1>3. PhotoIsOwn' /\ FormIsOpen' /\ Form!OneSubmission' /\ DeadForm'
  BY DEF Form!store, Form!ServerRefuses, Form!MoveCall, Form!EndCall, FormInv, Form!TypeOK, Form!screen,
     Form!world, Form!ghosts, Form!Live, DeadForm, PhotoIsOwn, FormIsOpen, Form!OneSubmission, Form!Stage
<1>4. ImagesFit'
  BY DEF Form!store, Form!ServerRefuses, Form!MoveCall, Form!EndCall, FormInv, Form!TypeOK, Form!screen,
     Form!world, Form!ghosts, Form!Live, ImagesFit, OwnImage, Form!OwnPhoto, Posting, Form!OneSubmission
<1>5. SavesFit'
  BY FormAssumption DEF Form!store, Form!ServerRefuses, Form!MoveCall, Form!EndCall, FormInv,
     Form!NoPhotoAssumption, Form!TypeOK, Form!screen, Form!world, Form!ghosts, Form!Live, SavesFit,
     PhotoIsOwn, FormIsOpen, Target, Form!PhotoOf, Form!OneSubmission
<1>6. SentOnce'
  BY FormAssumption DEF Form!store, Form!ServerRefuses, Form!MoveCall, Form!EndCall, FormInv,
     Form!NoPhotoAssumption, Form!TypeOK, Form!screen, Form!world, Form!ghosts, Form!Live, SentOnce, Fresh,
     Target, Form!PhotoOf, SavesFit, Form!OneSubmission
<1>7. QED
  BY <1>1, <1>2, <1>3, <1>4, <1>5, <1>6 DEF FormInv

\* The reply of an acceptance keeps the invariant of the form.
LEMMA PostAcceptedKeeps ==
  ASSUME FormInv, NEW k \in Submission, Form!PostAccepted(k)
  PROVE  FormInv'
<1>1. Form!TypeOK'
  BY DEF Form!store, Form!PostAccepted, Form!MoveCall, FormInv, Form!TypeOK, Form!screen, Form!world,
     Form!ghosts, Form!Stage, Form!Dialog
<1>2. NamesAreUsed' /\ UnusedIsFresh'
  BY DEF Form!store, Form!PostAccepted, Form!MoveCall, FormInv, Form!screen, Form!world, Form!Live,
     NamesAreUsed, UnusedIsFresh, Form!Stage
<1>3. PhotoIsOwn' /\ FormIsOpen' /\ Form!OneSubmission' /\ DeadForm'
  BY DEF Form!store, Form!PostAccepted, Form!MoveCall, FormInv, Form!screen, Form!world, Form!ghosts,
     Form!Live, DeadForm, PhotoIsOwn, FormIsOpen, Form!OneSubmission, Form!Stage
<1>4. ImagesFit'
  BY DEF Form!store, Form!PostAccepted, Form!MoveCall, FormInv, Form!screen, Form!world, Form!ghosts,
     Form!Live, ImagesFit, OwnImage, Form!OwnPhoto, Posting, Form!OneSubmission
<1>5. SavesFit'
  BY FormAssumption DEF Form!store, Form!PostAccepted, Form!MoveCall, FormInv, Form!screen, Form!world,
     Form!ghosts, Form!Live, SavesFit, PhotoIsOwn, FormIsOpen, Target, Form!PhotoOf, Form!TypeOK,
     Form!NoPhotoAssumption, Form!OneSubmission
<1>6. SentOnce'
  BY DEF Form!store, Form!PostAccepted, Form!MoveCall, FormInv, Form!screen, Form!world, Form!ghosts,
     Form!Live, SentOnce, Fresh, Target, Form!PhotoOf, SavesFit, Form!OneSubmission
<1>7. QED
  BY <1>1, <1>2, <1>3, <1>4, <1>5, <1>6 DEF FormInv

\* The reply of a refusal keeps the invariant of the form.
LEMMA PostRefusedKeeps ==
  ASSUME FormInv, NEW k \in Submission, Form!PostRefused(k)
  PROVE  FormInv'
<1>1. Form!TypeOK'
  BY FormAssumption DEF Form!store, Form!PostRefused, Form!EndCall, Form!Show, Form!LeftAlone,
     Form!FormUnchanged, FormInv, Form!TypeOK, Form!world, Form!Stage, Form!Dialog
<1>2. NamesAreUsed' /\ UnusedIsFresh'
  BY DEF Form!store, Form!PostRefused, Form!EndCall, Form!Show, Form!LeftAlone, Form!FormUnchanged,
     FormInv, Form!TypeOK, Form!world, Form!Live, NamesAreUsed, UnusedIsFresh, Form!Stage
<1>3. PhotoIsOwn' /\ FormIsOpen' /\ Form!OneSubmission' /\ DeadForm'
  BY DEF Form!store, Form!PostRefused, Form!EndCall, Form!Show, Form!LeftAlone, Form!FormUnchanged,
     FormInv, Form!TypeOK, Form!world, Form!Live, DeadForm, PhotoIsOwn, FormIsOpen, Form!OneSubmission,
     Form!Stage
<1>4. ImagesFit'
  BY DEF Form!store, Form!PostRefused, Form!EndCall, Form!Show, Form!LeftAlone, Form!FormUnchanged,
     FormInv, Form!TypeOK, Form!world, Form!Live, ImagesFit, OwnImage, Form!OwnPhoto, Form!OneSubmission
<1>5. SavesFit'
  BY FormAssumption DEF Form!store, Form!PostRefused, Form!EndCall, Form!Show, Form!LeftAlone,
     Form!FormUnchanged, FormInv, Form!NoPhotoAssumption, Form!TypeOK, Form!world, Form!Live, SavesFit,
     PhotoIsOwn, FormIsOpen, Target, Form!PhotoOf, Form!OneSubmission
<1>6. SentOnce'
  BY FormAssumption DEF Form!store, Form!PostRefused, Form!EndCall, Form!Show, Form!LeftAlone,
     Form!FormUnchanged, FormInv, Form!NoPhotoAssumption, Form!TypeOK, Form!world, Form!Live, SentOnce,
     Fresh, Target, Form!PhotoOf, SavesFit, Form!OneSubmission
<1>7. QED
  BY <1>1, <1>2, <1>3, <1>4, <1>5, <1>6 DEF FormInv

\* A lost reply keeps the invariant of the form.
LEMMA PostFailureKeeps ==
  ASSUME FormInv, NEW k \in Submission, Form!PostFailure(k)
  PROVE  FormInv'
<1>1. Form!TypeOK'
  BY DEF Form!store, Form!PostFailure, Form!EndCall, Form!Abandon, Form!ReviveButton, Form!Show,
     Form!FormUnchanged, FormInv, Form!TypeOK, Form!world, NamesAreUsed, Form!Stage, Form!Dialog
<1>2. NamesAreUsed' /\ UnusedIsFresh'
  BY DEF Form!store, Form!PostFailure, Form!EndCall, Form!Abandon, Form!ReviveButton, Form!Show,
     Form!FormUnchanged, FormInv, Form!TypeOK, Form!world, Form!Live, NamesAreUsed, UnusedIsFresh, Form!Stage
<1>3. PhotoIsOwn' /\ FormIsOpen' /\ Form!OneSubmission' /\ DeadForm'
  BY DEF Form!store, Form!PostFailure, Form!EndCall, Form!Abandon, Form!ReviveButton, Form!Show,
     Form!FormUnchanged, FormInv, Form!TypeOK, Form!world, Form!Live, DeadForm, PhotoIsOwn, FormIsOpen,
     Form!OneSubmission, Form!Stage
<1>4. ImagesFit'
  BY DEF Form!store, Form!PostFailure, Form!EndCall, Form!Abandon, Form!ReviveButton, Form!Show,
     Form!FormUnchanged, FormInv, Form!TypeOK, Form!world, Form!Live, ImagesFit, OwnImage, Form!OwnPhoto,
     Posting, Form!OneSubmission
<1>5. SavesFit'
  BY FormAssumption DEF Form!store, Form!PostFailure, Form!EndCall, Form!Abandon, Form!ReviveButton,
     Form!Show, Form!FormUnchanged, FormInv, Form!NoPhotoAssumption, Form!TypeOK, Form!world, Form!Live,
     SavesFit, PhotoIsOwn, FormIsOpen, Target, Form!PhotoOf, Form!OneSubmission
<1>6. SentOnce'
  BY FormAssumption DEF Form!store, Form!PostFailure, Form!EndCall, Form!Abandon, Form!ReviveButton,
     Form!Show, Form!FormUnchanged, FormInv, Form!NoPhotoAssumption, Form!TypeOK, Form!world, Form!Live,
     SentOnce, Fresh, Target, Form!PhotoOf, SavesFit, Form!OneSubmission
<1>7. QED
  BY <1>1, <1>2, <1>3, <1>4, <1>5, <1>6 DEF FormInv

\* The copy of the answer keeps the invariant of the form.
LEMMA CopyToRealmKeeps ==
  ASSUME FormInv, NEW k \in Submission, Form!CopyToRealm(k)
  PROVE  FormInv'
<1>1. Form!TypeOK'
  BY DEF Form!store, Form!CopyToRealm, Form!MoveCall, FormInv, Form!TypeOK, Form!screen, Form!ghosts,
     NamesAreUsed, Form!Stage, Form!Dialog
<1>2. NamesAreUsed' /\ UnusedIsFresh'
  BY DEF Form!store, Form!CopyToRealm, Form!MoveCall, FormInv, Form!screen, Form!Live, NamesAreUsed,
     UnusedIsFresh, Form!Stage
<1>3. PhotoIsOwn' /\ FormIsOpen' /\ Form!OneSubmission' /\ DeadForm'
  BY DEF Form!store, Form!CopyToRealm, Form!MoveCall, FormInv, Form!screen, Form!ghosts, Form!Live,
     DeadForm, PhotoIsOwn, FormIsOpen, Form!OneSubmission, Form!Stage
<1>4. ImagesFit'
  BY DEF Form!store, Form!CopyToRealm, Form!MoveCall, FormInv, Form!screen, Form!ghosts, Form!Live,
     ImagesFit, OwnImage, Form!OwnPhoto, Posting, Form!OneSubmission
<1>5. SavesFit'
  BY FormAssumption DEF Form!store, Form!CopyToRealm, Form!MoveCall, FormInv, Form!screen, Form!ghosts,
     Form!Live, SavesFit, PhotoIsOwn, FormIsOpen, Target, Form!PhotoOf, Form!TypeOK, Form!NoPhotoAssumption,
     Form!OneSubmission
<1>6. SentOnce'
  BY DEF Form!store, Form!CopyToRealm, Form!MoveCall, FormInv, Form!screen, Form!ghosts, Form!Live,
     SentOnce, Fresh, Target, Form!PhotoOf, SavesFit, Form!OneSubmission
<1>7. QED
  BY <1>1, <1>2, <1>3, <1>4, <1>5, <1>6 DEF FormInv

\* The end of the copy keeps the invariant of the form.
LEMMA CopySuccessKeeps ==
  ASSUME FormInv, NEW k \in Submission, Form!CopySuccess(k)
  PROVE  FormInv'
<1>1. CallsTyped'
  BY PhotosTyped DEF Form!store, Form!CopySuccess, Form!EndCall, Form!Finish, Form!ImagesKept,
     Form!PhotosKept, Form!PhotoOf, Form!Rows, FormInv, Form!TypeOK, Form!screen, CallsTyped, Form!Stage
<1>2. Form!TypeOK'
  <2>1. CASE k \in mine
    BY <2>1, <1>1, PhotosTyped DEF Form!store, Form!CopySuccess, Form!EndCall, Form!Finish, Form!ImagesKept,
       Form!PhotosKept, Form!PhotoOf, Form!Rows, FormInv, Form!TypeOK, Form!screen, Form!world, Form!ghosts,
       Form!Stage, Form!Dialog
  <2>2. CASE k \notin mine
    BY <2>2, <1>1 DEF Form!store, Form!CopySuccess, Form!EndCall, Form!Finish, Form!ImagesKept,
       Form!PhotosKept, Form!PhotoOf, Form!Rows, FormInv, Form!TypeOK, Form!screen, Form!world, Form!ghosts,
       Form!Stage, Form!Dialog
  <2>3. QED
    BY <2>1, <2>2
<1>3. NamesAreUsed' /\ UnusedIsFresh'
  BY DEF Form!store, Form!CopySuccess, Form!EndCall, Form!Finish, Form!ImagesKept, Form!PhotosKept,
     Form!PhotoOf, Form!Rows, FormInv, Form!TypeOK, Form!screen, Form!world, Form!Live, NamesAreUsed,
     UnusedIsFresh, Form!Stage
<1>4. PhotoIsOwn' /\ FormIsOpen' /\ Form!OneSubmission' /\ DeadForm'
  BY DEF Form!store, Form!CopySuccess, Form!EndCall, Form!Finish, Form!ImagesKept, Form!PhotosKept,
     Form!PhotoOf, Form!Rows, FormInv, Form!TypeOK, Form!screen, Form!world, Form!ghosts, Form!Live,
     DeadForm, PhotoIsOwn, FormIsOpen, Form!OneSubmission, Form!Stage
<1>5. ImagesFit'
  BY DEF Form!store, Form!CopySuccess, Form!EndCall, Form!Finish, Form!ImagesKept, Form!PhotosKept,
     Form!PhotoOf, Form!Rows, FormInv, Form!TypeOK, Form!screen, Form!world, Form!ghosts, Form!Live,
     ImagesFit, OwnImage, Form!OwnPhoto, Form!OneSubmission
<1>6. SavesFit'
  BY FormAssumption DEF Form!store, Form!CopySuccess, Form!EndCall, Form!Finish, Form!ImagesKept,
     Form!PhotosKept, Form!PhotoOf, Form!Rows, FormInv, Form!NoPhotoAssumption, Form!TypeOK, Form!screen,
     Form!world, Form!ghosts, Form!Live, SavesFit, PhotoIsOwn, FormIsOpen, Target, Form!OneSubmission
<1>7. SentOnce'
  BY FormAssumption DEF Form!store, Form!CopySuccess, Form!EndCall, Form!Finish, Form!ImagesKept,
     Form!PhotosKept, Form!PhotoOf, Form!Rows, FormInv, Form!NoPhotoAssumption, Form!TypeOK, Form!screen,
     Form!world, Form!ghosts, Form!Live, SentOnce, Fresh, Target, SavesFit, Form!OneSubmission
<1>8. QED
  BY <1>1, <1>2, <1>3, <1>4, <1>5, <1>6, <1>7 DEF FormInv

\* A step that leaves the form alone keeps the invariant.
LEMMA FormStutters ==
  ASSUME FormInv, UNCHANGED formVars
  PROVE  FormInv'
BY DEF FormInv, formVars, SavesFit, Target, Form!PhotoOf, Form!store, Form!screen, Form!calls, Form!world, Form!ghosts, Form!TypeOK, PhotoIsOwn,
   FormIsOpen, NamesAreUsed, Form!OneSubmission, ImagesFit, SentOnce,
   UnusedIsFresh, DeadForm, OwnImage, Form!OwnPhoto, Fresh, Form!Live

\* The invariant of the form holds at first.
LEMMA FormInvInit == Form!Init => FormInv
<1> SUFFICES ASSUME Form!Init PROVE FormInv
  OBVIOUS
<1>1. Form!TypeOK
  <2>1. CallsTyped /\ created \in [Photo -> 0..MaxAccepted]
    BY FormAssumption DEF Form!MaxAcceptedAssumption, Form!Init, CallsTyped, Form!Stage
  <2>2. QED
    BY <2>1 DEF Form!Init, CallsTyped, Form!TypeOK, Form!Dialog
<1>2. PhotoIsOwn /\ FormIsOpen /\ NamesAreUsed /\ Form!OneSubmission /\ UnusedIsFresh /\ DeadForm
  BY <1>1 DEF Form!Init, PhotoIsOwn, FormIsOpen, NamesAreUsed, Form!OneSubmission, UnusedIsFresh, DeadForm
<1>3. ImagesFit /\ SentOnce /\ SavesFit
  BY <1>1 DEF Form!Init, ImagesFit, SentOnce, SavesFit, Posting
<1>4. QED
  BY <1>1, <1>2, <1>3 DEF FormInv

\* The four ways to close the form are steps of FinishOnly from an open form.
LEMMA FormUserKeeps ==
  ASSUME FormInv, Form!User
  PROVE  FormInv'
<1>1. Form!CloseForm \/ Form!DialogOk \/ Form!OfflineCancel => form /\ Form!FinishOnly
  BY DEF Form!CloseForm, Form!DialogOk, Form!OfflineCancel, Form!Ready, Form!Visible
<1>2. Form!UploadClickGpsOff => UNCHANGED formVars
  BY DEF Form!UploadClickGpsOff, Form!vars, formVars, Form!store, Form!screen, Form!calls, Form!world,
     Form!ghosts
<1>3. QED
  BY <1>1, <1>2, FinishOnlyKeeps, FormStutters, OpenFormKeeps, GoAwayKeeps,
     PickGrievanceKeeps, CaptureImageKeeps, DialogDismissKeeps,
     OfflineSaveKeeps, UploadClickIncompleteKeeps, UploadClickOfflineKeeps,
     UploadClickOnlineKeeps DEF Form!User

\* Every step of the form keeps the invariant.
LEMMA FormInvStep ==
  ASSUME FormInv, [Form!Next]_formVars
  PROVE  FormInv'
<1>1. CASE Form!User
  BY <1>1, FormUserKeeps
<1>2. CASE Form!Camera
  <2>1. Form!CaptureCancelled => form /\ Form!FinishOnly
    BY DEF Form!CaptureCancelled, FormInv, FormIsOpen
  <2>2. QED
    BY <1>2, <2>1, FinishOnlyKeeps, CameraOkKeeps, CameraFailedKeeps,
       CropOkKeeps, CropAbortedKeeps DEF Form!Camera
<1>3. (\E s \in SaveCall : Form!SaveCommit(s) \/ Form!SaveSuccess(s)) \/ Form!ProcessDies => FormInv'
  BY SaveCommitKeeps, SaveSuccessKeeps, ProcessDiesKeeps
<1>4. ASSUME NEW k \in Submission, Form!Callback(k) PROVE FormInv'
  BY <1>4, BisagNearKeeps, BisagFarKeeps, BisagFailureKeeps, HttpErrorKeeps,
     PostAcceptedKeeps, PostRefusedKeeps, PostFailureKeeps, CopyToRealmKeeps,
     CopySuccessKeeps, ProcessDiesKeeps DEF Form!Callback, Form!BisagEmpty
<1>5. ASSUME NEW k \in Submission, Form!Server(k) PROVE FormInv'
  BY <1>5, ServerAcceptsKeeps, ServerRefusesKeeps DEF Form!Server
<1>6. CASE UNCHANGED formVars
  BY <1>6, FormStutters
<1>7. QED
  BY <1>1, <1>2, <1>3, <1>4, <1>5, <1>6 DEF Form!Next

\* What the runs check of the form follows from the invariant.
LEMMA FormInvImplies ==
  ASSUME FormInv
  PROVE  /\ Form!TypeOK /\ Form!OneSubmission /\ Form!ImageMatchesName /\ Form!PostedImageExists
         /\ Form!DuplicatesAreExplained /\ Form!SavedOnce /\ Form!DeadButtonIsExplained
<1>1. Form!ImageMatchesName /\ Form!PostedImageExists
  BY DEF FormInv, ImagesFit, OwnImage, Posting, Form!ImageMatchesName, Form!PostedImageExists
<1>2. Form!DuplicatesAreExplained
  <2>1. ASSUME NEW p \in Form!Offline PROVE \E t \in SaveCall : saving[t] # "no" /\ Target(t) = p
    BY DEF Form!Offline, Form!Rows, Target
  <2>2. QED
    BY <2>1 DEF FormInv, Form!TypeOK, SentOnce, Fresh, Form!DuplicatesAreExplained
<1>3. Form!DeadButtonIsExplained
  BY DEF FormInv, DeadForm, Form!DeadButtonIsExplained, Form!Ready, Form!Visible
<1>4. Form!SavedOnce
  BY DEF FormInv, SavesFit, Target, Form!SavedOnce, Form!Rows
<1>5. QED
  BY <1>1, <1>2, <1>3, <1>4 DEF FormInv

-----------------------------------------------------------------------------
(* The queue and the form together *)

\* A behaviour of both is one of the queue.
LEMMA PartIsQueue == PartSpec => Spec
<1>1. PartInit => Init
  BY DEF PartInit
<1>2. [PartNext]_<<part, vars, formVars>> => [Next]_vars
  BY DEF PartNext
<1>3. QED
  BY <1>1, <1>2, PTL DEF PartSpec, Spec

\* The invariant of the form holds in every behaviour.
LEMMA FormInvAlways == PartSpec => []FormInv
<1>1. PartInit => FormInv
  BY FormInvInit DEF PartInit
<1>2. FormInv /\ [PartNext]_<<part, vars, formVars>> => FormInv'
  <2>1. [PartNext]_<<part, vars, formVars>> => [Form!Next]_formVars
    BY DEF PartNext
  <2>2. QED
    BY <2>1, FormInvStep
<1>3. QED
  BY <1>1, <1>2, PTL DEF PartSpec

\* Rows have keys of their own, and the list of complaints shows only what the server created (OfflineComplainListDataAdapter).
THEOREM RecordsStayConsistent == PartSpec => []RecordsConsistent
<1>1. UniqueIds /\ HistoryIsBacked => RecordsConsistent
  BY DEF RecordsConsistent
<1>2. QED
  BY <1>1, PartIsQueue, UniqueIdsHolds, HistoryIsBackedHolds, PTL

\* An open form has one submission at most, and posts the photo it names, whatever the interleaving of camera, crop, dialogs, callbacks
\* and deaths of the process (InputActivity2).
THEOREM FormPostsItsPhotoHolds == PartSpec => []FormPostsItsPhoto
<1>1. FormInv => FormPostsItsPhoto
  BY FormInvImplies DEF FormPostsItsPhoto
<1>2. QED
  BY <1>1, FormInvAlways, PTL

\* The named causes are the only ones by which the form sends a complaint twice or is left with a dead button (InputActivity2).
THEOREM FormIsExplainedHolds == PartSpec => []FormIsExplained
<1>1. FormInv => FormIsExplained
  BY FormInvImplies DEF FormIsExplained
<1>2. QED
  BY <1>1, FormInvAlways, PTL

\* No saved complaint is lost while the form runs or does not.
THEOREM NothingIsLost == PartSpec => []NeverLost
BY PartIsQueue, NeverLostHolds, PTL
=============================================================================
