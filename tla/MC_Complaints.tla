----------------------------- MODULE MC_Complaints -----------------------------
(* The two ways of a complaint to the server: the queue of complaints saved   *)
(* offline and the form.  What the form saves enters the queue by SaveOffline *)
(* of OfflineQueue; beyond that they share no state, so that one of them runs *)
(* per behaviour and the other stays in its initial state.                    *)
EXTENDS OfflineQueue, TLC

CONSTANTS Photo, NoPhoto, Submission, SaveCall

VARIABLES part,
  form, away, camera, photo, grievance, clickable, dialog, step, name, image, mine,
  saving, kept, saves, used, files, copied, created, explained, retaken, aborted, unanswered, resaved

formVars ==
  <<form, away, camera, photo, grievance, clickable, dialog, step, name, image, mine,
    saving, kept, saves, used, files, copied, created, explained, retaken, aborted, unanswered, resaved>>

Form == INSTANCE ComplaintInput
          WITH Call <- Submission, stage <- step, history <- copied, accepted <- created, excused <- explained

ASSUME FormAssumption == Form!NoPhotoAssumption /\ Form!MaxAcceptedAssumption

PartInit == part \in {"queue", "form"} /\ Init /\ Form!Init

PartNext ==
  /\ UNCHANGED part
  /\ \/ part = "queue" /\ Next /\ UNCHANGED formVars
     \/ part = "form" /\ Form!Next /\ UNCHANGED vars

PartSpec == PartInit /\ [][PartNext]_<<part, vars, formVars>>

\* The fairness of OfflineQueue and of ComplaintInput.
PartFairSpec ==
  /\ PartSpec
  /\ \A k \in Call : WF_vars(part = "queue" /\ Callback(k))
  /\ WF_vars(part = "queue" /\ OnChange /\ itemsList # Queued)
  /\ \A k \in Submission : WF_formVars(part = "form" /\ Form!Callback(k))
  /\ \A s \in SaveCall : WF_formVars(part = "form" /\ Form!SaveCommit(s)) /\ WF_formVars(part = "form" /\ Form!SaveSuccess(s))

MCSymmetry ==
  Permutations(Complaint) \cup Permutations(Photo) \cup Permutations(Submission) \cup Permutations(SaveCall)

\* The form has at most two saves and submissions in progress, whatever it did before.
MCBound == Cardinality({s \in SaveCall : saving[s] \in {"queued", "done"}}) + Cardinality({k \in Submission : step[k] # "idle"}) <= 2

-----------------------------------------------------------------------------
(* Properties *)

\* Rows have keys of their own, and the list of complaints shows only what the server created.
RecordsConsistent == UniqueIds /\ HistoryIsBacked

\* An open form has one submission at most, and posts the photo it names, unless that was retaken or its crop aborted.
FormPostsItsPhoto ==
  part = "form" =>
    Form!TypeOK /\ Form!OneSubmission /\ Form!ImageMatchesName /\ Form!PostedImageExists

\* A complaint sent or saved twice by the form and a form whose button is dead have one of the named causes.
FormIsExplained ==
  part = "form" => Form!DuplicatesAreExplained /\ Form!SavedOnce /\ Form!DeadButtonIsExplained

\* Accepted complaints leave the queue and deleted cards the screen; submissions and saves of the form end.
ComplaintsGoOn ==
  /\ AcceptedLeavesQueue
  /\ DeletedCardsDisappear
  /\ Form!SubmissionEnds
  /\ Form!SaveEnds
=============================================================================
