----------------------------- MODULE ImageUpload -----------------------------
(***************************************************************************)
(* Input/ImageUpload.java: the photo of a complaint is uploaded beside the *)
(* complaint itself. The file to upload and the number of refused tries    *)
(* are static fields, shared by every upload of the process: a constructor *)
(* overwrites the file, a refusal uploads whatever file is current, and    *)
(* after MaxTries refusals nothing is uploaded any more.                   *)
(***************************************************************************)
EXTENDS Integers, FiniteSets

CONSTANTS
  File,       \* the photos of the complaints
  NoFile,
  Call,       \* bound: uploads that can be in progress at once
  MaxTries    \* 5 in the code

ASSUME NoFileAssumption == NoFile \notin File
ASSUME CallAssumption == IsFiniteSet(Call)
ASSUME MaxTriesAssumption == MaxTries \in Nat

VARIABLES
  filePath, uploadingTries,   \* the static fields
  upload,                     \* per call: the file it carries, or NoFile
  answer,                     \* per call: "none" yet, "stored" or "refused"
  received,                   \* the files the server has
  asked, excused              \* history variables: files whose complaint was
                              \* posted; files an event may have kept back

calls == <<upload, answer>>
vars == <<filePath, uploadingTries, calls, received, asked, excused>>

Answer == {"none", "stored", "refused"}

TypeOK ==
  /\ filePath \in File \cup {NoFile}
  /\ uploadingTries \in Nat
  /\ upload \in [Call -> File \cup {NoFile}]
  /\ answer \in [Call -> Answer]
  /\ received \in SUBSET File
  /\ asked \in SUBSET File
  /\ excused \in SUBSET File

Init ==
  /\ filePath = NoFile
  /\ uploadingTries = 0
  /\ upload = [k \in Call |-> NoFile]
  /\ answer = [k \in Call |-> "none"]
  /\ received = {}
  /\ asked = {}
  /\ excused = {}

-----------------------------------------------------------------------------
Busy == {k \in Call : upload[k] # NoFile}

InFlight(f) == \E k \in Call : upload[k] = f

\* mutant: the limit is not looked at
UploadImageAlways(k, n, f) == upload' = [upload EXCEPT ![k] = f]

\* mutant: the comparison is >= instead of >
UploadImageEarly(k, n, f) ==
  upload' = [upload EXCEPT ![k] = IF n >= MaxTries THEN NoFile ELSE f]

\* uploadImage called with uploadingTries at n and the static path at f: beyond
\* the limit it returns, else it starts an upload in the idle call k.
UploadImage(k, n, f) ==
  upload' = [upload EXCEPT ![k] = IF n > MaxTries THEN NoFile ELSE f]

\* new ImageUpload(...); uploadImage(), in the handler that posts the
\* complaint: every upload under way loses its path.
Start(k, f) ==
  /\ upload[k] = NoFile
  /\ filePath' = f
  /\ UploadImage(k, uploadingTries, f)
  /\ asked' = asked \cup {f}
  /\ excused' = excused \cup {g \in File : g # f /\ InFlight(g)}
                        \cup (IF uploadingTries > MaxTries THEN {f} ELSE {})
  /\ UNCHANGED <<uploadingTries, answer, received>>

ServerStores(k) ==
  /\ upload[k] # NoFile
  /\ answer[k] = "none"
  /\ received' = received \cup {upload[k]}
  /\ answer' = [answer EXCEPT ![k] = "stored"]
  /\ UNCHANGED <<filePath, uploadingTries, upload, asked, excused>>

ServerRefuses(k) ==
  /\ upload[k] # NoFile
  /\ answer[k] = "none"
  /\ answer' = [answer EXCEPT ![k] = "refused"]
  /\ UNCHANGED <<filePath, uploadingTries, upload, received, asked, excused>>

ReplyStored(k) ==
  /\ answer[k] = "stored"
  /\ upload' = [upload EXCEPT ![k] = NoFile]
  /\ answer' = [answer EXCEPT ![k] = "none"]
  /\ UNCHANGED <<filePath, uploadingTries, received, asked, excused>>

\* mutant: the tries are counted down, from 0
CountDown == uploadingTries' = uploadingTries - 1

\* mutant: refusals are not counted
ForgetTry == uploadingTries' = uploadingTries

CountTry == uploadingTries' = uploadingTries + 1

\* success = false: count the try and upload the current file.
ReplyRefused(k) ==
  /\ answer[k] = "refused"
  /\ CountTry
  /\ UploadImage(k, uploadingTries + 1, filePath)
  /\ answer' = [answer EXCEPT ![k] = "none"]
  /\ excused' = IF uploadingTries + 1 > MaxTries
                THEN excused \cup {upload[k]} ELSE excused
  /\ UNCHANGED <<filePath, received, asked>>

\* A timeout, a lost connection, an unreadable file or an HTTP error: there is
\* no retry. The server may have stored the file all the same.
Failure(k) ==
  /\ upload[k] # NoFile
  /\ \/ received' = received
     \/ answer[k] = "none" /\ received' = received \cup {upload[k]}
  /\ excused' = excused \cup {upload[k]}
  /\ upload' = [upload EXCEPT ![k] = NoFile]
  /\ answer' = [answer EXCEPT ![k] = "none"]
  /\ UNCHANGED <<filePath, uploadingTries, asked>>

\* A new process starts with fresh static fields and no calls.
ProcessDies ==
  /\ filePath' = NoFile
  /\ uploadingTries' = 0
  /\ upload' = [k \in Call |-> NoFile]
  /\ answer' = [k \in Call |-> "none"]
  /\ excused' = excused \cup {f \in File : InFlight(f)}
  /\ UNCHANGED <<received, asked>>

-----------------------------------------------------------------------------
Server(k) == ServerStores(k) \/ ServerRefuses(k)

Callback(k) == ReplyStored(k) \/ ReplyRefused(k) \/ Failure(k)

Next ==
  \/ \E k \in Call, f \in File : Start(k, f)
  \/ \E k \in Call : Server(k) \/ Callback(k)
  \/ ProcessDies

Spec == Init /\ [][Next]_vars

\* OkHttp ends every call, with an answer or a timeout.
FairSpec == Spec /\ \A k \in Call : WF_vars(Callback(k))

-----------------------------------------------------------------------------
(* Properties. *)

\* Uploads that run together share the counter, so it can pass the limit, but
\* only by the uploads that were in flight when the limit was reached: no
\* refusal ever adds an upload.
TriesBounded ==
  uploadingTries + Cardinality(Busy) <= MaxTries + Cardinality(Call)

\* The photo of a posted complaint is at the server or on its way, unless its
\* upload failed, the tries were used up, the process died, or another
\* complaint overwrote the static path while it was on its way.
UnsentIsExplained ==
  \A f \in asked : f \in received \/ InFlight(f) \/ f \in excused

\* Refusals alone never keep an upload busy for ever: the photo arrives, or one
\* of these events is the reason why it does not.
PhotoArrives ==
  \A f \in File : (f \in asked) ~> (f \in received \/ f \in excused)
=============================================================================
