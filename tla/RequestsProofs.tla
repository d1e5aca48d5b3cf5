---- MODULE RequestsProofs ----
(***************************************************************************)
(* Theorems about the requests the application starts itself.  ImageUpload *)
(* for any photos, limit and finite number of uploads in progress at once: *)
(* types, the bound on the refused tries, and the causes of a photo that   *)
(* never reaches the server.  The login for any numbers and requests: the  *)
(* token is that of the number, and crashes, wrong screens and dead forms  *)
(* have the named causes.                                                  *)
(***************************************************************************)
EXTENDS MC_Requests, FiniteSetTheorems, TLAPS

\* Only an upload in progress is answered.
AnswersCarryFile == \A k \in Call : answer[k] # "none" => upload[k] # NoFile

\* The server has what it says it stored.
StoredIsReceived == \A k \in Call : answer[k] = "stored" => upload[k] \in received

\* The static path is that of an upload in progress, or another complaint has
\* overwritten it: a retry sends the right file or the wrong one is excused.
PathIsOwnOrExcused ==
  \A k \in Call :
    upload[k] # NoFile => upload[k] = filePath \/ upload[k] \in excused

\* The inductive invariant of the uploads.
UploadInv ==
  /\ TypeOK
  /\ AnswersCarryFile
  /\ StoredIsReceived
  /\ PathIsOwnOrExcused
  /\ UnsentIsExplained

\* Every variable keeps its type. In particular only files, never the absent
\* path, are excused, which needs the answers to belong to uploads.
LEMMA TypeStep ==
  ASSUME TypeOK, AnswersCarryFile, [Next]_vars
  PROVE  TypeOK' /\ AnswersCarryFile'
<1> USE NoFileAssumption DEF TypeOK, AnswersCarryFile, Answer
<1>1. ASSUME NEW k \in Call, NEW f \in File, Start(k, f)
      PROVE  TypeOK' /\ AnswersCarryFile'
  <2>1. /\ filePath' \in File \cup {NoFile}
        /\ upload' \in [Call -> File \cup {NoFile}]
        /\ asked' \in SUBSET File
    BY <1>1 DEF Start, UploadImage
  <2>2. excused' \in SUBSET File
    BY <1>1 DEF Start
  <2>3. \A j \in Call : answer[j] # "none" => upload'[j] # NoFile
    BY <1>1 DEF Start, UploadImage
  <2>4. QED
    BY <1>1, <2>1, <2>2, <2>3 DEF Start
<1>2. ASSUME NEW k \in Call, ServerStores(k) PROVE TypeOK' /\ AnswersCarryFile'
  BY <1>2 DEF ServerStores
<1>3. ASSUME NEW k \in Call, ServerRefuses(k) PROVE TypeOK' /\ AnswersCarryFile'
  BY <1>3 DEF ServerRefuses
<1>4. ASSUME NEW k \in Call, ReplyStored(k) PROVE TypeOK' /\ AnswersCarryFile'
  BY <1>4 DEF ReplyStored
<1>5. ASSUME NEW k \in Call, Failure(k) PROVE TypeOK' /\ AnswersCarryFile'
  BY <1>5 DEF Failure
<1>6. ASSUME NEW k \in Call, ReplyRefused(k) PROVE TypeOK' /\ AnswersCarryFile'
  BY <1>6 DEF ReplyRefused, CountTry, UploadImage
<1>7. ASSUME ProcessDies PROVE TypeOK' /\ AnswersCarryFile'
  BY <1>7 DEF ProcessDies
<1>8. ASSUME UNCHANGED vars PROVE TypeOK' /\ AnswersCarryFile'
  BY <1>8 DEF vars, calls
<1>9. QED
  BY <1>1, <1>2, <1>3, <1>4, <1>5, <1>6, <1>7, <1>8 DEF Next, Server, Callback

\* The invariant is inductive: whatever ends an upload has the file at the
\* server or in excused.
LEMMA UploadInvStep ==
  ASSUME UploadInv, [Next]_vars
  PROVE  UploadInv'
<1>1. TypeOK' /\ AnswersCarryFile'
  BY TypeStep DEF UploadInv
<1>2. StoredIsReceived' /\ PathIsOwnOrExcused' /\ UnsentIsExplained'
  <2> USE NoFileAssumption
      DEF UploadInv, TypeOK, Answer, AnswersCarryFile, StoredIsReceived,
          PathIsOwnOrExcused, UnsentIsExplained, InFlight
  <2>1. ASSUME NEW k \in Call, NEW f \in File, Start(k, f)
        PROVE  StoredIsReceived' /\ PathIsOwnOrExcused' /\ UnsentIsExplained'
    <3> USE <2>1 DEF Start, UploadImage
    <3>1. StoredIsReceived'
      OBVIOUS
    <3>2. PathIsOwnOrExcused'
      OBVIOUS
    <3>3. UnsentIsExplained'
      <4> SUFFICES ASSUME NEW g \in asked', g \notin received', g \notin excused'
                   PROVE  \E j \in Call : upload'[j] = g
        OBVIOUS
      <4>1. CASE g = f
        BY <4>1
      <4>2. CASE g # f
        BY <4>2
      <4>3. QED
        BY <4>1, <4>2
    <3>4. QED
      BY <3>1, <3>2, <3>3
  <2>2. ASSUME NEW k \in Call, ServerStores(k)
        PROVE  StoredIsReceived' /\ PathIsOwnOrExcused' /\ UnsentIsExplained'
    BY <2>2 DEF ServerStores
  <2>3. ASSUME NEW k \in Call, ServerRefuses(k)
        PROVE  StoredIsReceived' /\ PathIsOwnOrExcused' /\ UnsentIsExplained'
    BY <2>3 DEF ServerRefuses
  <2>4. ASSUME NEW k \in Call, ReplyStored(k)
        PROVE  StoredIsReceived' /\ PathIsOwnOrExcused' /\ UnsentIsExplained'
    BY <2>4 DEF ReplyStored
  <2>5. ASSUME NEW k \in Call, Failure(k)
        PROVE  StoredIsReceived' /\ PathIsOwnOrExcused' /\ UnsentIsExplained'
    BY <2>5 DEF Failure
  <2>6. ASSUME NEW k \in Call, ReplyRefused(k)
        PROVE  StoredIsReceived' /\ PathIsOwnOrExcused' /\ UnsentIsExplained'
    <3> USE <2>6 DEF ReplyRefused, CountTry, UploadImage
    <3>1. StoredIsReceived'
      OBVIOUS
    <3>2. PathIsOwnOrExcused'
      OBVIOUS
    <3>3. UnsentIsExplained'
      OBVIOUS
    <3>4. QED
      BY <3>1, <3>2, <3>3
  <2>7. ASSUME ProcessDies
        PROVE  StoredIsReceived' /\ PathIsOwnOrExcused' /\ UnsentIsExplained'
    BY <2>7 DEF ProcessDies
  <2>8. ASSUME UNCHANGED vars
        PROVE  StoredIsReceived' /\ PathIsOwnOrExcused' /\ UnsentIsExplained'
    BY <2>8 DEF vars, calls
  <2>9. QED
    BY <2>1, <2>2, <2>3, <2>4, <2>5, <2>6, <2>7, <2>8
    DEF UploadInv, Next, Server, Callback
<1>3. QED
  BY <1>1, <1>2 DEF UploadInv

\* Every reachable state satisfies the inductive invariant of the uploads.
THEOREM UploadInvariant == Spec => []UploadInv
<1>1. Init => UploadInv
  BY NoFileAssumption
  DEF Init, UploadInv, TypeOK, Answer, AnswersCarryFile, StoredIsReceived,
      PathIsOwnOrExcused, UnsentIsExplained
<1>2. UploadInv /\ [Next]_vars => UploadInv'
  BY UploadInvStep
<1>3. QED
  BY <1>1, <1>2, PTL DEF Spec

\* Every variable keeps its type: the static counter never is below zero.
THEOREM TypeCorrect == Spec => []TypeOK
<1>1. UploadInv => TypeOK
  BY DEF UploadInv
<1>2. QED
  BY <1>1, UploadInvariant, PTL

\* A photo whose complaint was posted is at the server, on its way, or lost by
\* one of the named events.
THEOREM UnsentIsExplainedHolds == Spec => []UnsentIsExplained
<1>1. UploadInv => UnsentIsExplained
  BY DEF UploadInv
<1>2. QED
  BY <1>1, UploadInvariant, PTL

\* Ending an upload, or moving none, never raises the count of busy calls.
LEMMA BusyBound ==
  /\ Busy \subseteq Call
  /\ IsFiniteSet(Busy)
  /\ Cardinality(Busy) \in Nat
  /\ Cardinality(Call) \in Nat
  /\ Cardinality(Busy) <= Cardinality(Call)
  /\ IsFiniteSet(Busy')
  /\ Cardinality(Busy') \in Nat
  /\ Cardinality(Busy') <= Cardinality(Call)
<1>1. Busy \subseteq Call /\ Busy' \subseteq Call
  BY DEF Busy
<1>2. QED
  BY <1>1, CallAssumption, FS_Subset, FS_CardinalityType

\* The refused tries pass the limit by no more than the uploads that were in
\* progress when it was reached.
THEOREM TriesBoundedHolds == Spec => []TriesBounded
<1>1. Init => TriesBounded
  <2> SUFFICES ASSUME Init PROVE TriesBounded
    OBVIOUS
  <2>1. uploadingTries = 0
    BY DEF Init
  <2>2. QED
    BY <2>1, BusyBound, MaxTriesAssumption DEF TriesBounded
<1>2. UploadInv /\ TriesBounded /\ [Next]_vars => TriesBounded'
  <2> SUFFICES ASSUME UploadInv, TriesBounded, [Next]_vars PROVE TriesBounded'
    OBVIOUS
  <2>1. uploadingTries \in Nat /\ upload \in [Call -> File \cup {NoFile}]
    BY DEF UploadInv, TypeOK
  <2>2. ASSUME uploadingTries' = uploadingTries, Busy' \subseteq Busy
        PROVE  TriesBounded'
    <3>1. Cardinality(Busy') <= Cardinality(Busy)
      BY <2>2, BusyBound, FS_Subset
    <3>2. QED
      BY <2>1, <2>2, <3>1, BusyBound, MaxTriesAssumption DEF TriesBounded
  <2>3. ASSUME NEW k \in Call, NEW f \in File, Start(k, f) PROVE TriesBounded'
    <3>1. CASE uploadingTries > MaxTries
      BY <2>1, <2>2, <2>3, <3>1 DEF Start, UploadImage, Busy
    <3>2. CASE ~(uploadingTries > MaxTries)
      <4>1. uploadingTries' = uploadingTries
        BY <2>3 DEF Start
      <4>2. QED
        BY <2>1, <3>2, <4>1, BusyBound, MaxTriesAssumption DEF TriesBounded
    <3>3. QED
      BY <3>1, <3>2
  <2>4. ASSUME NEW k \in Call, ServerStores(k) \/ ServerRefuses(k)
        PROVE  TriesBounded'
    BY <2>2, <2>4 DEF ServerStores, ServerRefuses, Busy
  <2>5. ASSUME NEW k \in Call, ReplyStored(k) \/ Failure(k) PROVE TriesBounded'
    BY <2>1, <2>2, <2>5 DEF ReplyStored, Failure, Busy
  <2>6. ASSUME NEW k \in Call, ReplyRefused(k) PROVE TriesBounded'
    <3>1. uploadingTries' = uploadingTries + 1
      BY <2>6 DEF ReplyRefused, CountTry
    <3>2. CASE uploadingTries + 1 > MaxTries
      <4>1. k \in Busy
        BY <2>6 DEF ReplyRefused, UploadInv, AnswersCarryFile, Busy
      <4>2. Busy' = Busy \ {k}
        BY <2>1, <2>6, <3>2 DEF ReplyRefused, UploadImage, Busy
      <4>3. Cardinality(Busy') = Cardinality(Busy) - 1
        BY <4>1, <4>2, BusyBound, FS_RemoveElement
      <4>4. QED
        BY <2>1, <3>1, <4>3, BusyBound, MaxTriesAssumption DEF TriesBounded
    <3>3. CASE ~(uploadingTries + 1 > MaxTries)
      BY <2>1, <3>1, <3>3, BusyBound, MaxTriesAssumption DEF TriesBounded
    <3>4. QED
      BY <3>2, <3>3
  <2>7. ASSUME ProcessDies PROVE TriesBounded'
    <3>1. uploadingTries' = 0
      BY <2>7 DEF ProcessDies
    <3>2. QED
      BY <3>1, BusyBound, MaxTriesAssumption DEF TriesBounded
  <2>8. ASSUME UNCHANGED vars PROVE TriesBounded'
    BY <2>2, <2>8 DEF vars, calls, Busy
  <2>9. QED
    BY <2>3, <2>4, <2>5, <2>6, <2>7, <2>8 DEF Next, Server, Callback
<1>3. QED
  BY <1>1, <1>2, UploadInvariant, PTL DEF Spec

-----------------------------------------------------------------------------
(* The login *)

\* The fragments of a login that was accepted.
Shown == {"otp", "register"}

\* The numbers the fragments work with are there.
NumbersKnown ==
  /\ state = "otp" \/ screen = "otp" => phone \in Phone
  /\ screen = "register" => token \in Phone
  /\ \A k \in Auth!Busy : about[k] \in Phone

\* A request in progress is about the fragment on the screen, unless the fragment was replaced or the user left it.
RequestsOfScreen ==
  /\ \A k \in Auth!Mine : screen = Auth!FragmentOf(kind[k])
  /\ \A k \in Auth!Busy :
       /\ at[k] = "replaced" => left \/ overlapped
       /\ at[k] = "destroyed" => left
  /\ (\E k \in Auth!Mine : enabled \/ \E j \in Auth!Mine : j # k) => left \/ overlapped

\* As long as nobody left a screen during a request, what is on its way is about the stored number.
NumbersAgree ==
  /\ screen = "register" => state \in {"register", "home"}
  /\ state \in {"register", "home"} => token = phone
  /\ \A k \in Auth!Busy :
       \/ kind[k] = "login" /\ screen = "login" /\ ~enabled /\ Auth!Busy = {k}
       \/ kind[k] \in {"otp", "resend"} /\ screen \in Shown /\ about[k] = phone
       \/ kind[k] = "register" /\ screen = "register" /\ about[k] = phone

\* A form that is dead without a request of its own got no answer.
DeadForm == screen # "none" /\ ~enabled /\ Auth!Mine = {} => unanswered

\* The inductive invariant of the login.
AuthInv ==
  /\ Auth!TypeOK /\ NumbersKnown /\ RequestsOfScreen /\ (~left => NumbersAgree)
  /\ Auth!CrashIsExplained /\ Auth!ScreenMatchesState /\ DeadForm

\* The types in groups.
RequestsTyped ==
  /\ kind \in [Call -> {"idle", "login", "resend", "otp", "register"}]
  /\ about \in [Call -> Phone \cup {NoPhone}]
  /\ at \in [Call -> {"shown", "replaced", "destroyed"}]

PrefsTyped ==
  /\ state \in Auth!Fragment \cup {"home"}
  /\ phone \in Phone \cup {NoPhone}
  /\ token \in Phone \cup {NoPhone}
  /\ state \in {"register", "home"} => token \in Phone

FlagsTyped ==
  /\ home \in BOOLEAN /\ away \in BOOLEAN /\ enabled \in BOOLEAN /\ resend \in BOOLEAN
  /\ left \in BOOLEAN /\ overlapped \in BOOLEAN /\ unanswered \in BOOLEAN /\ crashed \in BOOLEAN

\* The launch of the application keeps the invariant of the login.
LEMMA LaunchKeeps ==
  ASSUME AuthInv, Auth!Launch
  PROVE  AuthInv'
<1>1. RequestsTyped'
  BY DEF Auth!Launch, Auth!Create, Auth!Show, RequestsTyped, AuthInv, Auth!TypeOK, Auth!Fragment,
     Auth!calls, Auth!Busy
<1>2. PrefsTyped'
  BY DEF Auth!Launch, Auth!Create, Auth!Show, PrefsTyped, AuthInv, Auth!TypeOK, Auth!Fragment, Auth!prefs,
     Auth!Busy
<1>3. FlagsTyped'
  BY DEF Auth!Launch, Auth!Create, Auth!Show, FlagsTyped, AuthInv, Auth!TypeOK, Auth!Fragment
<1>4. Auth!TypeOK'
  BY <1>1, <1>2, <1>3 DEF Auth!Launch, Auth!Create, Auth!Show, FlagsTyped, AuthInv, Auth!TypeOK,
     Auth!Fragment, Auth!prefs, Auth!calls
<1>5. NumbersKnown'
  BY DEF Auth!Launch, Auth!Create, Auth!Show, NumbersKnown, AuthInv, Auth!TypeOK, Auth!Fragment, Auth!prefs,
     Auth!calls, Auth!Busy
<1>6. RequestsOfScreen'
  BY DEF Auth!Launch, Auth!Create, Auth!Show, RequestsOfScreen, Auth!FragmentOf, AuthInv, Auth!TypeOK,
     Auth!Fragment, Auth!calls, Auth!Busy, Auth!Mine
<1>7. (~left => NumbersAgree)'
  BY DEF Auth!Launch, Auth!Create, Auth!Show, NumbersAgree, Shown, Auth!FragmentOf, AuthInv,
     Auth!Fragment, Auth!prefs, Auth!calls, Auth!Busy, Auth!Mine
<1>8. Auth!CrashIsExplained' /\ Auth!ScreenMatchesState' /\ DeadForm'
  BY DEF Auth!Launch, Auth!Create, Auth!Show, Auth!CrashIsExplained, Auth!ScreenMatchesState, DeadForm,
     AuthInv, Auth!Fragment, Auth!prefs, Auth!Busy, Auth!Mine
<1>9. QED
  BY <1>1, <1>2, <1>3, <1>4, <1>5, <1>6, <1>7, <1>8 DEF AuthInv

\* A rotation of the screen keeps the invariant of the login.
LEMMA RotateKeeps ==
  ASSUME AuthInv, Auth!Rotate
  PROVE  AuthInv'
<1>1. RequestsTyped'
  BY DEF Auth!Rotate, Auth!Create, Auth!Show, Auth!Destroy, Auth!Leave, RequestsTyped, AuthInv, Auth!TypeOK,
     Auth!Fragment, Auth!Busy
<1>2. PrefsTyped'
  BY DEF Auth!Rotate, Auth!Create, Auth!Show, Auth!Destroy, Auth!Leave, PrefsTyped, AuthInv, Auth!TypeOK,
     Auth!Fragment, Auth!prefs, Auth!Busy
<1>3. FlagsTyped'
  BY DEF Auth!Rotate, Auth!Create, Auth!Show, Auth!Destroy, Auth!Leave, FlagsTyped, AuthInv, Auth!TypeOK,
     Auth!Fragment, Auth!Busy
<1>4. Auth!TypeOK'
  BY <1>1, <1>2, <1>3 DEF Auth!Rotate, Auth!Create, Auth!Show, Auth!Destroy, Auth!Leave, FlagsTyped,
     AuthInv, Auth!TypeOK, Auth!Fragment, Auth!prefs, Auth!Busy
<1>5. NumbersKnown'
  BY DEF Auth!Rotate, Auth!Create, Auth!Show, Auth!Destroy, Auth!Leave, NumbersKnown, AuthInv, Auth!TypeOK,
     Auth!Fragment, Auth!prefs, Auth!Busy
<1>6. RequestsOfScreen'
  BY DEF Auth!Rotate, Auth!Create, Auth!Show, Auth!Destroy, Auth!Leave, RequestsOfScreen, Auth!FragmentOf,
     Auth!Fragment, Auth!Busy, Auth!Mine
<1>7. (~left => NumbersAgree)'
  BY DEF Auth!Rotate, Auth!Create, Auth!Show, Auth!Destroy, Auth!Leave, NumbersAgree, Auth!FragmentOf,
     AuthInv, Auth!Fragment, Auth!prefs, Auth!Busy, Auth!Mine
<1>8. Auth!CrashIsExplained' /\ Auth!ScreenMatchesState' /\ DeadForm'
  BY DEF Auth!Rotate, Auth!Create, Auth!Show, Auth!Destroy, Auth!Leave, Auth!CrashIsExplained,
     Auth!ScreenMatchesState, DeadForm, AuthInv, Auth!Fragment, Auth!prefs, Auth!Busy, Auth!Mine
<1>9. QED
  BY <1>1, <1>2, <1>3, <1>4, <1>5, <1>6, <1>7, <1>8 DEF AuthInv

\* Leaving by the back button keeps the invariant of the login.
LEMMA BackTwiceKeeps ==
  ASSUME AuthInv, Auth!BackTwice
  PROVE  AuthInv'
<1>1. Auth!TypeOK'
  BY DEF Auth!BackTwice, Auth!Show, Auth!Destroy, Auth!Leave, AuthInv, Auth!TypeOK, Auth!Fragment, Auth!prefs,
     Auth!Busy
<1>2. NumbersKnown'
  BY DEF Auth!BackTwice, Auth!Show, Auth!Destroy, Auth!Leave, NumbersKnown, AuthInv, Auth!Fragment,
     Auth!prefs, Auth!Busy
<1>3. RequestsOfScreen'
  BY DEF Auth!BackTwice, Auth!Show, Auth!Destroy, Auth!Leave, RequestsOfScreen, Auth!FragmentOf,
     Auth!Fragment, Auth!Busy, Auth!Mine
<1>4. (~left => NumbersAgree)'
  BY DEF Auth!BackTwice, Auth!Show, Auth!Destroy, Auth!Leave, NumbersAgree, Auth!FragmentOf, AuthInv,
     Auth!Fragment, Auth!prefs, Auth!Busy, Auth!Mine
<1>5. Auth!CrashIsExplained' /\ Auth!ScreenMatchesState' /\ DeadForm'
  BY DEF Auth!BackTwice, Auth!Show, Auth!Destroy, Auth!Leave, Auth!CrashIsExplained,
     Auth!ScreenMatchesState, DeadForm, AuthInv, Auth!Fragment, Auth!Busy, Auth!Mine
<1>6. QED
  BY <1>1, <1>2, <1>3, <1>4, <1>5 DEF AuthInv

\* Leaving for another application and coming back keeps the invariant of the login.
LEMMA GoAwayKeeps ==
  ASSUME AuthInv, Auth!GoAway
  PROVE  AuthInv'
<1>1. Auth!TypeOK'
  BY DEF Auth!GoAway, AuthInv, Auth!TypeOK, Auth!Fragment, Auth!prefs, Auth!buttons, Auth!calls, Auth!ghosts,
     Auth!Busy
<1>2. NumbersKnown'
  BY DEF Auth!GoAway, NumbersKnown, AuthInv, Auth!Fragment, Auth!prefs, Auth!calls, Auth!Busy
<1>3. RequestsOfScreen'
  BY DEF Auth!GoAway, RequestsOfScreen, Auth!FragmentOf, AuthInv, Auth!Fragment, Auth!buttons,
     Auth!calls, Auth!ghosts, Auth!Busy, Auth!Mine
<1>4. (~left => NumbersAgree)'
  BY DEF Auth!GoAway, NumbersAgree, Auth!FragmentOf, AuthInv, Auth!Fragment, Auth!prefs, Auth!buttons,
     Auth!calls, Auth!ghosts, Auth!Busy, Auth!Mine
<1>5. Auth!CrashIsExplained' /\ Auth!ScreenMatchesState' /\ DeadForm'
  BY DEF Auth!GoAway, Auth!CrashIsExplained, Auth!ScreenMatchesState, DeadForm, AuthInv,
     Auth!Fragment, Auth!prefs, Auth!buttons, Auth!calls, Auth!ghosts, Auth!Busy, Auth!Mine
<1>6. QED
  BY <1>1, <1>2, <1>3, <1>4, <1>5 DEF AuthInv

\* Leaving the home screen keeps the invariant of the login.
LEMMA BackFromHomeKeeps ==
  ASSUME AuthInv, Auth!BackFromHome
  PROVE  AuthInv'
<1>1. RequestsTyped'
  BY DEF Auth!BackFromHome, RequestsTyped, AuthInv, Auth!TypeOK, Auth!Fragment, Auth!calls, Auth!Busy
<1>2. PrefsTyped'
  BY DEF Auth!BackFromHome, PrefsTyped, AuthInv, Auth!TypeOK, Auth!Fragment, Auth!prefs, Auth!Busy
<1>3. FlagsTyped'
  BY DEF Auth!BackFromHome, FlagsTyped, AuthInv, Auth!TypeOK, Auth!Fragment, Auth!buttons, Auth!ghosts
<1>4. Auth!TypeOK'
  BY <1>1, <1>2, <1>3 DEF Auth!BackFromHome, FlagsTyped, AuthInv, Auth!TypeOK, Auth!Fragment,
     Auth!prefs, Auth!buttons, Auth!calls
<1>5. NumbersKnown'
  BY DEF Auth!BackFromHome, NumbersKnown, AuthInv, Auth!Fragment, Auth!prefs, Auth!calls, Auth!Busy
<1>6. RequestsOfScreen'
  BY DEF Auth!BackFromHome, RequestsOfScreen, Auth!FragmentOf, AuthInv, Auth!Fragment,
     Auth!buttons, Auth!calls, Auth!ghosts, Auth!Busy, Auth!Mine
<1>7. (~left => NumbersAgree)'
  BY DEF Auth!BackFromHome, NumbersAgree, Auth!FragmentOf, AuthInv, Auth!Fragment, Auth!prefs,
     Auth!buttons, Auth!calls, Auth!ghosts, Auth!Busy, Auth!Mine
<1>8. Auth!CrashIsExplained' /\ Auth!ScreenMatchesState' /\ DeadForm'
  BY DEF Auth!BackFromHome, Auth!CrashIsExplained, Auth!ScreenMatchesState, DeadForm,
     AuthInv, Auth!Fragment, Auth!prefs, Auth!buttons, Auth!calls, Auth!ghosts, Auth!Busy, Auth!Mine
<1>9. QED
  BY <1>1, <1>2, <1>3, <1>4, <1>5, <1>6, <1>7, <1>8 DEF AuthInv

\* A logout keeps the invariant of the login.
LEMMA LogoutKeeps ==
  ASSUME AuthInv, Auth!Logout
  PROVE  AuthInv'
<1>1. Auth!TypeOK'
  BY DEF Auth!Logout, Auth!Show, Auth!Destroy, Auth!Leave, AuthInv, Auth!TypeOK, Auth!Fragment, Auth!Busy
<1>2. NumbersKnown'
  BY DEF Auth!Logout, Auth!Show, Auth!Destroy, Auth!Leave, NumbersKnown, AuthInv, Auth!Fragment, Auth!Busy
<1>3. RequestsOfScreen'
  BY DEF Auth!Logout, Auth!Show, Auth!Destroy, Auth!Leave, RequestsOfScreen, Auth!FragmentOf, Auth!Fragment,
     Auth!Busy, Auth!Mine
<1>4. (~left => NumbersAgree)'
  BY DEF Auth!Logout, Auth!Show, Auth!Destroy, Auth!Leave, NumbersAgree, Auth!FragmentOf, Auth!Fragment,
     Auth!Busy, Auth!Mine
<1>5. Auth!CrashIsExplained' /\ Auth!ScreenMatchesState' /\ DeadForm'
  BY DEF Auth!Logout, Auth!Show, Auth!Destroy, Auth!Leave, Auth!CrashIsExplained, Auth!ScreenMatchesState,
     DeadForm, AuthInv, Auth!Fragment, Auth!Busy, Auth!Mine
<1>6. QED
  BY <1>1, <1>2, <1>3, <1>4, <1>5 DEF AuthInv

\* The button that goes back to the number keeps the invariant of the login.
LEMMA EditPhoneKeeps ==
  ASSUME AuthInv, Auth!EditPhone
  PROVE  AuthInv'
<1>1. Auth!TypeOK'
  BY DEF Auth!EditPhone, Auth!Show, Auth!Replace, Auth!Leave, Auth!StateLogin, AuthInv, Auth!TypeOK,
     Auth!Fragment, Auth!Busy, Auth!Mine
<1>2. NumbersKnown'
  BY DEF Auth!EditPhone, Auth!Show, Auth!Replace, Auth!Leave, Auth!StateLogin, NumbersKnown, AuthInv,
     Auth!Fragment, Auth!Busy, Auth!Mine
<1>3. RequestsOfScreen'
  BY DEF Auth!EditPhone, Auth!Show, Auth!Replace, Auth!Leave, Auth!StateLogin, RequestsOfScreen,
     Auth!FragmentOf, Auth!Fragment, Auth!Busy, Auth!Mine
<1>4. (~left => NumbersAgree)'
  BY DEF Auth!EditPhone, Auth!Show, Auth!Replace, Auth!Leave, Auth!StateLogin, NumbersAgree,
     Auth!FragmentOf, Auth!Fragment, Auth!Busy, Auth!Mine
<1>5. Auth!CrashIsExplained' /\ Auth!ScreenMatchesState' /\ DeadForm'
  BY DEF Auth!EditPhone, Auth!Show, Auth!Replace, Auth!Leave, Auth!StateLogin, Auth!CrashIsExplained,
     Auth!ScreenMatchesState, DeadForm, AuthInv, Auth!Fragment, Auth!Busy, Auth!Mine
<1>6. QED
  BY <1>1, <1>2, <1>3, <1>4, <1>5 DEF AuthInv

\* A press of the login button keeps the invariant of the login.
LEMMA AttemptLoginKeeps ==
  ASSUME AuthInv, NEW k \in Call, NEW p \in Phone, Auth!AttemptLogin(k, p)
  PROVE  AuthInv'
<1>1. Auth!TypeOK'
  BY DEF Auth!AttemptLogin, Auth!Ask, Auth!DisableForm, AuthInv, Auth!TypeOK, Auth!Fragment, Auth!prefs,
     Auth!front, Auth!ghosts, Auth!Busy, Auth!InFront
<1>2. NumbersKnown'
  BY DEF Auth!AttemptLogin, Auth!Ask, Auth!DisableForm, NumbersKnown, AuthInv, Auth!TypeOK,
     Auth!Fragment, Auth!prefs, Auth!front, Auth!Busy
<1>3. RequestsOfScreen'
  BY DEF Auth!AttemptLogin, Auth!Ask, Auth!DisableForm, RequestsOfScreen, Auth!FragmentOf,
     AuthInv, Auth!TypeOK, Auth!Fragment, Auth!front, Auth!ghosts, Auth!Busy, Auth!Mine
<1>4. (~left => NumbersAgree)'
  BY DEF Auth!AttemptLogin, Auth!Ask, Auth!DisableForm, NumbersAgree, Shown, Auth!FragmentOf,
     AuthInv, Auth!Fragment, Auth!prefs, Auth!front, Auth!ghosts, Auth!Busy, Auth!Mine
<1>5. Auth!CrashIsExplained' /\ Auth!ScreenMatchesState' /\ DeadForm'
  BY DEF Auth!AttemptLogin, Auth!Ask, Auth!DisableForm, Auth!CrashIsExplained, Auth!ScreenMatchesState,
     DeadForm, AuthInv, Auth!TypeOK, Auth!Fragment, Auth!prefs, Auth!front, Auth!ghosts, Auth!Busy, Auth!Mine
<1>6. QED
  BY <1>1, <1>2, <1>3, <1>4, <1>5 DEF AuthInv

\* A press of the verify button keeps the invariant of the login.
LEMMA VerifyClickKeeps ==
  ASSUME AuthInv, NEW k \in Call, Auth!VerifyClick(k)
  PROVE  AuthInv'
<1>1. Auth!TypeOK'
  BY DEF Auth!VerifyClick, Auth!Ask, Auth!DisableForm, AuthInv, Auth!TypeOK, Auth!Fragment, Auth!prefs,
     Auth!front, Auth!ghosts, Auth!Busy, Auth!InFront
<1>2. NumbersKnown'
  BY DEF Auth!VerifyClick, Auth!Ask, Auth!DisableForm, NumbersKnown, AuthInv, Auth!TypeOK,
     Auth!Fragment, Auth!prefs, Auth!front, Auth!Busy
<1>3. RequestsOfScreen'
  BY DEF Auth!VerifyClick, Auth!Ask, Auth!DisableForm, RequestsOfScreen, Auth!FragmentOf, AuthInv,
     Auth!TypeOK, Auth!Fragment, Auth!front, Auth!ghosts, Auth!Busy, Auth!Mine
<1>4. (~left => NumbersAgree)'
  BY DEF Auth!VerifyClick, Auth!Ask, Auth!DisableForm, NumbersAgree, Shown, Auth!FragmentOf,
     AuthInv, Auth!TypeOK, Auth!Fragment, Auth!prefs, Auth!front, Auth!ghosts, Auth!Busy, Auth!Mine
<1>5. Auth!CrashIsExplained' /\ Auth!ScreenMatchesState' /\ DeadForm'
  BY DEF Auth!VerifyClick, Auth!Ask, Auth!DisableForm, Auth!CrashIsExplained, Auth!ScreenMatchesState,
     DeadForm, AuthInv, Auth!TypeOK, Auth!Fragment, Auth!prefs, Auth!front, Auth!ghosts, Auth!Busy, Auth!Mine
<1>6. QED
  BY <1>1, <1>2, <1>3, <1>4, <1>5 DEF AuthInv

\* An SMS that is read keeps the invariant of the login.
LEMMA SmsArrivesKeeps ==
  ASSUME AuthInv, NEW k \in Call, Auth!SmsArrives(k)
  PROVE  AuthInv'
<1>1. Auth!TypeOK'
  BY PhoneAssumption DEF Auth!SmsArrives, Auth!Ask, Auth!DisableForm, AuthInv, Auth!TypeOK,
     Auth!Fragment, Auth!prefs, Auth!front, Auth!Busy, Auth!Mine
<1>2. NumbersKnown'
  BY DEF Auth!SmsArrives, Auth!Ask, Auth!DisableForm, NumbersKnown, AuthInv, Auth!TypeOK,
     Auth!Fragment, Auth!prefs, Auth!front, Auth!Busy, Auth!Mine
<1>3. RequestsOfScreen'
  BY DEF Auth!SmsArrives, Auth!Ask, Auth!DisableForm, RequestsOfScreen, Auth!FragmentOf, AuthInv,
     Auth!TypeOK, Auth!Fragment, Auth!front, Auth!Busy, Auth!Mine
<1>4. (~left => NumbersAgree)'
  BY DEF Auth!SmsArrives, Auth!Ask, Auth!DisableForm, NumbersAgree, Shown, Auth!FragmentOf,
     AuthInv, Auth!TypeOK, Auth!Fragment, Auth!prefs, Auth!front, Auth!Busy, Auth!Mine
<1>5. Auth!CrashIsExplained' /\ Auth!ScreenMatchesState' /\ DeadForm'
  BY DEF Auth!SmsArrives, Auth!Ask, Auth!DisableForm, Auth!CrashIsExplained, Auth!ScreenMatchesState,
     DeadForm, AuthInv, Auth!TypeOK, Auth!Fragment, Auth!prefs, Auth!front, Auth!Busy, Auth!Mine
<1>6. QED
  BY <1>1, <1>2, <1>3, <1>4, <1>5 DEF AuthInv

\* A press of the resend button keeps the invariant of the login.
LEMMA ResendClickKeeps ==
  ASSUME AuthInv, NEW k \in Call, Auth!ResendClick(k)
  PROVE  AuthInv'
<1>1. Auth!TypeOK'
  BY DEF Auth!ResendClick, Auth!Ask, Auth!DisableForm, AuthInv, Auth!TypeOK, Auth!Fragment, Auth!prefs,
     Auth!front, Auth!Busy, Auth!Mine
<1>2. NumbersKnown'
  BY DEF Auth!ResendClick, Auth!Ask, Auth!DisableForm, NumbersKnown, AuthInv, Auth!TypeOK,
     Auth!Fragment, Auth!prefs, Auth!front, Auth!Busy, Auth!Mine
<1>3. RequestsOfScreen'
  BY DEF Auth!ResendClick, Auth!Ask, Auth!DisableForm, RequestsOfScreen, Auth!FragmentOf, AuthInv,
     Auth!TypeOK, Auth!Fragment, Auth!front, Auth!Busy, Auth!Mine
<1>4. (~left => NumbersAgree)'
  BY DEF Auth!ResendClick, Auth!Ask, Auth!DisableForm, NumbersAgree, Shown, Auth!FragmentOf,
     AuthInv, Auth!TypeOK, Auth!Fragment, Auth!prefs, Auth!front, Auth!Busy, Auth!Mine
<1>5. Auth!CrashIsExplained' /\ Auth!ScreenMatchesState' /\ DeadForm'
  BY DEF Auth!ResendClick, Auth!Ask, Auth!DisableForm, Auth!CrashIsExplained, Auth!ScreenMatchesState,
     DeadForm, AuthInv, Auth!TypeOK, Auth!Fragment, Auth!prefs, Auth!front, Auth!Busy, Auth!Mine
<1>6. QED
  BY <1>1, <1>2, <1>3, <1>4, <1>5 DEF AuthInv

\* A press of the register button keeps the invariant of the login.
LEMMA VerifyAndUploadDataKeeps ==
  ASSUME AuthInv, NEW k \in Call, Auth!VerifyAndUploadData(k)
  PROVE  AuthInv'
<1>1. Auth!TypeOK'
  BY DEF Auth!VerifyAndUploadData, Auth!Ask, Auth!DisableForm, AuthInv, Auth!TypeOK, Auth!Fragment,
     Auth!prefs, Auth!front, Auth!ghosts, Auth!Busy, Auth!InFront
<1>2. NumbersKnown'
  BY DEF Auth!VerifyAndUploadData, Auth!Ask, Auth!DisableForm, NumbersKnown, AuthInv, Auth!TypeOK,
     Auth!Fragment, Auth!prefs, Auth!front, Auth!Busy
<1>3. RequestsOfScreen'
  BY DEF Auth!VerifyAndUploadData, Auth!Ask, Auth!DisableForm, RequestsOfScreen, Auth!FragmentOf,
     AuthInv, Auth!TypeOK, Auth!Fragment, Auth!front, Auth!ghosts, Auth!Busy, Auth!Mine
<1>4. (~left => NumbersAgree)'
  BY DEF Auth!VerifyAndUploadData, Auth!Ask, Auth!DisableForm, NumbersAgree, Auth!FragmentOf,
     AuthInv, Auth!TypeOK, Auth!Fragment, Auth!prefs, Auth!front, Auth!ghosts, Auth!Busy, Auth!Mine
<1>5. Auth!CrashIsExplained' /\ Auth!ScreenMatchesState' /\ DeadForm'
  BY DEF Auth!VerifyAndUploadData, Auth!Ask, Auth!DisableForm, Auth!CrashIsExplained,
     Auth!ScreenMatchesState, DeadForm, AuthInv, Auth!TypeOK, Auth!Fragment, Auth!prefs, Auth!front,
     Auth!ghosts, Auth!Busy, Auth!Mine
<1>6. QED
  BY <1>1, <1>2, <1>3, <1>4, <1>5 DEF AuthInv

\* The end of a countdown keeps the invariant of the login.
LEMMA CountdownFinishKeeps ==
  ASSUME AuthInv, Auth!CountdownFinish
  PROVE  AuthInv'
<1>1. Auth!TypeOK'
  BY DEF Auth!CountdownFinish, Auth!CountdownRunning, AuthInv, Auth!TypeOK, Auth!Fragment, Auth!prefs,
     Auth!front, Auth!calls, Auth!ghosts, Auth!Busy
<1>2. NumbersKnown'
  BY DEF Auth!CountdownFinish, Auth!CountdownRunning, NumbersKnown, AuthInv, Auth!Fragment,
     Auth!prefs, Auth!front, Auth!calls, Auth!Busy
<1>3. RequestsOfScreen'
  BY DEF Auth!CountdownFinish, Auth!CountdownRunning, RequestsOfScreen, Auth!FragmentOf,
     AuthInv, Auth!Fragment, Auth!front, Auth!calls, Auth!ghosts, Auth!Busy, Auth!Mine
<1>4. (~left => NumbersAgree)'
  BY DEF Auth!CountdownFinish, Auth!CountdownRunning, NumbersAgree, Auth!FragmentOf, AuthInv,
     Auth!Fragment, Auth!prefs, Auth!front, Auth!calls, Auth!ghosts, Auth!Busy, Auth!Mine
<1>5. Auth!CrashIsExplained' /\ Auth!ScreenMatchesState' /\ DeadForm'
  BY DEF Auth!CountdownFinish, Auth!CountdownRunning, Auth!CrashIsExplained,
     Auth!ScreenMatchesState, DeadForm, AuthInv, Auth!Fragment, Auth!prefs, Auth!front, Auth!calls,
     Auth!ghosts, Auth!Busy, Auth!Mine
<1>6. QED
  BY <1>1, <1>2, <1>3, <1>4, <1>5 DEF AuthInv

\* The reply to a login keeps the invariant of the login.
LEMMA LoginAcceptedKeeps ==
  ASSUME AuthInv, NEW k \in Call, Auth!LoginAccepted(k)
  PROVE  AuthInv'
<1>1. RequestsTyped'
  BY DEF Auth!LoginAccepted, Auth!StoreAndShow, Auth!CrashAfter, Auth!Crash, Auth!Die, Auth!EndCall, Auth!Commit,
     Auth!Show, Auth!Replace, RequestsTyped, AuthInv, Auth!TypeOK, Auth!Fragment, Auth!Busy, Auth!Mine
<1>2. PrefsTyped'
  BY DEF Auth!LoginAccepted, Auth!StoreAndShow, Auth!CrashAfter, Auth!Crash, Auth!Die, Auth!EndCall, Auth!Commit,
     Auth!Show, Auth!Replace, PrefsTyped, AuthInv, Auth!TypeOK, Auth!Fragment, Auth!prefs, Auth!Busy, Auth!Mine
<1>3. FlagsTyped'
  BY DEF Auth!LoginAccepted, Auth!StoreAndShow, Auth!CrashAfter, Auth!Crash, Auth!Die, Auth!EndCall, Auth!Commit,
     Auth!Show, Auth!Replace, FlagsTyped, AuthInv, Auth!TypeOK, Auth!Fragment, Auth!front, Auth!buttons,
     Auth!Busy, Auth!Mine
<1>4. Auth!TypeOK'
  BY <1>1, <1>2, <1>3 DEF Auth!LoginAccepted, Auth!StoreAndShow, Auth!CrashAfter, Auth!Crash, Auth!Die,
     Auth!EndCall, Auth!Commit, Auth!Show, Auth!Replace, FlagsTyped, AuthInv, Auth!TypeOK, Auth!Fragment,
     Auth!prefs, Auth!front, Auth!buttons, Auth!Busy, Auth!Mine
<1>5. NumbersKnown'
  BY DEF Auth!LoginAccepted, Auth!StoreAndShow, Auth!CrashAfter, Auth!Crash, Auth!Die, Auth!EndCall, Auth!Commit,
     Auth!Show, Auth!Replace, NumbersKnown, AuthInv, Auth!TypeOK, Auth!Fragment, Auth!prefs, Auth!front,
     Auth!Busy, Auth!Mine
<1>6. RequestsOfScreen'
  BY DEF Auth!LoginAccepted, Auth!StoreAndShow, Auth!CrashAfter, Auth!Crash, Auth!Die, Auth!EndCall, Auth!Commit,
     Auth!Show, Auth!Replace, RequestsOfScreen, Auth!FragmentOf, AuthInv, Auth!TypeOK, Auth!Fragment,
     Auth!front, Auth!Busy, Auth!Mine
<1>7. (~left => NumbersAgree)'
  BY DEF Auth!LoginAccepted, Auth!StoreAndShow, Auth!CrashAfter, Auth!Crash, Auth!Die, Auth!EndCall, Auth!Commit,
     Auth!Show, Auth!Replace, NumbersAgree, Auth!FragmentOf, AuthInv, Auth!TypeOK, Auth!Fragment,
     Auth!prefs, Auth!front, Auth!Busy, Auth!Mine
<1>8. Auth!CrashIsExplained' /\ Auth!ScreenMatchesState' /\ DeadForm'
  BY DEF Auth!LoginAccepted, Auth!StoreAndShow, Auth!CrashAfter, Auth!Crash, Auth!Die, Auth!EndCall, Auth!Commit,
     Auth!Show, Auth!Replace, Auth!CrashIsExplained, Auth!ScreenMatchesState, DeadForm,
     RequestsOfScreen, AuthInv, Auth!TypeOK, Auth!Fragment, Auth!front, Auth!buttons, Auth!Busy, Auth!Mine,
     Auth!InFront
<1>9. QED
  BY <1>1, <1>2, <1>3, <1>4, <1>5, <1>6, <1>7, <1>8 DEF AuthInv

\* The reply that an OTP is right keeps the invariant of the login.
LEMMA OtpNewUserKeeps ==
  ASSUME AuthInv, NEW k \in Call, Auth!OtpNewUser(k)
  PROVE  AuthInv'
<1>1. RequestsTyped'
  BY DEF Auth!OtpNewUser, Auth!StoreAndShow, Auth!CrashAfter, Auth!Crash, Auth!Die, Auth!EndCall, Auth!Commit,
     Auth!Show, Auth!Replace, RequestsTyped, AuthInv, Auth!TypeOK, Auth!Fragment, Auth!Busy, Auth!Mine
<1>2. PrefsTyped'
  BY DEF Auth!OtpNewUser, Auth!StoreAndShow, Auth!CrashAfter, Auth!Crash, Auth!Die, Auth!EndCall, Auth!Commit,
     Auth!Show, Auth!Replace, PrefsTyped, NumbersKnown, AuthInv, Auth!TypeOK, Auth!Fragment,
     Auth!prefs, Auth!Busy, Auth!Mine
<1>3. FlagsTyped'
  BY DEF Auth!OtpNewUser, Auth!StoreAndShow, Auth!CrashAfter, Auth!Crash, Auth!Die, Auth!EndCall, Auth!Commit,
     Auth!Show, Auth!Replace, FlagsTyped, AuthInv, Auth!TypeOK, Auth!Fragment, Auth!front, Auth!buttons,
     Auth!Busy, Auth!Mine
<1>4. Auth!TypeOK'
  BY <1>1, <1>2, <1>3 DEF Auth!OtpNewUser, Auth!StoreAndShow, Auth!CrashAfter, Auth!Crash, Auth!Die,
     Auth!EndCall, Auth!Commit, Auth!Show, Auth!Replace, PrefsTyped, FlagsTyped, AuthInv, Auth!TypeOK,
     Auth!Fragment, Auth!front, Auth!buttons, Auth!Busy, Auth!Mine
<1>5. NumbersKnown'
  BY DEF Auth!OtpNewUser, Auth!StoreAndShow, Auth!CrashAfter, Auth!Crash, Auth!Die, Auth!EndCall, Auth!Commit,
     Auth!Show, Auth!Replace, NumbersKnown, AuthInv, Auth!TypeOK, Auth!Fragment, Auth!prefs, Auth!front,
     Auth!Busy, Auth!Mine
<1>6. RequestsOfScreen'
  BY DEF Auth!OtpNewUser, Auth!StoreAndShow, Auth!CrashAfter, Auth!Crash, Auth!Die, Auth!EndCall, Auth!Commit,
     Auth!Show, Auth!Replace, RequestsOfScreen, Auth!FragmentOf, AuthInv, Auth!TypeOK, Auth!Fragment,
     Auth!front, Auth!Busy, Auth!Mine
<1>7. (~left => NumbersAgree)'
  BY DEF Auth!OtpNewUser, Auth!StoreAndShow, Auth!CrashAfter, Auth!Crash, Auth!Die, Auth!EndCall, Auth!Commit,
     Auth!Show, Auth!Replace, NumbersAgree, Shown, Auth!FragmentOf, AuthInv, Auth!TypeOK,
     Auth!Fragment, Auth!prefs, Auth!front, Auth!Busy, Auth!Mine
<1>8. Auth!CrashIsExplained' /\ Auth!ScreenMatchesState' /\ DeadForm'
  BY DEF Auth!OtpNewUser, Auth!StoreAndShow, Auth!CrashAfter, Auth!Crash, Auth!Die, Auth!EndCall, Auth!Commit,
     Auth!Show, Auth!Replace, Auth!CrashIsExplained, Auth!ScreenMatchesState, DeadForm,
     RequestsOfScreen, AuthInv, Auth!TypeOK, Auth!Fragment, Auth!front, Auth!buttons, Auth!Busy, Auth!Mine,
     Auth!InFront
<1>9. QED
  BY <1>1, <1>2, <1>3, <1>4, <1>5, <1>6, <1>7, <1>8 DEF AuthInv

\* The reply that opens the home screen keeps the invariant of the login.
LEMMA OpenHomeKeeps ==
  ASSUME AuthInv, NEW k \in Call, Auth!OpenHome(k)
  PROVE  AuthInv'
<1>1. Auth!TypeOK'
  BY DEF Auth!OpenHome, Auth!EndCall, NumbersKnown, AuthInv, Auth!TypeOK, Auth!Fragment, Auth!buttons,
     Auth!Busy, Auth!Mine
<1>2. NumbersKnown'
  BY DEF Auth!OpenHome, Auth!EndCall, NumbersKnown, AuthInv, Auth!TypeOK, Auth!Fragment, Auth!Busy,
     Auth!Mine
<1>3. RequestsOfScreen'
  BY DEF Auth!OpenHome, Auth!EndCall, RequestsOfScreen, Auth!FragmentOf, AuthInv, Auth!Fragment,
     Auth!buttons, Auth!Busy, Auth!Mine
<1>4. (~left => NumbersAgree)'
  BY DEF Auth!OpenHome, Auth!EndCall, NumbersAgree, Auth!FragmentOf, AuthInv, Auth!TypeOK,
     Auth!Fragment, Auth!Busy, Auth!Mine
<1>5. Auth!CrashIsExplained' /\ Auth!ScreenMatchesState' /\ DeadForm'
  BY DEF Auth!OpenHome, Auth!EndCall, Auth!CrashIsExplained, Auth!ScreenMatchesState, DeadForm,
     RequestsOfScreen, AuthInv, Auth!TypeOK, Auth!Fragment, Auth!buttons, Auth!Busy, Auth!Mine
<1>6. QED
  BY <1>1, <1>2, <1>3, <1>4, <1>5 DEF AuthInv

\* A refusal keeps the invariant of the login.
LEMMA RefusedKeeps ==
  ASSUME AuthInv, NEW k \in Call, Auth!Refused(k)
  PROVE  AuthInv'
<1>1. RequestsTyped'
  BY DEF Auth!Refused, Auth!HasViews, Auth!FragmentOf, Auth!Crash, Auth!Die, Auth!Show, Auth!EndCall, Auth!ReviveForm,
     RequestsTyped, AuthInv, Auth!TypeOK, Auth!Fragment, Auth!Busy
<1>2. PrefsTyped'
  BY DEF Auth!Refused, Auth!HasViews, Auth!FragmentOf, Auth!Crash, Auth!Die, Auth!Show, Auth!EndCall, Auth!ReviveForm,
     PrefsTyped, AuthInv, Auth!TypeOK, Auth!Fragment, Auth!prefs, Auth!Busy
<1>3. FlagsTyped'
  BY DEF Auth!Refused, Auth!HasViews, Auth!FragmentOf, Auth!Crash, Auth!Die, Auth!Show, Auth!EndCall, Auth!ReviveForm,
     FlagsTyped, AuthInv, Auth!TypeOK, Auth!Fragment, Auth!front, Auth!ghosts
<1>4. Auth!TypeOK'
  BY <1>1, <1>2, <1>3 DEF Auth!Refused, Auth!HasViews, Auth!FragmentOf, Auth!Crash, Auth!Die, Auth!Show,
     Auth!EndCall, Auth!ReviveForm, FlagsTyped, AuthInv, Auth!TypeOK, Auth!Fragment, Auth!prefs, Auth!front
<1>5. NumbersKnown'
  BY DEF Auth!Refused, Auth!HasViews, Auth!FragmentOf, Auth!Crash, Auth!Die, Auth!Show, Auth!EndCall, Auth!ReviveForm,
     NumbersKnown, AuthInv, Auth!TypeOK, Auth!Fragment, Auth!prefs, Auth!front, Auth!Busy
<1>6. RequestsOfScreen'
  BY DEF Auth!Refused, Auth!HasViews, Auth!FragmentOf, Auth!Crash, Auth!Die, Auth!Show, Auth!EndCall, Auth!ReviveForm,
     RequestsOfScreen, AuthInv, Auth!TypeOK, Auth!Fragment, Auth!front, Auth!ghosts, Auth!Busy, Auth!Mine
<1>7. (~left => NumbersAgree)'
  BY DEF Auth!Refused, Auth!HasViews, Auth!FragmentOf, Auth!Crash, Auth!Die, Auth!Show, Auth!EndCall, Auth!ReviveForm,
     NumbersAgree, AuthInv, Auth!TypeOK, Auth!Fragment, Auth!prefs, Auth!front, Auth!ghosts, Auth!Busy, Auth!Mine
<1>8. Auth!CrashIsExplained' /\ Auth!ScreenMatchesState' /\ DeadForm'
  BY DEF Auth!Refused, Auth!HasViews, Auth!FragmentOf, Auth!Crash, Auth!Die, Auth!Show, Auth!EndCall, Auth!ReviveForm,
     Auth!CrashIsExplained, Auth!ScreenMatchesState, DeadForm, RequestsOfScreen,
     AuthInv, Auth!TypeOK, Auth!Fragment, Auth!prefs, Auth!front, Auth!ghosts, Auth!Busy, Auth!Mine
<1>9. QED
  BY <1>1, <1>2, <1>3, <1>4, <1>5, <1>6, <1>7, <1>8 DEF AuthInv

\* The reply to a resend keeps the invariant of the login.
LEMMA ResendAcceptedKeeps ==
  ASSUME AuthInv, NEW k \in Call, Auth!ResendAccepted(k)
  PROVE  AuthInv'
<1>1. RequestsTyped'
  BY DEF Auth!ResendAccepted, Auth!HasViews, Auth!FragmentOf, Auth!Crash, Auth!Die, Auth!Show, Auth!EndCall,
     Auth!NewCountdowns, RequestsTyped, AuthInv, Auth!TypeOK, Auth!Fragment, Auth!Busy, Auth!Mine
<1>2. PrefsTyped'
  BY DEF Auth!ResendAccepted, Auth!HasViews, Auth!FragmentOf, Auth!Crash, Auth!Die, Auth!Show, Auth!EndCall,
     Auth!NewCountdowns, PrefsTyped, AuthInv, Auth!TypeOK, Auth!Fragment, Auth!prefs, Auth!Busy, Auth!Mine
<1>3. FlagsTyped'
  BY DEF Auth!ResendAccepted, Auth!HasViews, Auth!FragmentOf, Auth!Crash, Auth!Die, Auth!Show, Auth!EndCall,
     Auth!NewCountdowns, FlagsTyped, AuthInv, Auth!TypeOK, Auth!Fragment, Auth!front, Auth!ghosts,
     Auth!Busy, Auth!Mine
<1>4. Auth!TypeOK'
  BY <1>1, <1>2, <1>3 DEF Auth!ResendAccepted, Auth!HasViews, Auth!FragmentOf, Auth!Crash, Auth!Die,
     Auth!Show, Auth!EndCall, Auth!NewCountdowns, FlagsTyped, AuthInv, Auth!TypeOK, Auth!Fragment,
     Auth!prefs, Auth!front, Auth!Busy, Auth!Mine
<1>5. NumbersKnown'
  BY DEF Auth!ResendAccepted, Auth!HasViews, Auth!FragmentOf, Auth!Crash, Auth!Die, Auth!Show, Auth!EndCall,
     Auth!NewCountdowns, NumbersKnown, AuthInv, Auth!TypeOK, Auth!Fragment, Auth!prefs, Auth!front,
     Auth!Busy, Auth!Mine
<1>6. RequestsOfScreen'
  BY DEF Auth!ResendAccepted, Auth!HasViews, Auth!FragmentOf, Auth!Crash, Auth!Die, Auth!Show, Auth!EndCall,
     Auth!NewCountdowns, RequestsOfScreen, AuthInv, Auth!TypeOK, Auth!Fragment, Auth!front,
     Auth!ghosts, Auth!Busy, Auth!Mine
<1>7. (~left => NumbersAgree)'
  BY DEF Auth!ResendAccepted, Auth!HasViews, Auth!FragmentOf, Auth!Crash, Auth!Die, Auth!Show, Auth!EndCall,
     Auth!NewCountdowns, NumbersAgree, AuthInv, Auth!TypeOK, Auth!Fragment, Auth!prefs, Auth!front,
     Auth!ghosts, Auth!Busy, Auth!Mine
<1>8. Auth!CrashIsExplained' /\ Auth!ScreenMatchesState' /\ DeadForm'
  BY DEF Auth!ResendAccepted, Auth!HasViews, Auth!FragmentOf, Auth!Crash, Auth!Die, Auth!Show, Auth!EndCall,
     Auth!NewCountdowns, Auth!CrashIsExplained, Auth!ScreenMatchesState, DeadForm,
     RequestsOfScreen, AuthInv, Auth!TypeOK, Auth!Fragment, Auth!prefs, Auth!front, Auth!ghosts, Auth!Busy,
     Auth!Mine
<1>9. QED
  BY <1>1, <1>2, <1>3, <1>4, <1>5, <1>6, <1>7, <1>8 DEF AuthInv

\* An HTTP error keeps the invariant of the login.
LEMMA HttpErrorKeeps ==
  ASSUME AuthInv, NEW k \in Call, Auth!HttpError(k)
  PROVE  AuthInv'
<1>1. Auth!TypeOK'
  BY DEF Auth!HttpError, Auth!EndCall, AuthInv, Auth!TypeOK, Auth!Fragment, Auth!prefs, Auth!front, Auth!buttons,
     Auth!Busy, Auth!Mine
<1>2. NumbersKnown'
  BY DEF Auth!HttpError, Auth!EndCall, NumbersKnown, AuthInv, Auth!TypeOK, Auth!Fragment, Auth!prefs,
     Auth!front, Auth!Busy, Auth!Mine
<1>3. RequestsOfScreen'
  BY DEF Auth!HttpError, Auth!EndCall, RequestsOfScreen, Auth!FragmentOf, AuthInv, Auth!Fragment,
     Auth!front, Auth!buttons, Auth!Busy, Auth!Mine
<1>4. (~left => NumbersAgree)'
  BY DEF Auth!HttpError, Auth!EndCall, NumbersAgree, Auth!FragmentOf, AuthInv, Auth!TypeOK,
     Auth!Fragment, Auth!prefs, Auth!front, Auth!Busy, Auth!Mine
<1>5. Auth!CrashIsExplained' /\ Auth!ScreenMatchesState' /\ DeadForm'
  BY DEF Auth!HttpError, Auth!EndCall, Auth!CrashIsExplained, Auth!ScreenMatchesState, DeadForm,
     AuthInv, Auth!TypeOK, Auth!Fragment, Auth!prefs, Auth!front, Auth!buttons, Auth!Busy, Auth!Mine
<1>6. QED
  BY <1>1, <1>2, <1>3, <1>4, <1>5 DEF AuthInv

\* The death of the process keeps the invariant of the login.
LEMMA ProcessDiesKeeps ==
  ASSUME AuthInv, Auth!ProcessDies
  PROVE  AuthInv'
<1>1. Auth!TypeOK'
  BY DEF Auth!ProcessDies, Auth!Die, Auth!Show, AuthInv, Auth!TypeOK, Auth!Fragment, Auth!prefs, Auth!Busy
<1>2. NumbersKnown'
  BY DEF Auth!ProcessDies, Auth!Die, Auth!Show, NumbersKnown, AuthInv, Auth!Fragment, Auth!prefs, Auth!Busy
<1>3. RequestsOfScreen'
  BY DEF Auth!ProcessDies, Auth!Die, Auth!Show, RequestsOfScreen, Auth!FragmentOf, Auth!Fragment, Auth!Busy,
     Auth!Mine
<1>4. (~left => NumbersAgree)'
  BY DEF Auth!ProcessDies, Auth!Die, Auth!Show, NumbersAgree, Auth!FragmentOf, AuthInv, Auth!Fragment,
     Auth!prefs, Auth!Busy, Auth!Mine
<1>5. Auth!CrashIsExplained' /\ Auth!ScreenMatchesState' /\ DeadForm'
  BY DEF Auth!ProcessDies, Auth!Die, Auth!Show, Auth!CrashIsExplained, Auth!ScreenMatchesState,
     DeadForm, AuthInv, Auth!Fragment, Auth!Busy, Auth!Mine
<1>6. QED
  BY <1>1, <1>2, <1>3, <1>4, <1>5 DEF AuthInv

\* A step that leaves the login alone keeps the invariant.
LEMMA AuthStutters ==
  ASSUME AuthInv, UNCHANGED authVars
  PROVE  AuthInv'
<1> USE DEF authVars, Auth!vars, Auth!prefs, Auth!front, Auth!buttons, Auth!calls, Auth!ghosts
<1>1. Auth!TypeOK'
  BY DEF AuthInv, Auth!TypeOK
<1>2. NumbersKnown' /\ RequestsOfScreen' /\ (~left => NumbersAgree)'
  BY DEF AuthInv, NumbersKnown, RequestsOfScreen, NumbersAgree, Auth!Mine, Auth!Busy
<1>3. Auth!CrashIsExplained' /\ Auth!ScreenMatchesState' /\ DeadForm'
  BY DEF AuthInv, Auth!CrashIsExplained, Auth!ScreenMatchesState, DeadForm, Auth!Mine, Auth!Busy
<1>4. QED
  BY <1>1, <1>2, <1>3 DEF AuthInv

\* The invariant of the login holds at first.
LEMMA AuthInvInit == Auth!Init => AuthInv
<1> SUFFICES ASSUME Auth!Init PROVE AuthInv
  OBVIOUS
<1> USE DEF Auth!Init
<1>1. Auth!TypeOK
  BY DEF Auth!TypeOK, Auth!Fragment
<1>2. NumbersKnown /\ RequestsOfScreen /\ (~left => NumbersAgree)
  BY DEF NumbersKnown, RequestsOfScreen, NumbersAgree, Auth!Mine, Auth!Busy
<1>3. Auth!CrashIsExplained /\ Auth!ScreenMatchesState /\ DeadForm
  BY DEF Auth!CrashIsExplained, Auth!ScreenMatchesState, DeadForm
<1>4. QED
  BY <1>1, <1>2, <1>3 DEF AuthInv

\* Every step of the login keeps the invariant.
LEMMA AuthInvStep ==
  ASSUME AuthInv, [Auth!Next]_authVars
  PROVE  AuthInv'
<1>1. CASE Auth!User
  BY <1>1, LaunchKeeps, RotateKeeps, BackTwiceKeeps, GoAwayKeeps,
     BackFromHomeKeeps, LogoutKeeps, EditPhoneKeeps, AttemptLoginKeeps,
     VerifyClickKeeps, ResendClickKeeps, VerifyAndUploadDataKeeps DEF Auth!User
<1>2. ASSUME NEW k \in Call, Auth!SmsArrives(k) \/ Auth!Reply(k) PROVE AuthInv'
  BY <1>2, SmsArrivesKeeps, LoginAcceptedKeeps, OtpNewUserKeeps,
     OpenHomeKeeps, RefusedKeeps, ResendAcceptedKeeps, HttpErrorKeeps
     DEF Auth!Reply
<1>3. CASE Auth!CountdownFinish \/ Auth!ProcessDies \/ UNCHANGED authVars
  BY <1>3, CountdownFinishKeeps, ProcessDiesKeeps, AuthStutters
<1>4. QED
  BY <1>1, <1>2, <1>3 DEF Auth!Next

\* What the invariant says of the login.
LEMMA AuthInvImplies ==
  ASSUME AuthInv
  PROVE  Auth!TypeOK /\ Auth!TokenIsForPhone /\ Auth!CrashIsExplained /\ Auth!ScreenMatchesState /\ Auth!DeadFormIsExplained
BY DEF AuthInv, NumbersAgree, Auth!TokenIsForPhone, DeadForm, Auth!DeadFormIsExplained,
   Auth!InFront

-----------------------------------------------------------------------------
(* The uploads and the login together *)

\* A behaviour of both is one of the uploads.
LEMMA PartIsUpload == PartSpec => Spec
<1>1. PartInit => Init
  BY DEF PartInit
<1>2. [PartNext]_<<part, vars, authVars>> => [Next]_vars
  BY DEF PartNext
<1>3. QED
  BY <1>1, <1>2, PTL DEF PartSpec, Spec

\* A token is that of the number logged in, and every crash, wrong screen and dead form of the login has its cause, whatever the order of
\* clicks, replies, rotations, countdowns and deaths of the process (AuthActivity and its fragments).
THEOREM LoginIsSoundHolds == PartSpec => []LoginIsSound
<1>1. PartInit => AuthInv
  BY AuthInvInit DEF PartInit
<1>2. AuthInv /\ [PartNext]_<<part, vars, authVars>> => AuthInv'
  <2>1. [PartNext]_<<part, vars, authVars>> => [Auth!Next]_authVars
    BY DEF PartNext
  <2>2. QED
    BY <2>1, AuthInvStep
<1>3. AuthInv => LoginIsSound
  BY AuthInvImplies DEF LoginIsSound
<1>4. QED
  BY <1>1, <1>2, <1>3, PTL DEF PartSpec
=============================================================================
