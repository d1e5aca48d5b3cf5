------------------------------ MODULE AuthSession ------------------------------
(***************************************************************************)
(* Signing in, package Auth: AuthActivity shows the login, OTP or register *)
(* fragment that the state in the shared preferences names; the replies of *)
(* the server move that state and the fragment on, and at the end open     *)
(* MainActivity on top. Logging out clears the preferences.                *)
(*                                                                         *)
(* A reply may find its fragment replaced, its activity recreated by a     *)
(* rotation or finished, or the application in the background. Input that  *)
(* is not valid and a missing connection change nothing and are left out.  *)
(***************************************************************************)
EXTENDS Integers, FiniteSets

CONSTANTS
  Phone,
  NoPhone,
  Call           \* bound: requests in progress at once

NoPhoneAssumption == NoPhone \notin Phone

VARIABLES
  state, phone, \* the preferences of that name
  token,        \* the phone number the stored token was issued for
  screen,       \* the fragment of AuthActivity, "none" without the activity
  home,         \* MainActivity is open, on top of AuthActivity if that exists
  away,         \* the application is in the background
  enabled,      \* the input and the button of the fragment
  resend,       \* the resend button of the OTP fragment
  countdowns,   \* resendCountDownCounters of that button still running
  kind,         \* per call: the request, or "idle"
  asked,        \* per call: the phone number it is about
  at,           \* per call: what became of its fragment
  left, overlapped, unanswered, crashed    \* history variables, see below

prefs == <<state, phone, token>>
front == <<screen, home, away>>
buttons == <<enabled, resend, countdowns>>
calls == <<kind, asked, at>>
ghosts == <<left, overlapped, unanswered, crashed>>
vars == <<prefs, front, buttons, calls, ghosts>>

Fragment == {"login", "otp", "register"}

TypeOK ==
  /\ state \in Fragment \cup {"home"}
  /\ phone \in Phone \cup {NoPhone}
  /\ token \in Phone \cup {NoPhone}
  /\ state \in {"register", "home"} => token \in Phone
  /\ screen \in Fragment \cup {"none"}
  /\ home \in BOOLEAN
  /\ away \in BOOLEAN
  /\ enabled \in BOOLEAN
  /\ resend \in BOOLEAN
  /\ countdowns \in Nat
  /\ kind \in [Call -> {"idle", "login", "resend", "otp", "register"}]
  /\ asked \in [Call -> Phone \cup {NoPhone}]
  /\ at \in [Call -> {"shown", "replaced", "destroyed"}]
  /\ left \in BOOLEAN
  /\ overlapped \in BOOLEAN
  /\ unanswered \in BOOLEAN
  /\ crashed \in BOOLEAN

Init ==
  /\ state = "login"
  /\ phone = NoPhone
  /\ token = NoPhone
  /\ screen = "none"
  /\ home = FALSE
  /\ away = FALSE
  /\ enabled = TRUE
  /\ resend = FALSE
  /\ countdowns = 0
  /\ kind = [k \in Call |-> "idle"]
  /\ asked = [k \in Call |-> NoPhone]
  /\ at = [k \in Call |-> "shown"]
  /\ left = FALSE
  /\ overlapped = FALSE
  /\ unanswered = FALSE
  /\ crashed = FALSE

-----------------------------------------------------------------------------
InFront == screen # "none" /\ ~home /\ ~away

Busy == {k \in Call : kind[k] # "idle"}

Mine == {k \in Busy : at[k] = "shown"}

\* A new fragment in AuthActivity.
Show(s) ==
  /\ screen' = s
  /\ enabled' = TRUE
  /\ resend' = FALSE
  /\ countdowns' = IF s = "otp" THEN 1 ELSE 0
  /\ unanswered' = FALSE

\* onCreate of AuthActivity for the state s. Logged in, it opens MainActivity
\* and finishes.
Create(s) ==
  IF s = "home" THEN Show("none") /\ home' = TRUE
                ELSE Show(s) /\ UNCHANGED home

\* The calls of the fragment that goes away, with or without its activity.
Replace == at' = [k \in Call |-> IF k \in Mine THEN "replaced" ELSE at[k]]

Destroy == at' = [k \in Call |-> IF k \in Busy THEN "destroyed" ELSE at[k]]

\* The user turns away from a request in progress.
Leave == left' = (left \/ Busy # {})

Die ==
  /\ Show("none")
  /\ home' = FALSE
  /\ away' = FALSE
  /\ kind' = [k \in Call |-> "idle"]
  /\ asked' = [k \in Call |-> NoPhone]
  /\ at' = [k \in Call |-> "shown"]

\* An exception mCallBack does not catch.
Crash ==
  /\ Die
  /\ crashed' = TRUE
  /\ UNCHANGED <<left, overlapped>>

\* What the callback stored before it threw may not have reached the disk.
CrashAfter(s, p, t) ==
  /\ Crash
  /\ \/ state' = s /\ phone' = p /\ token' = t
     \/ UNCHANGED prefs

-----------------------------------------------------------------------------
(* Opening, leaving and logging out. *)

Launch ==
  /\ screen = "none"
  /\ ~home
  /\ Create(state)
  /\ UNCHANGED <<prefs, away, calls, left, overlapped, crashed>>

\* The activity's orientation is not fixed: a rotation recreates it.
Rotate ==
  /\ InFront
  /\ Create(state)
  /\ Destroy
  /\ Leave
  /\ UNCHANGED <<prefs, away, kind, asked, overlapped, crashed>>

BackTwice ==
  /\ InFront
  /\ Show("none")
  /\ Destroy
  /\ Leave
  /\ UNCHANGED <<prefs, home, away, kind, asked, overlapped, crashed>>

GoAway ==
  /\ screen # "none" \/ home
  /\ away' = ~away
  /\ UNCHANGED <<prefs, screen, home, buttons, calls, ghosts>>

\* MainActivity says "Press back again to close this app"; AuthActivity shows.
BackFromHome ==
  /\ home
  /\ ~away
  /\ home' = FALSE
  /\ UNCHANGED <<prefs, screen, away, buttons, calls, ghosts>>

Logout ==
  /\ home
  /\ ~away
  /\ state' = "login"
  /\ phone' = NoPhone
  /\ token' = NoPhone
  /\ home' = FALSE
  /\ Show("login")
  /\ Destroy
  /\ Leave
  /\ UNCHANGED <<away, kind, asked, overlapped, crashed>>

ProcessDies == Die /\ UNCHANGED <<prefs, left, overlapped, crashed>>

-----------------------------------------------------------------------------
(* What the user does on a fragment. *)

Ask(k, request, p) ==
  /\ kind[k] = "idle"
  /\ kind' = [kind EXCEPT ![k] = request]
  /\ asked' = [asked EXCEPT ![k] = p]
  /\ at' = [at EXCEPT ![k] = "shown"]

\* mutant: the form stays as it is
KeepForm == enabled' = enabled

DisableForm == enabled' = FALSE

AttemptLogin(k, p) ==
  /\ InFront
  /\ screen = "login"
  /\ enabled
  /\ Ask(k, "login", p)
  /\ DisableForm
  /\ UNCHANGED <<prefs, front, resend, countdowns, ghosts>>

VerifyClick(k) ==
  /\ InFront
  /\ screen = "otp"
  /\ enabled
  /\ Ask(k, "otp", phone)
  /\ DisableForm
  /\ UNCHANGED <<prefs, front, resend, countdowns, ghosts>>

\* The receiver calls checkOtp whether or not the button is enabled.
SmsArrives(k) ==
  /\ InFront
  /\ screen = "otp"
  /\ Ask(k, "otp", phone)
  /\ DisableForm
  /\ overlapped' = (overlapped \/ Mine # {})
  /\ UNCHANGED <<prefs, front, resend, countdowns, left, unanswered, crashed>>

\* The button may be enabled while the OTP is being verified.
ResendClick(k) ==
  /\ InFront
  /\ screen = "otp"
  /\ resend
  /\ Ask(k, "resend", phone)
  /\ DisableForm
  /\ resend' = FALSE
  /\ overlapped' = (overlapped \/ Mine # {})
  /\ UNCHANGED <<prefs, front, countdowns, left, unanswered, crashed>>

\* mutant: the number is edited without setStateLogin
KeepState == state

StateLogin == "login"

EditPhone ==
  /\ InFront
  /\ screen = "otp"
  /\ state' = StateLogin
  /\ Show("login")
  /\ Replace
  /\ Leave
  /\ UNCHANGED <<phone, token, home, away, kind, asked, overlapped, crashed>>

VerifyAndUploadData(k) ==
  /\ InFront
  /\ screen = "register"
  /\ enabled
  /\ Ask(k, "register", token)
  /\ DisableForm
  /\ UNCHANGED <<prefs, front, resend, countdowns, ghosts>>

\* mutant: a countdown goes on after its end
CountdownRuns == screen = "otp"

CountdownRunning == countdowns > 0

CountdownFinish ==
  /\ CountdownRunning
  /\ countdowns' = countdowns - 1
  /\ resend' = TRUE
  /\ UNCHANGED <<prefs, front, enabled, calls, ghosts>>

-----------------------------------------------------------------------------
(* The replies. *)

EndCall(k) ==
  /\ kind' = [kind EXCEPT ![k] = "idle"]
  /\ asked' = [asked EXCEPT ![k] = NoPhone]

\* commit() of a fragment transaction. In the background it throws an
\* IllegalStateException, which mCallBack swallows: the old form stays disabled.
Commit(k, s) ==
  \/ /\ InFront
     /\ Show(s)
     /\ Replace
     /\ UNCHANGED <<home, away>>
  \/ /\ ~InFront
     /\ unanswered' = (unanswered \/ k \in Mine)
     /\ UNCHANGED <<at, front, buttons>>

\* getActivity() is null once the activity is destroyed.
StoreAndShow(k, st, p, t) ==
  \/ /\ at[k] = "destroyed"
     /\ CrashAfter(st, p, t)
  \/ /\ at[k] # "destroyed"
     /\ state' = st
     /\ phone' = p
     /\ token' = t
     /\ EndCall(k)
     /\ Commit(k, st)
     /\ UNCHANGED <<left, overlapped, crashed>>

LoginAccepted(k) ==
  /\ kind[k] = "login"
  /\ StoreAndShow(k, "otp", asked[k], token)

OtpNewUser(k) ==
  /\ kind[k] = "otp"
  /\ StoreAndShow(k, "register", phone, asked[k])

\* The user is known, or registered: MainActivity opens over whatever is there.
OpenHome(k) ==
  /\ kind[k] \in {"otp", "register"}
  /\ state' = "home"
  /\ token' = asked[k]
  /\ home' = TRUE
  /\ away' = FALSE
  /\ EndCall(k)
  /\ unanswered' = (unanswered \/ k \in Mine)
  /\ UNCHANGED <<phone, screen, buttons, at, left, overlapped, crashed>>

FragmentOf(request) == IF request = "resend" THEN "otp" ELSE request

\* findViewById of the views of the call's fragment, or of a later one like it.
HasViews(k) == at[k] # "destroyed" /\ screen = FragmentOf(kind[k])

\* mutant: the form stays as it is
ForgetForm == enabled' = enabled

ReviveForm == enabled' = TRUE

\* A timeout or a wrong OTP.
Refused(k) ==
  /\ kind[k] # "idle"
  /\ \/ /\ ~HasViews(k)
        /\ Crash
     \/ /\ HasViews(k)
        /\ EndCall(k)
        /\ ReviveForm
        /\ resend' = (resend \/ kind[k] = "resend")
        /\ UNCHANGED <<front, countdowns, at, ghosts>>
  /\ UNCHANGED prefs

\* mutant: the button is disabled and no countdown started
NoCountdown(k) == 0

\* The countdown enables the button of the fragment that sent the request.
NewCountdowns(k) == IF k \in Mine THEN 1 ELSE 0

ResendAccepted(k) ==
  /\ kind[k] = "resend"
  /\ \/ /\ ~HasViews(k)
        /\ Crash
     \/ /\ HasViews(k)
        /\ EndCall(k)
        /\ enabled' = TRUE
        /\ resend' = FALSE
        /\ countdowns' = countdowns + NewCountdowns(k)
        /\ UNCHANGED <<front, at, ghosts>>
  /\ UNCHANGED prefs

\* mCallBack shows a dialog and enables nothing.
HttpError(k) ==
  /\ kind[k] # "idle"
  /\ EndCall(k)
  /\ unanswered' = (unanswered \/ k \in Mine)
  /\ UNCHANGED <<prefs, front, buttons, at, left, overlapped, crashed>>

-----------------------------------------------------------------------------
User ==
  \/ Launch \/ Rotate \/ BackTwice \/ GoAway \/ BackFromHome \/ Logout
  \/ EditPhone
  \/ \E k \in Call :
       \/ \E p \in Phone : AttemptLogin(k, p)
       \/ VerifyClick(k)
       \/ ResendClick(k)
       \/ VerifyAndUploadData(k)

Reply(k) ==
  \/ LoginAccepted(k) \/ OtpNewUser(k) \/ OpenHome(k) \/ Refused(k)
  \/ ResendAccepted(k) \/ HttpError(k)

Next ==
  \/ User
  \/ CountdownFinish
  \/ \E k \in Call : SmsArrives(k) \/ Reply(k)
  \/ ProcessDies

Spec == Init /\ [][Next]_vars

\* OkHttp answers or times out every request; the timers run.
Fairness ==
  /\ WF_vars(CountdownFinish)
  /\ \A k \in Call : WF_vars(Reply(k))

FairSpec == Spec /\ Fairness

-----------------------------------------------------------------------------
(* Properties. *)

\* A logged-in user's token belongs to the stored phone number, unless the user
\* left a screen while its request was in progress.
TokenIsForPhone ==
  state \in {"register", "home"} /\ ~left => token = phone

\* The application crashes on a reply only if the user left a screen while a
\* request was in progress, or an OTP was verified twice or during a resend.
CrashIsExplained == crashed => left \/ overlapped

\* AuthActivity shows the fragment that a restart would show again, unless its
\* reply could not be shown, its user is already logged in, or a request was
\* left behind.
ScreenMatchesState ==
  screen # "none" => screen = state \/ unanswered \/ left \/ overlapped

\* A form that is disabled with no request in progress got there by an HTTP
\* error, by a reply that came in the background, or by closing MainActivity.
DeadFormIsExplained == InFront /\ ~enabled /\ Mine = {} => unanswered

\* A form that waits for its reply does not wait for ever: it works again, gives
\* way to the next screen, or was left by one of the causes above.
AttemptEnds ==
  \A s \in Fragment :
    (screen = s /\ ~enabled) ~> (screen # s \/ enabled \/ home \/ unanswered)

\* The resend button comes back after each resend.
ResendComesBack ==
  (screen = "otp" /\ ~resend)
    ~> (screen # "otp" \/ resend \/ unanswered \/ left)
=============================================================================
