----------------------------- MODULE AppNavigation -----------------------------
(***************************************************************************)
(* The activities of the application's task, as far as they start one      *)
(* another: introduction, splash screen, login screen (AuthActivity), home *)
(* (MainActivity) and the activities whose toolbar arrow opens a new home. *)
(* The form, the contacts and the details only finish, and are left out.   *)
(*                                                                         *)
(* Two settings outlive the process: the login of SharedPrefrenceUser and  *)
(* the flags of PrefManager. The splash screen's timer outlives the screen:*)
(* a finished SplashScreen still opens the login screen.                   *)
(***************************************************************************)
EXTENDS Naturals, SequencesExt

CONSTANTS
  MaxTask,       \* bound: activities in the task
  MaxLate,       \* bound: timers of splash screens that are gone
  MaxAsked       \* bound: login requests in progress at once

BoundsAssumption ==
  MaxTask \in Nat \ {0} /\ MaxLate \in Nat /\ MaxAsked \in Nat

VARIABLES
  task,          \* the activities, the one on the screen last
  late,          \* the number of timers whose splash screen is gone
  asked,         \* the number of login requests in progress
  login,         \* the persisted state is home_state
  firstTime,     \* PrefManager: IsFirstTimeLaunch
  fromHelp,      \* PrefManager: fromSettingsToIntro
  leftover       \* history variable: a home was opened or left without a login

pending == <<late, asked>>
vars == <<task, pending, login, firstTime, fromHelp, leftover>>

Activity == {"intro", "splash", "auth", "home", "branch"}

\* The splash screen replaces the introduction that starts it at the root.
TypeOK ==
  /\ task \in UNION {[1..n -> Activity] : n \in 0..MaxTask}
  /\ \A i \in DOMAIN task : task[i] = "splash" => i = 1
  /\ late \in 0..MaxLate
  /\ asked \in 0..MaxAsked
  /\ login \in BOOLEAN /\ firstTime \in BOOLEAN /\ fromHelp \in BOOLEAN
  /\ leftover \in BOOLEAN

Init ==
  /\ task = <<>>
  /\ late = 0 /\ asked = 0
  /\ login = FALSE /\ firstTime = TRUE /\ fromHelp = FALSE
  /\ leftover = FALSE

-----------------------------------------------------------------------------
TopIs(t, a) == t # <<>> /\ Last(t) = a

Has(t, a) == \E i \in DOMAIN t : t[i] = a

Fits(t) == Len(t) <= MaxTask

Persisted == <<login, firstTime, fromHelp>>

\* mutant: the login screen opens whatever the state
OpenAuthAlways(t) == Append(t, "auth")

\* AuthActivity.onCreate: with a login it opens the home and finishes.
OpenAuth(t) == IF login THEN Append(t, "home") ELSE Append(t, "auth")

\* mutant: the introduction stays below the splash screen
IntroStays == IF firstTime \/ fromHelp THEN <<"intro">> ELSE <<"intro", "splash">>

\* IntroActivity.onCreate at the root of the task.
FirstScreen == IF firstTime \/ fromHelp THEN <<"intro">> ELSE <<"splash">>

-----------------------------------------------------------------------------
(* Introduction and splash screen. *)

Launch ==
  /\ task = <<>>
  /\ task' = FirstScreen
  /\ UNCHANGED <<pending, Persisted, leftover>>

\* launchHomeScreen. From the help it starts the home and, having no return,
\* the login screen after it.
IntroSkip ==
  /\ TopIs(task, "intro")
  /\ task' = OpenAuth(IF fromHelp THEN Append(Front(task), "home") ELSE Front(task))
  /\ Fits(task')
  /\ leftover' = (leftover \/ (fromHelp /\ ~login))
  /\ fromHelp' = FALSE
  /\ firstTime' = FALSE
  /\ UNCHANGED <<pending, login>>

\* The flag of the help stays set.
IntroBack ==
  /\ TopIs(task, "intro")
  /\ task' = Front(task)
  /\ UNCHANGED <<pending, Persisted, leftover>>

\* SplashScreen's timer: the login screen is opened, the splash screen finished.
SplashTimer ==
  /\ Has(task, "splash")
  /\ task' = OpenAuth(Tail(task))
  /\ UNCHANGED <<pending, Persisted, leftover>>

SplashBack ==
  /\ TopIs(task, "splash")
  /\ late < MaxLate
  /\ task' = Front(task)
  /\ late' = late + 1
  /\ UNCHANGED <<asked, Persisted, leftover>>

LateTimer ==
  /\ late > 0
  /\ late' = late - 1
  /\ task' = OpenAuth(task)
  /\ Fits(task')
  /\ UNCHANGED <<asked, Persisted, leftover>>

-----------------------------------------------------------------------------
(* Login screen. *)

LoginAsked ==
  /\ TopIs(task, "auth")
  /\ asked < MaxAsked
  /\ asked' = asked + 1
  /\ UNCHANGED <<task, late, Persisted, leftover>>

\* The reply to the last request opens the home over whatever the task shows,
\* also when the login screen is no longer there.
LoginReply ==
  /\ asked > 0
  /\ asked' = asked - 1
  /\ \/ /\ login' = TRUE
        /\ task' = Append(task, "home")
        /\ Fits(task')
        /\ leftover' = FALSE
     \/ UNCHANGED <<login, task, leftover>>
  /\ UNCHANGED <<late, firstTime, fromHelp>>

\* A rotation: AuthActivity alone has no fixed orientation.
AuthRecreated ==
  /\ TopIs(task, "auth")
  /\ task' = OpenAuth(Front(task))
  /\ UNCHANGED <<pending, Persisted, leftover>>

\* The second press within two seconds finishes the activity; so at home.
AuthBack ==
  /\ TopIs(task, "auth")
  /\ task' = Front(task)
  /\ UNCHANGED <<pending, Persisted, leftover>>

-----------------------------------------------------------------------------
(* Home and what it opens. *)

HomeBack ==
  /\ TopIs(task, "home")
  /\ task' = Front(task)
  /\ UNCHANGED <<pending, Persisted, leftover>>

\* Settings, notifications and the filter.
OpenBranch ==
  /\ TopIs(task, "home")
  /\ task' = Append(task, "branch")
  /\ Fits(task')
  /\ UNCHANGED <<pending, Persisted, leftover>>

BranchBack ==
  /\ TopIs(task, "branch")
  /\ task' = Front(task)
  /\ UNCHANGED <<pending, Persisted, leftover>>

\* The toolbar's arrow starts another home instead of going back.
BranchArrow ==
  /\ TopIs(task, "branch")
  /\ task' = Append(Front(task), "home")
  /\ UNCHANGED <<pending, Persisted, leftover>>

\* The help shows the introduction, which does not start the splash screen
\* since the flag is set.
OpenHelp ==
  /\ TopIs(task, "home")
  /\ fromHelp' = TRUE
  /\ task' = Append(task, "intro")
  /\ Fits(task')
  /\ UNCHANGED <<pending, login, firstTime, leftover>>

\* The index of the last login screen of t, 0 without one.
LastAuth(t) == SelectLastInSeq(t, LAMBDA a : a = "auth")

\* AuthActivity is started with CLEAR_TOP: the last login screen of t goes with
\* all above it; without one only the home that logs out finishes.
Kept(t) == SubSeq(t, 1, (IF LastAuth(t) = 0 THEN Len(t) ELSE LastAuth(t)) - 1)

\* mutant: the home that logs out does not finish
LoginOverHome(t) == Append(t, "auth")

LoginScreen(t) == Append(Kept(t), "auth")

\* The PrefManager's flags are not part of what logout clears.
Logout ==
  /\ TopIs(task, "home")
  /\ login' = FALSE
  /\ task' = LoginScreen(task)
  /\ Fits(task')
  /\ leftover' = (leftover \/ Has(Kept(task), "home"))
  /\ UNCHANGED <<pending, firstTime, fromHelp>>

\* The task is swiped away: the process and its timers and requests end.
SwipeAway ==
  /\ task # <<>>
  /\ task' = <<>>
  /\ late' = 0 /\ asked' = 0
  /\ leftover' = FALSE
  /\ UNCHANGED Persisted

Next ==
  \/ Launch \/ IntroSkip \/ IntroBack \/ SplashTimer \/ SplashBack \/ LateTimer
  \/ LoginAsked \/ LoginReply \/ AuthRecreated \/ AuthBack
  \/ HomeBack \/ OpenBranch \/ BranchBack \/ BranchArrow \/ OpenHelp \/ Logout
  \/ SwipeAway

Spec == Init /\ [][Next]_vars

-----------------------------------------------------------------------------
(* Properties. *)

\* Nobody sees the home without a login, however timers, rotations, the help
\* and the back key interleave; except over a home that another one's logout
\* left in the task, or that the help's introduction opened by its flag, still
\* set, after the logout.
HomeNeedsLogin == TopIs(task, "home") => login \/ leftover

\* Somebody logged in sees the login screen only by closing what is above it:
\* no timer, rotation or introduction opens one.
LoginScreenGone ==
  (login' /\ TopIs(task', "auth") /\ ~(login /\ TopIs(task, "auth")))
    => Len(task') < Len(task)
=============================================================================
