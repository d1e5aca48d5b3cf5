------------------------------ MODULE MC_Requests ------------------------------
(* The two components that start requests of their own: the upload of images  *)
(* and the login.  They share no state, so that one of them runs per          *)
(* behaviour and the variables of the other keep their initial values.        *)
EXTENDS ImageUpload

CONSTANTS Phone, NoPhone

VARIABLES part,
  state, phone, token, screen, home, away, enabled, resend, countdowns, kind, about, at, left, overlapped, unanswered, crashed

Auth == INSTANCE AuthSession WITH asked <- about

ASSUME PhoneAssumption == Auth!NoPhoneAssumption

authVars ==
  <<state, phone, token, screen, home, away, enabled, resend, countdowns, kind, about, at, left, overlapped, unanswered, crashed>>

PartInit == part \in {"upload", "auth"} /\ Init /\ Auth!Init

PartNext ==
  /\ UNCHANGED part
  /\ \/ part = "upload" /\ Next /\ UNCHANGED authVars
     \/ part = "auth" /\ Auth!Next /\ UNCHANGED vars

\* The fairness of ImageUpload and of AuthSession.
PartSpec ==
  /\ PartInit /\ [][PartNext]_<<part, vars, authVars>>
  /\ \A k \in Call : WF_vars(part = "upload" /\ Callback(k))
  /\ WF_authVars(part = "auth" /\ Auth!CountdownFinish)
  /\ \A k \in Call : WF_authVars(part = "auth" /\ Auth!Reply(k))

-----------------------------------------------------------------------------
(* Properties *)

\* A token is that of the number logged in, and every crash, wrong screen and dead form of the login has its cause.
LoginIsSound ==
  /\ Auth!TypeOK
  /\ Auth!TokenIsForPhone
  /\ Auth!CrashIsExplained
  /\ Auth!ScreenMatchesState
  /\ Auth!DeadFormIsExplained

\* An upload that was asked for ends with a stored photo or with an event that explains why not; no form of the login waits for ever,
\* and the resend button comes back.
RequestsEnd == PhotoArrives /\ Auth!AttemptEnds /\ Auth!ResendComesBack
=============================================================================
