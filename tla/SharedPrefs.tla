------------------------------ MODULE SharedPrefs ------------------------------
(***************************************************************************)
(* Changing the shared preferences of an application on a device (devil's  *)
(* shared_prefs.py).  The file is loaded, changed in memory and written    *)
(* back as a whole; the application, which keeps a copy of its own and     *)
(* writes that back as a whole too, is then killed.                        *)
(***************************************************************************)
EXTENDS Naturals

CONSTANTS Keys, Values

Unset == "unset"  \* not among Values
Map == [Keys -> Values \union {Unset}]
Empty == [k \in Keys |-> Unset]

VARIABLES file,     \* the preferences in the file, Empty if there is none
          alive, copy,  \* the application's process and its copy of them
          outdated, \* its process began before the last time Commit wrote the file
          wrote,    \* it wrote the file after that
          xml,      \* the preferences in _xml
          changed,
          phase,    \* of the context: out, in, and the commands of Commit that come next
          committed \* the last context ended with a Commit that changed the file, or failed to

vars == <<file, alive, copy, outdated, wrote, xml, changed, phase, committed>>
app == <<alive, copy, outdated, wrote>>

TypeOK ==
  /\ file \in Map /\ copy \in Map /\ xml \in Map
  /\ alive \in BOOLEAN /\ outdated \in BOOLEAN /\ wrote \in BOOLEAN /\ changed \in BOOLEAN
  /\ phase \in {"out", "in", "write", "context", "kill"}
  /\ committed \in {"none", "unchanged", "done", "failed"}

Init ==
  /\ file \in Map /\ alive = FALSE /\ copy = Empty /\ outdated = FALSE /\ wrote = FALSE
  /\ xml = Empty /\ changed = FALSE /\ phase = "out" /\ committed = "none"

-----------------------------------------------------------------------------
(* The application *)

Starts ==
  /\ ~alive /\ alive' = TRUE /\ copy' = file /\ outdated' = FALSE
  /\ UNCHANGED <<file, wrote, xml, changed, phase, committed>>
Writes ==
  /\ alive /\ \E k \in Keys, v \in Values : copy' = [copy EXCEPT ![k] = v]
  /\ file' = copy' /\ wrote' = TRUE
  /\ UNCHANGED <<alive, outdated, xml, changed, phase, committed>>

-----------------------------------------------------------------------------
(* SharedPrefs *)

Load ==
  /\ phase = "out"
  /\ xml' = file /\ changed' = FALSE /\ phase' = "in" /\ committed' = "none"
  /\ UNCHANGED <<file, app>>

SetPref(k, v) ==
  /\ phase = "in"
  /\ xml' = [xml EXCEPT ![k] = v] /\ changed' = (changed \/ xml[k] # v)
  /\ UNCHANGED <<file, app, phase, committed>>
\* Does not count as a change.
Remove(k) ==
  /\ phase = "in" /\ xml[k] # Unset
  /\ xml' = [xml EXCEPT ![k] = Unset]
  /\ UNCHANGED <<file, app, changed, phase, committed>>
Clear ==
  /\ phase = "in" /\ xml # Empty
  /\ xml' = Empty /\ changed' = TRUE
  /\ UNCHANGED <<file, app, phase, committed>>

\* The end of the context, by an error of its body or with Commit.
Exit ==
  /\ phase = "in"
  /\ \/ phase' = "out" /\ committed' = "failed"
     \/ ~changed /\ phase' = "out" /\ committed' = "unchanged"
     \/ changed /\ phase' = "write" /\ UNCHANGED committed
  /\ UNCHANGED <<file, app, xml, changed>>

WriteFile ==
  /\ file' = xml /\ outdated' = alive /\ wrote' = FALSE
  /\ UNCHANGED <<alive, copy>>
Kill == alive' = FALSE /\ outdated' = FALSE /\ UNCHANGED <<file, copy, wrote>>

CommandEarly(c) == CASE c = "write" -> Kill [] c = "kill" -> WriteFile [] OTHER -> UNCHANGED <<file, app>>
Command(c) == CASE c = "write" -> WriteFile [] c = "kill" -> Kill [] OTHER -> UNCHANGED <<file, app>>
Commit ==
  /\ phase \in {"write", "context", "kill"}
  /\ \/ /\ Command(phase)
        /\ phase' = CASE phase = "write" -> "context" [] phase = "context" -> "kill" [] OTHER -> "out"
        /\ changed' = (phase # "kill")
        /\ committed' = IF phase = "kill" THEN "done" ELSE committed
     \/ /\ (UNCHANGED <<file, app>> \/ Command(phase))
        /\ phase' = "out" /\ committed' = "failed" /\ UNCHANGED changed
  /\ UNCHANGED xml

Next ==
  \/ Starts \/ Writes \/ Load \/ Clear \/ Exit \/ Commit
  \/ \E k \in Keys : Remove(k) \/ \E v \in Values : SetPref(k, v)

Spec == Init /\ [][Next]_vars

-----------------------------------------------------------------------------
(* Properties *)

\* After a Commit no process of the application is left that knows the old preferences and would write them back; what the file holds
\* is what was committed, unless the application wrote it meanwhile.
CommitIsSeen == committed = "done" => ~outdated /\ (wrote \/ file = xml)
=============================================================================
