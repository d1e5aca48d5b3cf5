---- MODULE ServicesProofs ----
(***************************************************************************)
(* Theorems about what the tools do to a device and its host: an inductive *)
(* invariant of each part, for every value of the constants, and from them *)
(* the properties of the composition.  What a part that does not run keeps *)
(* is its initial state, so that its invariant holds as well.              *)
(***************************************************************************)
EXTENDS MC_Services, SequenceTheorems, FiniteSetTheorems, WellFoundedInduction, TLAPS

-----------------------------------------------------------------------------
(* The battery *)

Occurs(c, s) == \E i \in 1..Len(s) : s[i] = c

\* What occurs in two rows together, in what is left of a row, and in what is left of it when two commands are skipped.
LEMMA OccursInBoth ==
  ASSUME NEW T, NEW s \in Seq(T), NEW r \in Seq(T), NEW c
  PROVE  s \o r \in Seq(T) /\ (Occurs(c, s \o r) <=> Occurs(c, s) \/ Occurs(c, r))
<1>1. /\ s \o r \in Seq(T) /\ Len(s) \in Nat /\ Len(r) \in Nat /\ Len(s \o r) = Len(s) + Len(r)
      /\ \A i \in 1..Len(s) + Len(r) : (s \o r)[i] = IF i <= Len(s) THEN s[i] ELSE r[i - Len(s)]
  OBVIOUS
<1>2. ASSUME NEW i \in 1..Len(s), s[i] = c PROVE Occurs(c, s \o r)
  <2>1. i \in 1..Len(s) + Len(r) /\ (s \o r)[i] = c
    BY <1>1, <1>2
  <2>2. QED
    BY <1>1, <2>1 DEF Occurs
<1>3. ASSUME NEW i \in 1..Len(r), r[i] = c PROVE Occurs(c, s \o r)
  <2>1. Len(s) + i \in 1..Len(s) + Len(r) /\ (s \o r)[Len(s) + i] = c
    BY <1>1, <1>3
  <2>2. QED
    BY <1>1, <2>1 DEF Occurs
<1>4. ASSUME NEW i \in 1..Len(s \o r), (s \o r)[i] = c PROVE Occurs(c, s) \/ Occurs(c, r)
  <2>1. i <= Len(s) \/ i - Len(s) \in 1..Len(r)
    BY <1>1
  <2>2. QED
    BY <1>1, <1>4, <2>1 DEF Occurs
<1>5. QED
  BY <1>1, <1>2, <1>3, <1>4 DEF Occurs

\* What occurs in a row is its first command or occurs in the rest of it.
LEMMA OccursInRest ==
  ASSUME NEW T, NEW s \in Seq(T), s # <<>>, NEW c
  PROVE  /\ Tail(s) \in Seq(T) /\ Head(s) \in T
         /\ Occurs(c, s) <=> Head(s) = c \/ Occurs(c, Tail(s))
         /\ SubSeq(s, 3, Len(s)) \in Seq(T) /\ (Occurs(c, SubSeq(s, 3, Len(s))) => Occurs(c, s))
<1>1. /\ Tail(s) \in Seq(T) /\ Head(s) = s[1] /\ Len(s) \in Nat \ {0} /\ Len(Tail(s)) = Len(s) - 1
      /\ \A i \in 1..Len(s) - 1 : Tail(s)[i] = s[i + 1]
  OBVIOUS
<1>2. Occurs(c, s) => Head(s) = c \/ Occurs(c, Tail(s))
  <2>1. SUFFICES ASSUME NEW i \in 1..Len(s), s[i] = c, i # 1 PROVE Occurs(c, Tail(s))
    BY <1>1 DEF Occurs
  <2>2. i - 1 \in 1..Len(s) - 1 /\ Tail(s)[i - 1] = c
    BY <1>1, <2>1
  <2>3. QED
    BY <1>1, <2>2 DEF Occurs
<1>3. Head(s) = c \/ Occurs(c, Tail(s)) => Occurs(c, s)
  BY <1>1 DEF Occurs
<1>4. SubSeq(s, 3, Len(s)) \in Seq(T) /\ (Occurs(c, SubSeq(s, 3, Len(s))) => Occurs(c, s))
  BY <1>1 DEF Occurs
<1>5. QED
  BY <1>1, <1>2, <1>3, <1>4

\* What the rows of the operations are made of.
Enables == {<<"reset", "updates">>, <<"updates">>, <<>>}
StartsHardware == {<<"hwOn", "reset", "isOn">>, <<"reset", "isOn">>, <<"isOn">>, <<>>}

\* A row that stops the charging ends by seeing it stopped; one that resumes it resets the battery or switches the hardware on before
\* it looks.  Without commands for the hardware that is never touched.
BatteryInv ==
  /\ Battery!TypeOK
  /\ fresh \/ phase \in {"out", "in"} => todo = <<>>
  /\ phase \in {"out", "in"} => ~fresh
  /\ \A c \in {"hwOn", "hwOff"} : Occurs(c, todo) => profile
  /\ profile \/ hw
  /\ phase \in {"entering", "in"} => errors < MaxErrors
  /\ phase = "entering" /\ kind # "charge" =>
       /\ todo # <<>> => todo[Len(todo)] = "isOff"
       /\ ~fresh /\ todo = <<>> => ~Battery!GetCharging
  /\ phase = "leaving" /\ kind = "battery" =>
       /\ todo \in Enables
       /\ ~fresh /\ todo \in {<<"updates">>, <<>>} => ~stopped
  /\ phase = "leaving" /\ kind = "power" /\ ~failed =>
       /\ todo \in IF profile THEN StartsHardware ELSE Enables
       /\ Battery!GetCharging => hw /\ ~stopped
       /\ ~fresh /\ todo \in {<<"updates">>, <<>>} => Battery!GetCharging
  /\ Battery!Restored

\* The invariant of the battery holds at first: nothing is under way.
LEMMA BatteryInvInit == Battery!Init => BatteryInv
<1>1. SUFFICES ASSUME Battery!Init PROVE BatteryInv
  OBVIOUS
<1>2. todo = <<>> /\ todo \in Seq(Battery!Commands) /\ \A c : ~Occurs(c, todo)
  BY <1>1 DEF Battery!Init, Occurs
<1>3. 0 \in 0..Retries /\ 0 \in 0..MaxLevel /\ 0 \in 0..MaxErrors
  BY ServicesAssumption DEF Battery!BatteryAssumption
<1>4. Battery!TypeOK
  BY <1>1, <1>2, <1>3 DEF Battery!Init, Battery!TypeOK
<1>5. QED
  BY <1>1, <1>2, <1>4 DEF Battery!Init, BatteryInv, Battery!Restored, Battery!GetCharging

\* The last command of two rows together.
LEMMA LastOfBoth ==
  ASSUME NEW T, NEW s \in Seq(T), NEW r \in Seq(T), r # <<>>
  PROVE  s \o r # <<>> /\ (s \o r)[Len(s \o r)] = r[Len(r)]
<1>1. /\ Len(s) \in Nat /\ Len(r) \in Nat /\ Len(r) # 0 /\ Len(s \o r) = Len(s) + Len(r)
      /\ \A i \in 1..Len(s) + Len(r) : (s \o r)[i] = IF i <= Len(s) THEN s[i] ELSE r[i - Len(s)]
  OBVIOUS
<1>2. Len(s) + Len(r) \in 1..Len(s) + Len(r) /\ ~(Len(s) + Len(r) <= Len(s)) /\ (Len(s) + Len(r)) - Len(s) = Len(r)
  BY <1>1
<1>3. s \o r # <<>>
  BY <1>1
<1>4. QED
  BY <1>1, <1>2, <1>3

\* The rows, as they are chosen.
LEMMA BatteryRows ==
  ASSUME NEW k \in {"power", "battery", "charge"}, NEW ph \in {"entering", "leaving"}, BatteryInv
  PROVE  LET r == Battery!Script(k, ph) IN
           /\ r \in Seq(Battery!Commands)
           /\ \A c \in {"hwOn", "hwOff"} : Occurs(c, r) => profile
           /\ ph = "entering" /\ k # "charge" => /\ r # <<>> => r[Len(r)] = "isOff"
                                                 /\ r = <<>> => ~Battery!GetCharging
           /\ ph = "leaving" /\ k = "battery" => r = <<"reset", "updates">>
           /\ ph = "leaving" /\ k = "power" => /\ r \in IF profile THEN StartsHardware ELSE Enables
                                               /\ r # <<"updates">> /\ (r = <<>> => Battery!GetCharging)
<1> DEFINE disables == Battery!DisableBatteryUpdates
           stops == Battery!ClearPowerData \o Battery!HardwareSetCharging(FALSE)
           clears == Battery!ClearPowerData
           rest == <<"ac0", "usb0", "isOff">>
           off == Battery!HardwareSetCharging(FALSE)
<1>1. /\ clears \in Seq(Battery!Commands) /\ Len(clears) = 4 /\ \A c \in {"hwOn", "hwOff"} : ~Occurs(c, clears)
  <2>1. clears \in Seq(Battery!Commands) /\ Len(clears) = 4
    BY DEF Battery!ClearPowerData, Battery!Commands
  <2>2. \A i \in 1..4 : clears[i] \in {"usb1", "ac1", "stats", "reset"}
    BY DEF Battery!ClearPowerData
  <2>3. QED
    BY <2>1, <2>2 DEF Occurs
<1>2. /\ rest \in Seq(Battery!Commands) /\ Len(rest) = 3 /\ rest[3] = "isOff" /\ \A c \in {"hwOn", "hwOff"} : ~Occurs(c, rest)
  <2>1. rest \in Seq(Battery!Commands) /\ Len(rest) = 3
    BY DEF Battery!Commands
  <2>2. \A i \in 1..3 : rest[i] \in {"ac0", "usb0", "isOff"}
    OBVIOUS
  <2>3. QED
    BY <2>1, <2>2 DEF Occurs
<1>3. off \in Seq(Battery!Commands) /\ off # <<>> /\ Len(off) = 4 /\ off[4] = "isOff"
  BY DEF Battery!Commands, Battery!HardwareSetCharging
<1>4. disables = clears \o rest /\ stops = clears \o off
  BY DEF Battery!DisableBatteryUpdates
<1> HIDE DEF clears, rest, off, disables, stops
<1>5. /\ disables \in Seq(Battery!Commands) /\ disables # <<>> /\ disables[Len(disables)] = "isOff"
      /\ \A c \in {"hwOn", "hwOff"} : ~Occurs(c, disables)
  <2>1. clears \in Seq(Battery!Commands) /\ rest \in Seq(Battery!Commands) /\ rest # <<>>
    BY <1>1, <1>2
  <2>2. clears \o rest # <<>> /\ (clears \o rest)[Len(clears \o rest)] = rest[Len(rest)]
    BY <2>1, LastOfBoth
  <2>3. clears \o rest \in Seq(Battery!Commands) /\ \A c : Occurs(c, clears \o rest) <=> Occurs(c, clears) \/ Occurs(c, rest)
    BY <2>1, OccursInBoth
  <2>4. QED
    BY <1>1, <1>2, <1>4, <2>2, <2>3
<1>6. stops \in Seq(Battery!Commands) /\ stops # <<>> /\ stops[Len(stops)] = "isOff"
  <2>1. clears \in Seq(Battery!Commands) /\ off \in Seq(Battery!Commands) /\ off # <<>>
    BY <1>1, <1>3
  <2>2. clears \o off # <<>> /\ (clears \o off)[Len(clears \o off)] = off[Len(off)]
    BY <2>1, LastOfBoth
  <2>3. clears \o off \in Seq(Battery!Commands)
    BY <2>1, OccursInBoth
  <2>4. QED
    BY <1>3, <1>4, <2>2, <2>3
<1>7. /\ <<"reset", "updates">> \in Seq(Battery!Commands) /\ \A c \in {"hwOn", "hwOff"} : ~Occurs(c, <<"reset", "updates">>)
      /\ <<"reset", "updates">> \in Enables /\ <<"reset", "updates">> # <<"updates">> /\ <<"reset", "updates">> # <<>>
  BY DEF Battery!Commands, Occurs, Enables
<1>8. /\ <<"hwOn", "reset", "isOn">> \in Seq(Battery!Commands) /\ <<"hwOn", "reset", "isOn">> \in StartsHardware
      /\ <<"hwOn", "reset", "isOn">> # <<"updates">> /\ <<"hwOn", "reset", "isOn">> # <<>>
  BY DEF Battery!Commands, StartsHardware
<1>9. /\ <<>> \in Seq(Battery!Commands) /\ (\A c : ~Occurs(c, <<>>)) /\ <<>> \in Enables /\ <<>> \in StartsHardware /\ <<>> # <<"updates">>
  BY DEF Occurs, Enables, StartsHardware
<1>10. /\ Battery!SetCharging(FALSE) = IF ~Battery!GetCharging THEN <<>> ELSE IF profile THEN stops ELSE disables
       /\ Battery!SetCharging(TRUE) = IF Battery!GetCharging THEN <<>> ELSE IF profile THEN <<"hwOn", "reset", "isOn">> ELSE <<"reset", "updates">>
  <2>1. Battery!GetCharging \in BOOLEAN /\ <<>> \o <<"hwOn", "reset", "isOn">> = <<"hwOn", "reset", "isOn">>
    BY DEF Battery!GetCharging, BatteryInv, Battery!TypeOK
  <2>2. QED
    BY <2>1 DEF Battery!SetCharging, Battery!HardwareSetCharging, Battery!EnableBatteryUpdates, stops, disables, off
<1>11. Battery!Script(k, ph) = IF k = "battery" THEN IF ph = "entering" THEN disables ELSE <<"reset", "updates">>
                               ELSE IF ph = "leaving" \/ k = "charge" THEN Battery!SetCharging(TRUE) ELSE Battery!SetCharging(FALSE)
  BY DEF Battery!Script, Battery!EnableBatteryUpdates, disables
<1>12. Battery!GetCharging \in BOOLEAN /\ profile \in BOOLEAN
  BY DEF Battery!GetCharging, BatteryInv, Battery!TypeOK
<1>13. CASE k = "battery"
  BY <1>5, <1>7, <1>11, <1>13
<1>14. CASE k # "battery" /\ (ph = "leaving" \/ k = "charge")
  BY <1>7, <1>8, <1>9, <1>10, <1>11, <1>12, <1>14
<1>15. CASE k # "battery" /\ ~(ph = "leaving" \/ k = "charge")
  BY <1>5, <1>6, <1>9, <1>10, <1>11, <1>12, <1>15
<1>16. QED
  BY <1>13, <1>14, <1>15

\* A try of a context starts its row from the beginning: it can owe no more than its script says.
LEMMA TryKeeps ==
  ASSUME BatteryInv, Battery!Try
  PROVE  BatteryInv'
<1>1. /\ UNCHANGED <<profile, kind, phase, tries, failed, hw, stopped, ac, usb, level, last, errors>>
      /\ fresh /\ fresh' = FALSE /\ todo' = Battery!Script(kind, phase)
      /\ kind \in {"power", "battery", "charge"} /\ phase \in {"entering", "leaving"}
  BY DEF Battery!Try, Battery!shown, Battery!charge, BatteryInv, Battery!TypeOK
<1>2. PICK r : r = Battery!Script(kind, phase)
  OBVIOUS
<1>3. /\ r \in Seq(Battery!Commands)
      /\ \A c \in {"hwOn", "hwOff"} : Occurs(c, r) => profile
      /\ phase = "entering" /\ kind # "charge" => /\ r # <<>> => r[Len(r)] = "isOff"
                                                  /\ r = <<>> => ~Battery!GetCharging
      /\ phase = "leaving" /\ kind = "battery" => r = <<"reset", "updates">>
      /\ phase = "leaving" /\ kind = "power" => /\ r \in IF profile THEN StartsHardware ELSE Enables
                                                /\ r # <<"updates">> /\ (r = <<>> => Battery!GetCharging)
  BY <1>1, <1>2, BatteryRows
<1>4. Battery!TypeOK'
  BY <1>1, <1>2, <1>3 DEF BatteryInv, Battery!TypeOK
<1>5. Battery!GetCharging' = Battery!GetCharging
  BY <1>1 DEF Battery!GetCharging
<1>6. /\ <<"reset", "updates">> \in Enables /\ <<"reset", "updates">> # <<"updates">> /\ <<"reset", "updates">> # <<>>
  BY DEF Enables
<1>7. Battery!Restored'
  BY <1>1, <1>5 DEF BatteryInv, Battery!Restored
<1>8. QED
  BY <1>1, <1>2, <1>3, <1>4, <1>5, <1>6, <1>7 DEF BatteryInv

\* What the device does with a command of the rows.
LEMMA ObeysKeeps ==
  ASSUME BatteryInv, NEW c \in Battery!Commands, Battery!Obeys(c), c \in {"hwOn", "hwOff"} => profile
  PROVE  /\ hw' \in BOOLEAN /\ stopped' \in BOOLEAN /\ ac' \in BOOLEAN /\ usb' \in BOOLEAN
         /\ profile \/ hw'
         /\ c \in {"isOff", "isOn", "updates"} => Battery!GetCharging' = Battery!GetCharging /\ stopped' = stopped /\ hw' = hw
         /\ c = "reset" => ~stopped' /\ hw' = hw /\ Battery!GetCharging' = hw
         /\ c = "hwOn" => hw' /\ (Battery!GetCharging' => ~stopped' \/ Battery!GetCharging) /\ (stopped' => stopped)
<1>1. profile \in BOOLEAN /\ hw \in BOOLEAN /\ stopped \in BOOLEAN /\ ac \in BOOLEAN /\ usb \in BOOLEAN /\ (profile \/ hw)
  BY DEF BatteryInv, Battery!TypeOK
<1>2. hw' = IF c \in {"hwOn", "hwOff"} THEN c = "hwOn" ELSE hw
  BY DEF Battery!Obeys
<1>3. CASE c \in {"usb1", "ac1", "usb0", "ac0"}
  BY <1>1, <1>2, <1>3 DEF Battery!Obeys, Battery!Show
<1>4. CASE c = "reset"
  BY <1>1, <1>2, <1>4 DEF Battery!Obeys, Battery!Show, Battery!GetCharging
<1>5. CASE c \in {"hwOn", "hwOff"} /\ ~stopped
  BY <1>1, <1>2, <1>5 DEF Battery!Obeys, Battery!Show, Battery!GetCharging
<1>6. CASE c \in {"stats", "isOff", "isOn", "updates"} \/ (c \in {"hwOn", "hwOff"} /\ stopped)
  BY <1>1, <1>2, <1>6 DEF Battery!Obeys, Battery!shown, Battery!GetCharging
<1>7. QED
  BY <1>1, <1>3, <1>4, <1>5, <1>6 DEF Battery!Commands

\* The head and the rest of a row.
LEMMA RestOfRow ==
  ASSUME BatteryInv, todo # <<>>
  PROVE  /\ Head(todo) \in Battery!Commands /\ Tail(todo) \in Seq(Battery!Commands)
         /\ Head(todo) \in {"hwOn", "hwOff"} => profile
         /\ \A c \in {"hwOn", "hwOff"} : Occurs(c, Tail(todo)) => profile
         /\ Tail(todo) # <<>> => Tail(todo)[Len(Tail(todo))] = todo[Len(todo)]
         /\ Tail(todo) = <<>> => Head(todo) = todo[Len(todo)]
         /\ phase \in {"entering", "leaving"} /\ ~fresh
<1>1. todo \in Seq(Battery!Commands) /\ phase \in {"entering", "leaving"} /\ ~fresh
  BY DEF BatteryInv, Battery!TypeOK
<1>2. /\ Head(todo) \in Battery!Commands /\ Tail(todo) \in Seq(Battery!Commands)
      /\ \A c : Occurs(c, todo) <=> Head(todo) = c \/ Occurs(c, Tail(todo))
  BY <1>1, OccursInRest
<1>3. /\ Len(todo) \in Nat \ {0} /\ Len(Tail(todo)) = Len(todo) - 1 /\ Head(todo) = todo[1]
      /\ \A i \in 1..Len(todo) - 1 : Tail(todo)[i] = todo[i + 1]
  BY <1>1
<1>4. (Tail(todo) # <<>> => Len(Tail(todo)) # 0) /\ (Tail(todo) = <<>> => Len(Tail(todo)) = 0)
  <2>1. \A s \in Seq(Battery!Commands) : s # <<>> => Len(s) # 0
    OBVIOUS
  <2>2. Len(<<>>) = 0
    OBVIOUS
  <2>3. QED
    BY <1>2, <2>1, <2>2
<1>5. /\ Tail(todo) # <<>> => Tail(todo)[Len(Tail(todo))] = todo[Len(todo)]
      /\ Tail(todo) = <<>> => Head(todo) = todo[Len(todo)]
  BY <1>3, <1>4
<1>6. QED
  BY <1>1, <1>2, <1>5 DEF BatteryInv

\* The rows that resume the charging, command by command.
LEMMA RestOfResuming ==
  /\ \A r \in Enables : r # <<>> => /\ Head(r) \in {"reset", "updates"} /\ Tail(r) \in Enables
                                    /\ Tail(r) = <<"updates">> => Head(r) = "reset"
                                    /\ Tail(r) = <<>> => Head(r) = "updates" /\ r = <<"updates">>
  /\ \A r \in StartsHardware : r # <<>> => /\ Head(r) \in {"hwOn", "reset", "isOn"} /\ Tail(r) \in StartsHardware
                                           /\ Tail(r) # <<"updates">>
                                           /\ Tail(r) = <<>> => Head(r) = "isOn"
<1>1. /\ Head(<<"reset", "updates">>) = "reset" /\ Tail(<<"reset", "updates">>) = <<"updates">>
      /\ Head(<<"updates">>) = "updates" /\ Tail(<<"updates">>) = <<>>
      /\ Head(<<"hwOn", "reset", "isOn">>) = "hwOn" /\ Tail(<<"hwOn", "reset", "isOn">>) = <<"reset", "isOn">>
      /\ Head(<<"reset", "isOn">>) = "reset" /\ Tail(<<"reset", "isOn">>) = <<"isOn">>
      /\ Head(<<"isOn">>) = "isOn" /\ Tail(<<"isOn">>) = <<>>
  OBVIOUS
<1>2. <<"updates">> # <<>> /\ <<"isOn">> # <<>> /\ <<"isOn">> # <<"updates">> /\ <<"reset", "isOn">> # <<>> /\ <<"reset", "isOn">> # <<"updates">>
  OBVIOUS
<1>3. QED
  BY <1>1, <1>2 DEF Enables, StartsHardware

\* A command that the device obeys leaves in the row what the state after it still needs.
LEMMA CommandKeeps ==
  ASSUME BatteryInv, Battery!Command
  PROVE  BatteryInv'
<1>1. /\ UNCHANGED <<profile, kind, phase, fresh, tries, failed, level, last, errors>>
      /\ todo # <<>> /\ todo' = Tail(todo) /\ Battery!Met(Head(todo)) /\ Battery!Obeys(Head(todo))
  BY DEF Battery!Command, Battery!charge
<1>2. PICK c : c = Head(todo)
  OBVIOUS
<1>3. /\ c \in Battery!Commands /\ Tail(todo) \in Seq(Battery!Commands) /\ (c \in {"hwOn", "hwOff"} => profile)
      /\ \A d \in {"hwOn", "hwOff"} : Occurs(d, Tail(todo)) => profile
      /\ Tail(todo) # <<>> => Tail(todo)[Len(Tail(todo))] = todo[Len(todo)]
      /\ Tail(todo) = <<>> => c = todo[Len(todo)]
      /\ phase \in {"entering", "leaving"} /\ ~fresh
  BY <1>1, <1>2, RestOfRow
<1>4. /\ hw' \in BOOLEAN /\ stopped' \in BOOLEAN /\ ac' \in BOOLEAN /\ usb' \in BOOLEAN
      /\ profile \/ hw'
      /\ c \in {"isOff", "isOn", "updates"} => Battery!GetCharging' = Battery!GetCharging /\ stopped' = stopped /\ hw' = hw
      /\ c = "reset" => ~stopped' /\ hw' = hw /\ Battery!GetCharging' = hw
      /\ c = "hwOn" => hw' /\ (Battery!GetCharging' => ~stopped' \/ Battery!GetCharging) /\ (stopped' => stopped)
  BY <1>1, <1>2, <1>3, ObeysKeeps
<1>5. Battery!TypeOK'
  BY <1>1, <1>3, <1>4 DEF BatteryInv, Battery!TypeOK
<1>6. (c = "isOn" => Battery!GetCharging) /\ (c = "isOff" => ~Battery!GetCharging)
  BY <1>1, <1>2 DEF Battery!Met
<1>7. Battery!GetCharging \in BOOLEAN /\ Battery!GetCharging' \in BOOLEAN /\ hw \in BOOLEAN /\ stopped \in BOOLEAN /\ profile \in BOOLEAN
  BY <1>5 DEF BatteryInv, Battery!TypeOK, Battery!GetCharging
<1>8. phase = "entering" /\ kind # "charge" =>
        /\ todo' # <<>> => todo'[Len(todo')] = "isOff"
        /\ todo' = <<>> => ~Battery!GetCharging'
  BY <1>1, <1>3, <1>4, <1>6, <1>7 DEF BatteryInv
<1>9. phase = "leaving" /\ kind = "battery" =>
        /\ todo' \in Enables
        /\ todo' \in {<<"updates">>, <<>>} => ~stopped'
  BY <1>1, <1>2, <1>3, <1>4, RestOfResuming DEF BatteryInv
<1>10. phase = "leaving" /\ kind = "power" /\ ~failed =>
         /\ todo' \in IF profile THEN StartsHardware ELSE Enables
         /\ Battery!GetCharging' => hw' /\ ~stopped'
         /\ todo' \in {<<"updates">>, <<>>} => Battery!GetCharging'
  <2>1. SUFFICES ASSUME phase = "leaving" /\ kind = "power" /\ ~failed
                 PROVE  /\ todo' \in IF profile THEN StartsHardware ELSE Enables
                        /\ Battery!GetCharging' => hw' /\ ~stopped'
                        /\ todo' \in {<<"updates">>, <<>>} => Battery!GetCharging'
    OBVIOUS
  <2>2. /\ todo \in IF profile THEN StartsHardware ELSE Enables
        /\ Battery!GetCharging => hw /\ ~stopped
        /\ todo = <<"updates">> => Battery!GetCharging
    BY <1>3, <2>1 DEF BatteryInv
  <2>3. CASE profile
    BY <1>1, <1>2, <1>4, <1>6, <1>7, <2>2, <2>3, RestOfResuming
  <2>4. CASE ~profile
    BY <1>1, <1>2, <1>4, <1>6, <1>7, <2>2, <2>4, RestOfResuming
  <2>5. QED
    BY <2>3, <2>4, <1>7
<1>11. Battery!Restored'
  BY <1>1, <1>3 DEF Battery!Restored
<1>12. QED
  BY <1>1, <1>3, <1>4, <1>5, <1>8, <1>9, <1>10, <1>11 DEF BatteryInv

\* A failed command drops the rest of its row; only its script's next try, or giving up, comes after it.
LEMMA FailsKeeps ==
  ASSUME BatteryInv, Battery!Fails
  PROVE  BatteryInv'
<1>1. /\ UNCHANGED <<profile, kind, level, last, errors>>
      /\ todo # <<>> /\ todo' = <<>> /\ \A c : ~Occurs(c, todo')
      /\ <<>> \in Enables /\ <<>> \in StartsHardware /\ <<>> \in Seq(Battery!Commands)
  BY DEF Battery!Fails, Battery!charge, Occurs, Enables, StartsHardware
<1>2. PICK c : c = Head(todo)
  OBVIOUS
<1>3. /\ c \in Battery!Commands /\ (c \in {"hwOn", "hwOff"} => profile)
      /\ phase \in {"entering", "leaving"} /\ ~fresh
  BY <1>1, <1>2, RestOfRow
<1>4. UNCHANGED <<hw, stopped, ac, usb>> \/ Battery!Obeys(c) \/ (c = "stats" /\ Battery!Obeys("reset"))
  BY <1>2 DEF Battery!Fails, Battery!FailsObeyed, Battery!shown
<1>5. /\ hw' \in BOOLEAN /\ stopped' \in BOOLEAN /\ ac' \in BOOLEAN /\ usb' \in BOOLEAN
      /\ profile \/ hw'
  <2>1. CASE UNCHANGED <<hw, stopped, ac, usb>>
    BY <2>1 DEF BatteryInv, Battery!TypeOK
  <2>2. CASE Battery!Obeys(c)
    BY <1>3, <2>2, ObeysKeeps
  <2>3. CASE Battery!Obeys("reset")
    <3>1. "reset" \in Battery!Commands
      BY DEF Battery!Commands
    <3>2. QED
      BY <2>3, <3>1, ObeysKeeps
  <2>4. QED
    BY <1>4, <2>1, <2>2, <2>3
<1>6. ASSUME phase = "leaving", kind = "power", ~failed PROVE Battery!GetCharging' => hw' /\ ~stopped'
  <2>1. (Battery!GetCharging => hw /\ ~stopped) /\ c \in {"hwOn", "isOn", "reset", "updates"}
    BY <1>1, <1>2, <1>6, RestOfResuming DEF BatteryInv
  <2>2. Battery!GetCharging \in BOOLEAN /\ hw \in BOOLEAN /\ stopped \in BOOLEAN
    BY DEF BatteryInv, Battery!TypeOK, Battery!GetCharging
  <2>3. CASE UNCHANGED <<hw, stopped, ac, usb>>
    BY <2>1, <2>3 DEF Battery!GetCharging
  <2>4. CASE Battery!Obeys(c)
    BY <1>3, <1>5, <2>1, <2>2, <2>4, ObeysKeeps
  <2>5. QED
    BY <1>4, <2>1, <2>3, <2>4
<1>7. CASE tries < Retries
  <2>1. fresh' = TRUE /\ tries' = tries + 1 /\ UNCHANGED <<kind, phase, failed>>
    BY <1>7 DEF Battery!Fails
  <2>2. tries' \in 0..Retries
    BY <1>7, <2>1, ServicesAssumption DEF BatteryInv, Battery!TypeOK, Battery!BatteryAssumption
  <2>3. Battery!TypeOK'
    BY <1>1, <1>5, <2>1, <2>2 DEF BatteryInv, Battery!TypeOK
  <2>4. Battery!Restored'
    BY <1>3, <2>1 DEF Battery!Restored
  <2>5. QED
    BY <1>1, <1>3, <1>5, <1>6, <2>1, <2>3, <2>4 DEF BatteryInv
<1>8. CASE ~(tries < Retries)
  <2>1. /\ failed' = TRUE /\ kind' = kind
        /\ \/ phase = "entering" /\ kind # "charge" /\ phase' = "leaving" /\ fresh' = TRUE /\ tries' = 0
           \/ phase' = "out" /\ UNCHANGED <<fresh, tries>>
    BY <1>8 DEF Battery!Fails
  <2>2. 0 \in 0..Retries
    BY ServicesAssumption DEF Battery!BatteryAssumption
  <2>3. Battery!TypeOK'
    BY <1>1, <1>5, <2>1, <2>2 DEF BatteryInv, Battery!TypeOK
  <2>4. Battery!Restored'
    BY <2>1 DEF Battery!Restored
  <2>5. QED
    BY <1>1, <1>3, <1>5, <2>1, <2>3, <2>4 DEF BatteryInv
<1>9. QED
  BY <1>7, <1>8

\* Every step of the battery keeps its invariant.
LEMMA BatteryInvStep == BatteryInv /\ [Battery!Next]_batteryVars => BatteryInv'
<1> DEFINE untouched == UNCHANGED <<profile, hw, stopped, ac, usb>>
           typed == /\ kind' \in {"power", "battery", "charge"} /\ phase' \in {"out", "entering", "in", "leaving"}
                    /\ fresh' \in BOOLEAN /\ tries' \in 0..Retries /\ failed' \in BOOLEAN
                    /\ level' \in 0..MaxLevel /\ last' \in 0..MaxLevel /\ errors' \in 0..MaxErrors
<1>1. ASSUME BatteryInv
      PROVE  /\ profile \in BOOLEAN /\ kind \in {"power", "battery", "charge"} /\ phase \in {"out", "entering", "in", "leaving"}
             /\ fresh \in BOOLEAN /\ todo \in Seq(Battery!Commands) /\ tries \in 0..Retries /\ failed \in BOOLEAN
             /\ hw \in BOOLEAN /\ stopped \in BOOLEAN /\ ac \in BOOLEAN /\ usb \in BOOLEAN
             /\ level \in 0..MaxLevel /\ last \in 0..MaxLevel /\ errors \in 0..MaxErrors
             /\ 0 \in 0..Retries /\ 0 \in 0..MaxLevel /\ 0 \in 0..MaxErrors
  BY <1>1, ServicesAssumption DEF BatteryInv, Battery!TypeOK, Battery!BatteryAssumption
<1>2. ASSUME BatteryInv, todo' = todo, untouched, typed PROVE Battery!TypeOK' /\ Battery!GetCharging' = Battery!GetCharging
  BY <1>1, <1>2 DEF Battery!TypeOK, Battery!GetCharging
<1>3. ASSUME BatteryInv, NEW k \in {"power", "battery", "charge"}, Battery!Enter(k) PROVE BatteryInv'
  <2>1. /\ untouched /\ todo' = todo /\ todo = <<>> /\ phase = "out" /\ phase' = "entering" /\ kind' = k /\ fresh' = TRUE /\ tries' = 0
        /\ failed' = FALSE /\ last' = 0 /\ errors' = 0 /\ level' = level
    BY <1>3 DEF Battery!Enter, Battery!Begin, Battery!shown, BatteryInv
  <2>2. Battery!TypeOK' /\ Battery!GetCharging' = Battery!GetCharging
    BY <1>1, <1>2, <1>3, <2>1
  <2>3. Battery!Restored'
    BY <2>1 DEF Battery!Restored
  <2>4. errors' < MaxErrors
    BY <2>1, ServicesAssumption DEF Battery!BatteryAssumption
  <2>5. QED
    BY <1>3, <2>1, <2>2, <2>3, <2>4 DEF BatteryInv
<1>4. ASSUME BatteryInv, Battery!Leave PROVE BatteryInv'
  <2>1. /\ untouched /\ todo' = todo /\ todo = <<>> /\ phase = "in" /\ kind # "charge" /\ phase' = "leaving" /\ kind' = kind
        /\ fresh' = TRUE /\ tries' = 0 /\ UNCHANGED <<failed, level, last, errors>>
    BY <1>4 DEF Battery!Leave, Battery!Begin, Battery!shown, Battery!charge, BatteryInv
  <2>2. Battery!TypeOK' /\ Battery!GetCharging' = Battery!GetCharging
    BY <1>1, <1>2, <1>4, <2>1
  <2>3. Battery!Restored' /\ ~Battery!GetCharging /\ <<>> \in Enables /\ <<>> \in StartsHardware
    BY <1>4, <2>1 DEF BatteryInv, Battery!Restored, Enables, StartsHardware
  <2>4. QED
    BY <1>4, <2>1, <2>2, <2>3 DEF BatteryInv
<1>5. ASSUME BatteryInv, Battery!Entered PROVE BatteryInv'
  <2>1. /\ untouched /\ todo' = todo /\ todo = <<>> /\ phase = "entering" /\ ~fresh /\ phase' = "in"
        /\ UNCHANGED <<kind, fresh, tries, failed, level, last, errors>>
    BY <1>5 DEF Battery!Entered, Battery!shown, Battery!charge
  <2>2. Battery!TypeOK' /\ Battery!GetCharging' = Battery!GetCharging
    BY <1>1, <1>2, <1>5, <2>1
  <2>3. Battery!Restored'
    BY <1>5, <2>1, <2>2 DEF BatteryInv, Battery!Restored
  <2>4. QED
    BY <1>5, <2>1, <2>2, <2>3 DEF BatteryInv
<1>6. ASSUME BatteryInv, Battery!Left PROVE BatteryInv'
  <2>1. /\ untouched /\ todo' = todo /\ todo = <<>> /\ phase = "leaving" /\ ~fresh /\ phase' = "out"
        /\ UNCHANGED <<kind, fresh, tries, failed, level, last, errors>>
    BY <1>6 DEF Battery!Left, Battery!shown, Battery!charge
  <2>2. Battery!TypeOK' /\ Battery!GetCharging' = Battery!GetCharging
    BY <1>1, <1>2, <1>6, <2>1
  <2>3. Battery!Restored'
    BY <1>6, <2>1, <2>2 DEF BatteryInv, Battery!Restored
  <2>4. QED
    BY <1>6, <2>1, <2>2, <2>3 DEF BatteryInv
<1>7. ASSUME BatteryInv, Battery!Poll(MaxLevel) PROVE BatteryInv'
  <2>1. /\ untouched /\ todo' = todo /\ todo = <<>> /\ phase = "in" /\ kind = "charge" /\ phase' \in {"in", "out"}
        /\ UNCHANGED <<kind, fresh, tries, level>> /\ ~fresh
        /\ failed' \in BOOLEAN /\ (phase' = "in" => ~(errors' >= MaxErrors))
    BY <1>7 DEF Battery!Poll, Battery!shown, BatteryInv
  <2>2. last' \in 0..MaxLevel /\ errors' \in 0..MaxErrors
    <3>1. last' \in {last, level} /\ errors' \in {0, errors + 1}
      BY <1>7 DEF Battery!Poll
    <3>2. errors < MaxErrors
      BY <1>7, <2>1 DEF BatteryInv
    <3>3. QED
      BY <1>1, <1>7, <3>1, <3>2, ServicesAssumption DEF Battery!BatteryAssumption
  <2>3. Battery!TypeOK' /\ Battery!GetCharging' = Battery!GetCharging
    BY <1>1, <1>2, <1>7, <2>1, <2>2
  <2>4. Battery!Restored'
    BY <2>1 DEF Battery!Restored
  <2>5. QED
    <3>1. phase' = "in" => errors' < MaxErrors
      BY <2>1, <2>2, ServicesAssumption DEF Battery!BatteryAssumption
    <3>2. QED
      BY <1>7, <2>1, <2>3, <2>4, <3>1 DEF BatteryInv
<1>8. ASSUME BatteryInv, Battery!LevelChanges PROVE BatteryInv'
  <2>1. /\ untouched /\ todo' = todo /\ todo = <<>> /\ phase = "in" /\ kind = "charge"
        /\ UNCHANGED <<kind, phase, fresh, tries, failed, last, errors>> /\ level' \in 0..MaxLevel
    BY <1>8 DEF Battery!LevelChanges, Battery!shown, BatteryInv
  <2>2. Battery!TypeOK' /\ Battery!GetCharging' = Battery!GetCharging
    BY <1>1, <1>2, <1>8, <2>1
  <2>3. Battery!Restored'
    BY <2>1 DEF Battery!Restored
  <2>4. QED
    BY <1>8, <2>1, <2>2, <2>3 DEF BatteryInv
<1>9. ASSUME BatteryInv, UNCHANGED batteryVars PROVE BatteryInv'
  <2>1. untouched /\ todo' = todo /\ UNCHANGED <<kind, phase, fresh, tries, failed, level, last, errors>>
    BY <1>9 DEF batteryVars
  <2>2. Battery!TypeOK' /\ Battery!GetCharging' = Battery!GetCharging
    BY <1>1, <1>2, <1>9, <2>1
  <2>3. Battery!Restored'
    BY <1>9, <2>1, <2>2 DEF BatteryInv, Battery!Restored
  <2>4. QED
    BY <1>9, <2>1, <2>2, <2>3 DEF BatteryInv
<1>10. QED
  BY <1>3, <1>4, <1>5, <1>6, <1>7, <1>8, <1>9, TryKeeps, CommandKeeps, FailsKeeps DEF Battery!Next

\* The invariant of the battery has the type invariant and the restored state as parts.
LEMMA BatteryInvImplies == BatteryInv => Battery!TypeOK /\ Battery!Restored
BY DEF BatteryInv

-----------------------------------------------------------------------------
(* Booting and flashing *)

Words == {"device", "sd", "pm", "up", "reboot", "clear", "offline", "forget", "root", "rooted", "bootloader", "fastboot",
          "chargeOff", "chargeOn", "flash", "again", "restart"}
Waits == {"device", "sd", "pm", "up"}
AtRestart == 8 + Len(images)

\* A Reboot that is past its reboot command sees a boot of its own: the device does not come up in the bootloader without one.
RebootInv ==
  /\ before <= boots
  /\ op = "Reboot" /\ pos >= 2 => before < boots \/ (stage # "fastboot" /\ ~next)
  /\ op = "Reboot" /\ pos >= 4 => before < boots \/ stage = "off" \/ "hiccup" \in trouble
  /\ op = "Reboot" /\ result = "done" => before < boots \/ "hiccup" \in trouble

\* Without trouble a device that still answers before it restarts is never left to itself, and what is known of su was forgotten by then.
RootInv ==
  /\ trouble = {} /\ stage = "dying" => (op = "Reboot" /\ pos \in 1..3) \/ (Boot!Flashing /\ pos \in 1..5)
  /\ trouble = {} /\ needsSu = "no" => (rooted /\ stage \in Boot!Up) \/ (op = "Reboot" /\ pos \in 1..2)
  /\ Boot!Flashing /\ pos >= 2 => needsSu # "no"

\* Outside the context of the flashing the device is out of the bootloader; the setting is back before the restart.
FlashInv ==
  "raised" \notin trouble =>
    /\ ~Boot!Flashing \/ pos = 0 \/ pos > AtRestart => offModeCharge /\ stage # "fastboot" /\ ~next
    /\ Boot!Flashing /\ (pos <= 5 \/ pos = AtRestart) => offModeCharge

\* An operation under way has a command at its place.
PlaceInv ==
  /\ pos > 0 => op # "none"
  /\ pos > 1 => pos <= Len(Boot!Row)

BootInv == Boot!TypeOK /\ PlaceInv /\ RebootInv /\ RootInv /\ FlashInv

\* Two rows together.
Joins(t, s, r) == t = s \o r

\* Two rows of steps one after the other, command by command.
LEMMA RowsJoin ==
  ASSUME NEW s \in Seq(Words), NEW r \in Seq(Words), NEW t, Joins(t, s, r)
  PROVE  /\ t \in Seq(Words) /\ Len(t) = Len(s) + Len(r)
         /\ \A i \in 1..(Len(s) + Len(r)) : t[i] = IF i <= Len(s) THEN s[i] ELSE r[i - Len(s)]
BY ConcatProperties DEF Joins

\* The row of a flashing.
LEMMA RowOfFlash ==
  ASSUME images \in Seq({"flash", "again", "fastboot"}), Boot!Flashing
  PROVE  /\ Boot!Row \in Seq(Words) /\ Len(images) \in Nat
         /\ Len(Boot!Row) = AtRestart + (IF op = "FlashAndWipe" THEN 0 ELSE 4)
         /\ Boot!Row[1] = "forget" /\ Boot!Row[2] = "root" /\ Boot!Row[3] = "rooted" /\ Boot!Row[4] = "bootloader" /\ Boot!Row[5] = "fastboot"
         /\ Boot!Row[6] = "chargeOff"
         /\ \A i \in 7..(6 + Len(images)) : Boot!Row[i] \in {"flash", "again", "fastboot"}
         /\ Boot!Row[7 + Len(images)] = "chargeOn" /\ Boot!Row[AtRestart] = "restart"
         /\ \A i \in (AtRestart + 1)..Len(Boot!Row) : Boot!Row[i] \in Waits
         /\ Len(Boot!EnableFastbootMode) = 5 /\ Len(Boot!Row) - Len(Boot!Leave) = 6 + Len(images)
<1> DEFINE a == Boot!EnableRoot
           b == <<"bootloader", "fastboot">>
           c == <<"chargeOff">>
           d == <<"chargeOn", "restart">>
           e == IF op = "FlashAndWipe" THEN <<>> ELSE Boot!WaitUntilFullyBooted
           n == Len(images)
           ab == a \o b
           abc == ab \o c
           abci == abc \o images
           de == d \o e
<1>1. a \in Seq(Words) /\ Len(a) = 3 /\ a[1] = "forget" /\ a[2] = "root" /\ a[3] = "rooted"
  BY DEF Boot!EnableRoot, Words
<1>2. b \in Seq(Words) /\ Len(b) = 2 /\ b[1] = "bootloader" /\ b[2] = "fastboot"
  BY DEF Words
<1>3. c \in Seq(Words) /\ Len(c) = 1 /\ c[1] = "chargeOff"
  BY DEF Words
<1>4. d \in Seq(Words) /\ Len(d) = 2 /\ d[1] = "chargeOn" /\ d[2] = "restart"
  BY DEF Words
<1>5. e \in Seq(Words) /\ Len(e) = (IF op = "FlashAndWipe" THEN 0 ELSE 4) /\ \A i \in 1..Len(e) : e[i] \in Waits
  <2>1. Boot!WaitUntilFullyBooted \in Seq(Words) /\ Len(Boot!WaitUntilFullyBooted) = 4 /\ \A i \in 1..4 : Boot!WaitUntilFullyBooted[i] \in Waits
    BY DEF Boot!WaitUntilFullyBooted, Waits, Words
  <2>2. <<>> \in Seq(Words) /\ Len(<<>>) = 0
    BY EmptySeq
  <2>3. CASE op = "FlashAndWipe"
    BY <2>2, <2>3
  <2>4. CASE op # "FlashAndWipe"
    BY <2>1, <2>4
  <2>5. QED
    BY <2>3, <2>4
<1>6. images \in Seq(Words) /\ n \in Nat /\ \A i \in 1..n : images[i] \in {"flash", "again", "fastboot"}
  <2>1. {"flash", "again", "fastboot"} \subseteq Words
    BY DEF Words
  <2>2. QED
    <3>1. images \in Seq(Words)
      BY <2>1, SeqMonotonic
    <3>2. Len(images) \in Nat /\ \A i \in 1..Len(images) : images[i] \in {"flash", "again", "fastboot"}
      BY ElementOfSeq, LenProperties
    <3>3. QED
      BY <3>1, <3>2
<1>7. Boot!Row = abci \o de /\ Boot!EnableFastbootMode = ab /\ Boot!Leave = de
  BY DEF Boot!Flashing, Boot!Row, Boot!EnableFastbootMode, Boot!Leave, Boot!LeaveFastboot
<1>j. Joins(ab, a, b) /\ Joins(abc, ab, c) /\ Joins(abci, abc, images) /\ Joins(de, d, e) /\ Joins(Boot!Row, abci, de)
  BY <1>7 DEF Joins
<1> HIDE DEF a, b, c, d, e, n, ab, abc, abci, de
<1>8. /\ ab \in Seq(Words) /\ Len(ab) = 3 + 2
      /\ \A i \in 1..(3 + 2) : ab[i] = IF i <= 3 THEN a[i] ELSE b[i - 3]
  <2>1. Len(a) = 3 /\ Len(b) = 2 /\ a \in Seq(Words) /\ b \in Seq(Words)
    BY <1>1, <1>2
  <2>0. Joins(ab, a, b)
    BY <1>j
  <2>2. /\ ab \in Seq(Words) /\ Len(ab) = Len(a) + Len(b)
        /\ \A i \in 1..(Len(a) + Len(b)) : ab[i] = IF i <= Len(a) THEN a[i] ELSE b[i - Len(a)]
    BY <2>0, <2>1, RowsJoin
  <2>3. QED
    BY <2>1, <2>2
<1>9. /\ abc \in Seq(Words) /\ Len(abc) = 5 + 1
      /\ \A i \in 1..(5 + 1) : abc[i] = IF i <= 5 THEN ab[i] ELSE c[i - 5]
  <2>1. Len(ab) = 5 /\ Len(c) = 1 /\ ab \in Seq(Words) /\ c \in Seq(Words)
    BY <1>3, <1>8
  <2>0. Joins(abc, ab, c)
    BY <1>j
  <2>2. /\ abc \in Seq(Words) /\ Len(abc) = Len(ab) + Len(c)
        /\ \A i \in 1..(Len(ab) + Len(c)) : abc[i] = IF i <= Len(ab) THEN ab[i] ELSE c[i - Len(ab)]
    BY <2>0, <2>1, RowsJoin
  <2>3. QED
    BY <2>1, <2>2
<1>10. /\ abci \in Seq(Words) /\ Len(abci) = 6 + n
      /\ \A i \in 1..(6 + n) : abci[i] = IF i <= 6 THEN abc[i] ELSE images[i - 6]
  <2>1. abc \in Seq(Words) /\ images \in Seq(Words)
    BY <1>6, <1>9
  <2>0. Joins(abci, abc, images)
    BY <1>j
  <2>2. /\ abci \in Seq(Words) /\ Len(abci) = Len(abc) + Len(images)
        /\ \A i \in 1..(Len(abc) + Len(images)) : abci[i] = IF i <= Len(abc) THEN abc[i] ELSE images[i - Len(abc)]
    BY <2>0, <2>1, RowsJoin
  <2>3. Len(abc) = 6 /\ Len(images) = n
    BY <1>9 DEF n
  <2>4. QED
    BY <2>2, <2>3
<1>11. /\ de \in Seq(Words) /\ Len(de) = 2 + Len(e)
      /\ \A i \in 1..(2 + Len(e)) : de[i] = IF i <= 2 THEN d[i] ELSE e[i - 2]
  <2>1. Len(d) = 2 /\ d \in Seq(Words) /\ e \in Seq(Words)
    BY <1>4, <1>5
  <2>0. Joins(de, d, e)
    BY <1>j
  <2>2. /\ de \in Seq(Words) /\ Len(de) = Len(d) + Len(e)
        /\ \A i \in 1..(Len(d) + Len(e)) : de[i] = IF i <= Len(d) THEN d[i] ELSE e[i - Len(d)]
    BY <2>0, <2>1, RowsJoin
  <2>3. QED
    BY <2>1, <2>2
<1>12. /\ Boot!Row \in Seq(Words) /\ Len(Boot!Row) = (6 + n) + (2 + Len(e))
      /\ \A i \in 1..((6 + n) + (2 + Len(e))) : Boot!Row[i] = IF i <= (6 + n) THEN abci[i] ELSE de[i - (6 + n)]
  <2>1. Len(abci) = (6 + n) /\ Len(de) = (2 + Len(e)) /\ abci \in Seq(Words) /\ de \in Seq(Words)
    BY <1>6, <1>10, <1>11
  <2>0. Joins(Boot!Row, abci, de)
    BY <1>j
  <2>2. /\ Boot!Row \in Seq(Words) /\ Len(Boot!Row) = Len(abci) + Len(de)
        /\ \A i \in 1..(Len(abci) + Len(de)) : Boot!Row[i] = IF i <= Len(abci) THEN abci[i] ELSE de[i - Len(abci)]
    BY <2>0, <2>1, RowsJoin
  <2>3. QED
    BY <2>1, <2>2
<1>13. Len(e) \in {0, 4} /\ AtRestart = 8 + n /\ Len(Boot!Row) = AtRestart + Len(e)
  BY <1>5, <1>6, <1>12 DEF AtRestart, n
<1>14. \A i \in 1..6 : Boot!Row[i] = abc[i]
  BY <1>6, <1>10, <1>12, <1>13
<1>15. /\ Boot!Row[1] = "forget" /\ Boot!Row[2] = "root" /\ Boot!Row[3] = "rooted" /\ Boot!Row[4] = "bootloader" /\ Boot!Row[5] = "fastboot"
       /\ Boot!Row[6] = "chargeOff"
  <2>1. abc[1] = a[1] /\ abc[2] = a[2] /\ abc[3] = a[3] /\ abc[4] = b[1] /\ abc[5] = b[2] /\ abc[6] = c[1]
    BY <1>8, <1>9
  <2>2. QED
    BY <1>1, <1>2, <1>3, <1>14, <2>1
<1>16. ASSUME NEW i \in 7..(6 + n) PROVE Boot!Row[i] \in {"flash", "again", "fastboot"}
  <2>1. i - 6 \in 1..n /\ i \in 1..(6 + n) /\ ~(i <= 6)
    BY <1>6
  <2>2. Boot!Row[i] = images[i - 6]
    BY <1>6, <1>10, <1>12, <1>13, <2>1
  <2>3. QED
    BY <1>6, <2>1, <2>2
<1>17. Boot!Row[7 + n] = "chargeOn" /\ Boot!Row[8 + n] = "restart"
  <2>1. /\ 7 + n \in 1..((6 + n) + (2 + Len(e))) /\ (7 + n) - (6 + n) = 1 /\ ~(7 + n <= 6 + n)
        /\ 8 + n \in 1..((6 + n) + (2 + Len(e))) /\ (8 + n) - (6 + n) = 2 /\ ~(8 + n <= 6 + n)
    BY <1>6, <1>13
  <2>2. Boot!Row[7 + n] = de[1] /\ Boot!Row[8 + n] = de[2]
    BY <1>12, <2>1
  <2>3. de[1] = d[1] /\ de[2] = d[2]
    BY <1>11, <1>13
  <2>4. QED
    BY <1>4, <2>2, <2>3
<1>18. ASSUME NEW i \in (AtRestart + 1)..Len(Boot!Row) PROVE Boot!Row[i] \in Waits
  <2>1. /\ i \in 1..((6 + n) + (2 + Len(e))) /\ ~(i <= 6 + n)
        /\ i - (6 + n) \in 1..(2 + Len(e)) /\ ~(i - (6 + n) <= 2) /\ (i - (6 + n)) - 2 \in 1..Len(e)
    BY <1>6, <1>12, <1>13
  <2>2. Boot!Row[i] = de[i - (6 + n)] /\ de[i - (6 + n)] = e[(i - (6 + n)) - 2]
    BY <1>11, <1>12, <2>1
  <2>3. QED
    BY <1>5, <2>1, <2>2
<1>19. Len(Boot!EnableFastbootMode) = 5 /\ Len(Boot!Row) - Len(Boot!Leave) = 6 + n
  BY <1>6, <1>7, <1>8, <1>11, <1>12, <1>13
<1>20. QED
  BY <1>5, <1>6, <1>12, <1>13, <1>15, <1>16, <1>17, <1>18, <1>19 DEF n

\* The other rows.
LEMMA RowsOfOthers ==
  /\ op = "WaitUntilFullyBooted" => Len(Boot!Row) = 4 /\ \A i \in 1..4 : Boot!Row[i] \in Waits
  /\ op = "EnableRoot" => Len(Boot!Row) = 3 /\ Boot!Row[1] = "forget" /\ Boot!Row[2] = "root" /\ Boot!Row[3] = "rooted"
  /\ op = "Reboot" => /\ Len(Boot!Row) = 7 /\ Boot!Row[1] = "reboot" /\ Boot!Row[2] = "clear" /\ Boot!Row[3] = "offline"
                      /\ \A i \in 4..7 : Boot!Row[i] \in Waits /\ Boot!Row[4] = "device" /\ Boot!Row[7] = "up"
<1>1. ASSUME op = "WaitUntilFullyBooted" PROVE Len(Boot!Row) = 4 /\ \A i \in 1..4 : Boot!Row[i] \in Waits
  BY <1>1 DEF Boot!Row, Boot!WaitUntilFullyBooted, Waits
<1>2. ASSUME op = "EnableRoot" PROVE Len(Boot!Row) = 3 /\ Boot!Row[1] = "forget" /\ Boot!Row[2] = "root" /\ Boot!Row[3] = "rooted"
  BY <1>2 DEF Boot!Row, Boot!EnableRoot
<1>3. ASSUME op = "Reboot"
      PROVE  /\ Len(Boot!Row) = 7 /\ Boot!Row[1] = "reboot" /\ Boot!Row[2] = "clear" /\ Boot!Row[3] = "offline"
             /\ \A i \in 4..7 : Boot!Row[i] \in Waits /\ Boot!Row[4] = "device" /\ Boot!Row[7] = "up"
  <2> DEFINE s == <<"reboot", "clear", "offline">>
             r == Boot!WaitUntilFullyBooted
  <2>1. s \in Seq(Words) /\ Len(s) = 3 /\ s[1] = "reboot" /\ s[2] = "clear" /\ s[3] = "offline"
    BY DEF Words
  <2>2. r \in Seq(Words) /\ Len(r) = 4 /\ r[1] = "device" /\ r[2] = "sd" /\ r[3] = "pm" /\ r[4] = "up"
    BY DEF Words, Boot!WaitUntilFullyBooted
  <2>3. Joins(Boot!Row, s, r)
    BY <1>3 DEF Boot!Row, Boot!Reboot, Joins
  <2> HIDE DEF s, r
  <2>4. Len(Boot!Row) = 7 /\ \A i \in 1..7 : Boot!Row[i] = IF i <= 3 THEN s[i] ELSE r[i - 3]
    <3>1. Len(Boot!Row) = Len(s) + Len(r) /\ \A i \in 1..(Len(s) + Len(r)) : Boot!Row[i] = IF i <= Len(s) THEN s[i] ELSE r[i - Len(s)]
      BY <2>1, <2>2, <2>3, RowsJoin
    <3>2. QED
      BY <2>1, <2>2, <3>1
  <2>5. /\ Boot!Row[1] = s[1] /\ Boot!Row[2] = s[2] /\ Boot!Row[3] = s[3]
        /\ Boot!Row[4] = r[1] /\ Boot!Row[5] = r[2] /\ Boot!Row[6] = r[3] /\ Boot!Row[7] = r[4]
    BY <2>4
  <2>6. \A i \in 4..7 : i \in {4, 5, 6, 7}
    OBVIOUS
  <2>7. QED
    BY <2>1, <2>2, <2>4, <2>5, <2>6 DEF Waits
<1>4. QED
  BY <1>1, <1>2, <1>3

\* Which command stands where.
LEMMA CommandAtPlace ==
  ASSUME Boot!TypeOK, PlaceInv, pos > 0, NEW c, c = Boot!Row[pos]
  PROVE  /\ c = "reboot" <=> op = "Reboot" /\ pos = 1
         /\ c = "clear" <=> op = "Reboot" /\ pos = 2
         /\ c = "offline" <=> op = "Reboot" /\ pos = 3
         /\ op = "Reboot" /\ pos > 3 => c \in Waits
         /\ op = "Reboot" /\ pos = 4 => c = "device"
         /\ op = "Reboot" => Len(Boot!Row) = 7 /\ (pos = 7 => c = "up")
         /\ c = "bootloader" <=> Boot!Flashing /\ pos = 4
         /\ c = "fastboot" => Boot!Flashing
         /\ Boot!Flashing /\ pos = 5 => c = "fastboot"
         /\ Boot!Flashing /\ pos = 1 => c = "forget"
         /\ c = "chargeOff" <=> Boot!Flashing /\ pos = 6
         /\ c = "chargeOn" <=> Boot!Flashing /\ pos = 7 + Len(images)
         /\ c = "again" => Boot!Flashing /\ pos >= 7 /\ pos <= 6 + Len(images)
         /\ c = "restart" <=> Boot!Flashing /\ pos = AtRestart
         /\ Boot!Flashing /\ pos > AtRestart => c \in Waits
         /\ c \in {"root", "forget"} => op \in {"EnableRoot"} \/ Boot!Flashing
         /\ c \in Words
         /\ Boot!Flashing => Len(Boot!Row) >= AtRestart
<1>1. pos \in Nat \ {0} /\ op \in Boot!Operation /\ images \in Seq({"flash", "again", "fastboot"})
  BY ServicesAssumption DEF Boot!TypeOK, Boot!BootAssumption
<1>p. pos = 1 \/ pos <= Len(Boot!Row)
  BY <1>1 DEF PlaceInv
<1>2. CASE Boot!Flashing
  <2>1. /\ Boot!Row \in Seq(Words) /\ Len(images) \in Nat
        /\ Len(Boot!Row) = AtRestart + (IF op = "FlashAndWipe" THEN 0 ELSE 4)
        /\ Boot!Row[1] = "forget" /\ Boot!Row[2] = "root" /\ Boot!Row[3] = "rooted" /\ Boot!Row[4] = "bootloader" /\ Boot!Row[5] = "fastboot"
        /\ Boot!Row[6] = "chargeOff"
        /\ \A i \in 7..(6 + Len(images)) : Boot!Row[i] \in {"flash", "again", "fastboot"}
        /\ Boot!Row[7 + Len(images)] = "chargeOn" /\ Boot!Row[AtRestart] = "restart"
        /\ \A i \in (AtRestart + 1)..Len(Boot!Row) : Boot!Row[i] \in Waits
    BY <1>1, <1>2, RowOfFlash
  <2>2. op # "Reboot" /\ op # "EnableRoot" /\ AtRestart = 8 + Len(images) /\ Len(Boot!Row) >= AtRestart
    BY <1>2, <2>1 DEF Boot!Flashing, AtRestart
  <2>3. c \in Words
    BY <1>1, <1>p, <2>1, <2>2, ElementOfSeq
  <2>4. \/ pos = 1 \/ pos = 2 \/ pos = 3 \/ pos = 4 \/ pos = 5 \/ pos = 6
        \/ pos \in 7..(6 + Len(images)) \/ pos = 7 + Len(images) \/ pos = AtRestart \/ pos \in (AtRestart + 1)..Len(Boot!Row)
    BY <1>1, <1>p, <2>1, <2>2
  <2>5. CASE pos \in {1, 2, 3, 4, 5, 6}
    BY <1>2, <2>1, <2>2, <2>3, <2>5
  <2>6. CASE pos \in 7..(6 + Len(images))
    BY <1>2, <2>1, <2>2, <2>3, <2>6
  <2>7. CASE pos \in {7 + Len(images), AtRestart}
    BY <1>2, <2>1, <2>2, <2>3, <2>7
  <2>8. CASE pos \in (AtRestart + 1)..Len(Boot!Row)
    <3>1. c \in Waits /\ pos > AtRestart /\ pos > 7
      BY <2>1, <2>2, <2>8
    <3>2. QED
      BY <1>2, <2>1, <2>2, <2>3, <3>1 DEF Waits
  <2>9. QED
    BY <2>4, <2>5, <2>6, <2>7, <2>8
<1>3. CASE op = "Reboot"
  <2>1. /\ Len(Boot!Row) = 7 /\ Boot!Row[1] = "reboot" /\ Boot!Row[2] = "clear" /\ Boot!Row[3] = "offline"
        /\ \A i \in 4..7 : Boot!Row[i] \in Waits /\ Boot!Row[4] = "device" /\ Boot!Row[7] = "up"
    BY <1>3, RowsOfOthers
  <2>2. ~Boot!Flashing /\ pos \in 1..7 /\ (pos = 1 \/ pos = 2 \/ pos = 3 \/ pos \in 4..7)
    BY <1>1, <1>p, <1>3, <2>1 DEF Boot!Flashing
  <2>3. CASE pos \in {1, 2, 3}
    BY <1>3, <2>1, <2>2, <2>3 DEF Words
  <2>4. CASE pos \in 4..7
    <3>1. c \in Waits /\ pos > 3
      BY <2>1, <2>4
    <3>2. (pos = 4 => c = "device") /\ (pos = 7 => c = "up")
      BY <2>1, <2>4
    <3>3. QED
      BY <1>3, <2>1, <2>2, <3>1, <3>2 DEF Waits, Words
  <2>5. QED
    BY <2>2, <2>3, <2>4
<1>4. CASE op = "EnableRoot"
  <2>1. Len(Boot!Row) = 3 /\ Boot!Row[1] = "forget" /\ Boot!Row[2] = "root" /\ Boot!Row[3] = "rooted"
    BY <1>4, RowsOfOthers
  <2>2. ~Boot!Flashing /\ pos \in {1, 2, 3}
    BY <1>1, <1>p, <1>4, <2>1 DEF Boot!Flashing
  <2>3. QED
    BY <1>4, <2>1, <2>2 DEF Words
<1>5. CASE op = "WaitUntilFullyBooted"
  <2>1. Len(Boot!Row) = 4 /\ \A i \in 1..4 : Boot!Row[i] \in Waits
    BY <1>5, RowsOfOthers
  <2>2. ~Boot!Flashing /\ pos \in 1..4 /\ c \in Waits
    BY <1>1, <1>p, <1>5, <2>1 DEF Boot!Flashing
  <2>3. QED
    BY <1>5, <2>2 DEF Words, Waits
<1>6. op # "none"
  BY DEF PlaceInv
<1>7. QED
  BY <1>1, <1>2, <1>3, <1>4, <1>5, <1>6 DEF Boot!Operation, Boot!Flashing

\* A retried method of the flashing does not reach back over the command that starts the context.
LEMMA RetriesStayOutside ==
  ASSUME Boot!TypeOK, PlaceInv, Boot!Flashing, pos > 0, NEW q \in Boot!RetryFrom, q <= 5
  PROVE  pos <= 5
<1>1. pos \in Nat /\ images \in Seq({"flash", "again", "fastboot"})
  BY ServicesAssumption DEF Boot!TypeOK, Boot!BootAssumption
<1>2. /\ Boot!Row[1] = "forget" /\ Boot!Row[2] = "root" /\ Boot!Row[3] = "rooted" /\ Boot!Row[4] = "bootloader" /\ Boot!Row[5] = "fastboot"
      /\ Boot!Row[6] = "chargeOff"
  BY <1>1, RowOfFlash
<1>3. q \in 1..pos /\ \A r \in q..pos : Boot!Row[r] \in Boot!Method(Boot!Row[q])
  BY DEF Boot!RetryFrom
<1>4. Boot!Row[q] \in {"forget", "root", "rooted", "bootloader", "fastboot"}
  <2>1. q \in {1, 2, 3, 4, 5}
    BY <1>1, <1>3
  <2>2. QED
    BY <1>2, <2>1
<1>5. "chargeOff" \notin Boot!Method(Boot!Row[q])
  BY <1>4 DEF Boot!Method
<1>6. SUFFICES ASSUME pos >= 6 PROVE FALSE
  BY <1>1
<1>7. 6 \in q..pos
  BY <1>1, <1>3, <1>6
<1>8. QED
  BY <1>2, <1>3, <1>5, <1>7

\* The invariant of booting holds at first: no operation is under way.
LEMMA BootInvInit == ASSUME Boot!Init PROVE BootInv
<1>1. Boot!TypeOK
  <2>1. 0 \in 0..MaxBoots
    BY ServicesAssumption DEF Boot!BootAssumption
  <2>2. "none" \in Boot!Operation /\ "up" \in Boot!Up /\ {} \subseteq {"hiccup", "restart", "raised"}
    BY DEF Boot!Operation, Boot!Up
  <2>3. QED
    BY <2>1, <2>2 DEF Boot!Init, Boot!TypeOK
<1>2. PlaceInv /\ RebootInv /\ RootInv /\ FlashInv
  BY DEF Boot!Init, PlaceInv, RebootInv, RootInv, FlashInv, Boot!Up, Boot!Flashing
<1>3. QED
  BY <1>1, <1>2 DEF BootInv

\* While the operation stays the same, so does its row.
LEMMA RowStays ==
  ASSUME UNCHANGED <<op, images>>
  PROVE  Boot!Row' = Boot!Row /\ Boot!Leave' = Boot!Leave /\ AtRestart' = AtRestart /\ Boot!Flashing' = Boot!Flashing
BY DEF Boot!Row, Boot!Leave, AtRestart, Boot!Flashing

\* The stages of the device, which leave the operation alone.
LEMMA DeviceKeepsBootInv ==
  ASSUME BootInv, Boot!BootGoesOn \/ Boot!RestartsByItself
  PROVE  BootInv'
<1> USE DEF BootInv
<1>1. UNCHANGED <<op, images, pos, result, before, needsSu, offModeCharge>> /\ (trouble' = trouble \/ trouble' = trouble \union {"restart"})
  BY DEF Boot!BootGoesOn, Boot!RestartsByItself, Boot!caller
<1>2. Boot!Row' = Boot!Row /\ AtRestart' = AtRestart /\ Boot!Flashing' = Boot!Flashing
  BY <1>1, RowStays
<1>3. /\ stage' \in Boot!Up \union {"off", "fastboot"} /\ next' \in BOOLEAN /\ boots' \in 0..MaxBoots /\ rooted' \in BOOLEAN
      /\ \/ boots' = boots
         \/ boots' = boots + 1
  <2>1. boots \in 0..MaxBoots /\ MaxBoots \in Nat /\ next \in BOOLEAN /\ rooted \in BOOLEAN
    BY ServicesAssumption DEF Boot!TypeOK, Boot!BootAssumption
  <2>2. stage' \in Boot!Up \union {"off", "fastboot"} /\ next' \in BOOLEAN /\ rooted' \in BOOLEAN
    BY <2>1 DEF Boot!BootGoesOn, Boot!RestartsByItself, Boot!Up
  <2>3. boots' = boots \/ (boots < MaxBoots /\ boots' = boots + 1)
    BY DEF Boot!BootGoesOn, Boot!RestartsByItself
  <2>4. QED
    BY <2>1, <2>2, <2>3
<1>4. Boot!TypeOK'
  <2>1. trouble' \subseteq {"hiccup", "restart", "raised"}
    BY <1>1 DEF Boot!TypeOK
  <2>2. QED
    BY <1>1, <1>3, <2>1 DEF Boot!TypeOK
<1>5. PlaceInv'
  BY <1>1, <1>2 DEF PlaceInv
<1>6. RebootInv'
  BY <1>1 DEF Boot!BootGoesOn, Boot!RestartsByItself, RebootInv, Boot!TypeOK, Boot!Up
<1>7. RootInv'
  <2>1. stage' # "dying"
    BY <1>3 DEF Boot!Up
  <2>2. trouble' = {} /\ rooted /\ stage \in Boot!Up => rooted' /\ stage' \in Boot!Up
    BY DEF Boot!BootGoesOn, Boot!RestartsByItself, Boot!Up
  <2>3. trouble' = {} => trouble = {}
    BY <1>1
  <2>4. QED
    BY <1>1, <1>2, <2>1, <2>2, <2>3 DEF RootInv
<1>8. FlashInv'
  <2>1. stage # "fastboot" /\ ~next => stage' # "fastboot" /\ ~next'
    BY DEF Boot!BootGoesOn, Boot!RestartsByItself, Boot!Up
  <2>2. "raised" \notin trouble' => "raised" \notin trouble
    BY <1>1
  <2>3. QED
    BY <1>1, <1>2, <2>1, <2>2 DEF FlashInv
<1>9. QED
  BY <1>4, <1>5, <1>6, <1>7, <1>8

\* A new operation.
LEMMA CallKeepsBootInv ==
  ASSUME BootInv, NEW o \in Boot!Operation \ {"none"}, Boot!Call(o)
  PROVE  BootInv'
<1> USE DEF BootInv
<1>1. pos = 0 /\ op' = o /\ pos' = 1 /\ result' = "none" /\ before' = boots /\ UNCHANGED <<stage, next, boots, rooted, offModeCharge, images, needsSu, trouble>>
  BY DEF Boot!Call, Boot!device
<1>2. Boot!TypeOK'
  BY <1>1 DEF Boot!TypeOK
<1>3. PlaceInv'
  BY <1>1 DEF PlaceInv
<1>4. RebootInv'
  BY <1>1 DEF RebootInv, Boot!TypeOK
<1>5. RootInv'
  BY <1>1 DEF RootInv
<1>6. FlashInv'
  <2>1. "raised" \notin trouble => offModeCharge /\ stage # "fastboot" /\ ~next
    BY <1>1 DEF FlashInv
  <2>2. QED
    BY <1>1, <2>1 DEF FlashInv
<1>7. QED
  BY <1>2, <1>3, <1>4, <1>5, <1>6

\* The question whether su is needed.
LEMMA NeedsSUKeepsBootInv ==
  ASSUME BootInv, Boot!NeedsSU
  PROVE  BootInv'
<1> USE DEF BootInv
<1>1. /\ pos = 0 /\ Boot!Answers /\ needsSu' = (IF rooted THEN "no" ELSE "yes")
      /\ UNCHANGED <<stage, next, boots, rooted, offModeCharge, op, images, pos, result, before, trouble>>
  BY DEF Boot!NeedsSU, Boot!device, Boot!caller
<1>2. Boot!Row' = Boot!Row /\ AtRestart' = AtRestart /\ Boot!Flashing' = Boot!Flashing
  BY <1>1, RowStays
<1>3. Boot!TypeOK' /\ PlaceInv'
  BY <1>1, <1>2 DEF Boot!TypeOK, PlaceInv
<1>4. RebootInv'
  BY <1>1 DEF RebootInv
<1>5. RootInv'
  BY <1>1, <1>2 DEF RootInv, Boot!Answers
<1>6. FlashInv'
  BY <1>1, <1>2 DEF FlashInv
<1>7. QED
  BY <1>3, <1>4, <1>5, <1>6

\* What a command does to the device.
LEMMA ObeyedCommand ==
  ASSUME Boot!TypeOK, NEW c, Boot!Obeys(c) \/ UNCHANGED Boot!device
  PROVE  /\ stage' \in Boot!Up \union {"off", "dying", "fastboot"} /\ next' \in BOOLEAN /\ rooted' \in BOOLEAN /\ offModeCharge' \in BOOLEAN
         /\ boots' = boots
         /\ c \notin {"reboot", "bootloader", "again", "restart"} => UNCHANGED <<stage, next>>
         /\ c \notin {"chargeOff", "chargeOn"} => UNCHANGED offModeCharge
         /\ c # "root" => UNCHANGED rooted
         /\ rooted => rooted'
         /\ c = "reboot" => (stage' = "dying" /\ ~next') \/ UNCHANGED <<stage, next>>
         /\ c \in {"again", "restart"} => stage' = "off" \/ UNCHANGED <<stage, next>>
         /\ c = "restart" => (stage' = "off" /\ ~next') \/ UNCHANGED <<stage, next>>
<1>1. CASE UNCHANGED Boot!device
  BY <1>1 DEF Boot!device, Boot!TypeOK
<1>2. CASE Boot!Obeys(c)
  <2>1. CASE c \in {"reboot", "bootloader"}
    BY <1>2, <2>1 DEF Boot!Obeys, Boot!TypeOK
  <2>2. CASE c \in {"again", "restart"}
    BY <1>2, <2>2 DEF Boot!Obeys, Boot!TypeOK, Boot!Up
  <2>3. CASE c = "root"
    BY <1>2, <2>3 DEF Boot!Obeys, Boot!TypeOK
  <2>4. CASE c \in {"chargeOff", "chargeOn"}
    BY <1>2, <2>4 DEF Boot!Obeys, Boot!TypeOK
  <2>5. CASE c \notin {"reboot", "bootloader", "again", "restart", "root", "chargeOff", "chargeOn"}
    BY <1>2, <2>5 DEF Boot!Obeys, Boot!device, Boot!TypeOK
  <2>6. QED
    BY <2>1, <2>2, <2>3, <2>4, <2>5
<1>3. QED
  BY <1>1, <1>2

\* A command that is carried out.
LEMMA StepKeepsBootInv ==
  ASSUME BootInv, Boot!Step
  PROVE  BootInv'
<1> USE DEF BootInv
<1> DEFINE c == Boot!Row[pos]
<1>1. pos > 0 /\ UNCHANGED <<op, images, before>>
  BY DEF Boot!Step
<1>2. /\ Boot!Met(c) \/ c = "offline"
      /\ trouble' = (IF Boot!Met(c) THEN trouble ELSE trouble \union {"hiccup"})
      /\ Boot!Obeys(c)
      /\ needsSu' = (IF c \in {"clear", "forget"} THEN "unknown" ELSE needsSu)
  BY DEF Boot!Step
<1>3. IF pos < Len(Boot!Row) THEN pos' = pos + 1 /\ UNCHANGED result
      ELSE pos' = 0 /\ result' = IF result = "none" THEN "done" ELSE result
  BY DEF Boot!Step
<1>4. Boot!Row' = Boot!Row /\ AtRestart' = AtRestart /\ Boot!Flashing' = Boot!Flashing
  BY <1>1, RowStays
<1>5. /\ c = "reboot" <=> op = "Reboot" /\ pos = 1
      /\ c = "clear" <=> op = "Reboot" /\ pos = 2
      /\ c = "offline" <=> op = "Reboot" /\ pos = 3
      /\ op = "Reboot" /\ pos > 3 => c \in Waits
      /\ op = "Reboot" => Len(Boot!Row) = 7 /\ (pos = 7 => c = "up")
      /\ c = "bootloader" <=> Boot!Flashing /\ pos = 4
      /\ Boot!Flashing /\ pos = 5 => c = "fastboot"
      /\ Boot!Flashing /\ pos = 1 => c = "forget"
      /\ c = "chargeOff" <=> Boot!Flashing /\ pos = 6
      /\ c = "chargeOn" <=> Boot!Flashing /\ pos = 7 + Len(images)
      /\ c = "again" => Boot!Flashing /\ pos >= 7 /\ pos <= 6 + Len(images)
      /\ c = "restart" <=> Boot!Flashing /\ pos = AtRestart
      /\ Boot!Flashing => Len(Boot!Row) >= AtRestart
  BY <1>1, CommandAtPlace
<1>6. /\ stage' \in Boot!Up \union {"off", "dying", "fastboot"} /\ next' \in BOOLEAN /\ rooted' \in BOOLEAN /\ offModeCharge' \in BOOLEAN
      /\ boots' = boots
      /\ c \notin {"reboot", "bootloader", "again", "restart"} => UNCHANGED <<stage, next>>
      /\ c \notin {"chargeOff", "chargeOn"} => UNCHANGED offModeCharge
      /\ c # "root" => UNCHANGED rooted
      /\ rooted => rooted'
      /\ c = "reboot" => (stage' = "dying" /\ ~next') \/ UNCHANGED <<stage, next>>
      /\ c \in {"again", "restart"} => stage' = "off" \/ UNCHANGED <<stage, next>>
      /\ c = "restart" => (stage' = "off" /\ ~next') \/ UNCHANGED <<stage, next>>
  BY <1>2, ObeyedCommand
<1>7. pos \in Nat /\ Len(images) \in Nat /\ AtRestart = 8 + Len(images)
  <2>1. pos \in Nat /\ images \in Seq({"flash", "again", "fastboot"})
    BY ServicesAssumption DEF Boot!TypeOK, Boot!BootAssumption
  <2>2. QED
    BY <2>1, LenProperties DEF AtRestart
<1>l. pos < Len(Boot!Row) => pos + 1 <= Len(Boot!Row) /\ pos' = pos + 1
  <2>1. Len(Boot!Row) \in Nat
    <3>1. op \in Boot!Operation /\ op # "none"
      BY <1>1 DEF Boot!TypeOK, PlaceInv
    <3>2. images \in Seq({"flash", "again", "fastboot"})
      BY ServicesAssumption DEF Boot!TypeOK, Boot!BootAssumption
    <3>3. CASE Boot!Flashing
      BY <3>2, <3>3, RowOfFlash, LenProperties
    <3>4. CASE ~Boot!Flashing
      BY <3>1, <3>4, RowsOfOthers DEF Boot!Flashing, Boot!Operation
    <3>5. QED
      BY <3>3, <3>4
  <2>2. QED
    BY <1>3, <1>7, <2>1
<1>n. op = "Reboot" => Len(Boot!Row) = 7
  BY <1>5
<1>o. ASSUME op = "Reboot"
      PROVE  pos <= 7 /\ (pos < 7 => pos' = pos + 1 /\ result' = result)
  <2>1. Len(Boot!Row) = 7
    BY <1>n, <1>o
  <2>2. pos > 1 => pos <= 7
    BY <2>1 DEF PlaceInv
  <2>3. IF pos < 7 THEN pos' = pos + 1 /\ result' = result
        ELSE pos' = 0 /\ result' = IF result = "none" THEN "done" ELSE result
    BY <1>3, <2>1
  <2>4. QED
    BY <1>7, <2>2, <2>3
<1>r. op = "Reboot" /\ pos < 7 => pos' = pos + 1 /\ result' = result
  BY <1>o
<1>m. Boot!Met(c) => (c = "offline" => ~Boot!Answers) /\ (c = "up" => stage \in {"up", "dying"}) /\ (c = "fastboot" => stage = "fastboot")
  BY DEF Boot!Met
<1> HIDE DEF c
<1>8. trouble \subseteq trouble' /\ trouble' \subseteq trouble \union {"hiccup"}
  BY <1>2
<1>9. Boot!TypeOK'
  <2>1. pos' \in Nat /\ result' \in {"none", "done", "raised"}
    BY <1>3, <1>7 DEF Boot!TypeOK
  <2>2. trouble' \subseteq {"hiccup", "restart", "raised"} /\ needsSu' \in {"unknown", "yes", "no"}
    BY <1>2, <1>8 DEF Boot!TypeOK
  <2>3. QED
    BY <1>1, <1>6, <2>1, <2>2 DEF Boot!TypeOK
<1>10. PlaceInv'
  BY <1>1, <1>3, <1>4, <1>l DEF PlaceInv
<1>11. RebootInv'
  <2>1. CASE op # "Reboot"
    BY <1>1, <1>6, <2>1 DEF RebootInv, Boot!TypeOK
  <2>2. CASE op = "Reboot" /\ pos = 1
    <3>1. c = "reboot" /\ pos' = 2 /\ result' = result
      BY <1>5, <1>r, <2>2
    <3>2. stage' = "dying" /\ ~next'
      BY <1>2, <3>1 DEF Boot!Obeys
    <3>3. QED
      BY <1>1, <1>6, <1>8, <2>2, <3>1, <3>2 DEF RebootInv, Boot!TypeOK
  <2>3. CASE op = "Reboot" /\ pos = 2
    BY <1>1, <1>r, <1>5, <1>6, <1>8, <2>3 DEF RebootInv, Boot!TypeOK
  <2>4. CASE op = "Reboot" /\ pos = 3
    <3>1. c = "offline" /\ pos' = 4 /\ result' = result /\ UNCHANGED <<stage, next, boots>>
      BY <1>r, <1>5, <1>6, <2>4
    <3>2. "hiccup" \in trouble' \/ ~Boot!Answers
      BY <1>2, <1>m, <3>1
    <3>3. "hiccup" \in trouble' \/ before < boots \/ stage = "off"
      BY <2>4, <3>2 DEF RebootInv, Boot!TypeOK, Boot!Answers, Boot!Up
    <3>4. QED
      BY <1>1, <1>8, <2>4, <3>1, <3>3 DEF RebootInv
  <2>5. CASE op = "Reboot" /\ pos > 3
    <3>1. c \in Waits /\ UNCHANGED <<stage, next, boots>>
      BY <1>5, <1>6, <2>5 DEF Waits
    <3>2. pos = 7 => before < boots \/ "hiccup" \in trouble
      BY <1>2, <1>5, <1>m, <1>7, <2>5 DEF RebootInv, Waits
    <3>3. pos <= 7
      BY <1>o, <2>5
    <3>4. result' # result => pos = 7
      BY <1>7, <1>r, <2>5, <3>3
    <3>5. QED
      BY <1>1, <1>7, <1>8, <2>5, <3>1, <3>2, <3>4 DEF RebootInv, Boot!TypeOK
  <2>6. QED
    BY <1>1, <1>7, <2>1, <2>2, <2>3, <2>4, <2>5
<1>12. RootInv'
  <2>1. trouble' = {} => trouble = {} /\ Boot!Met(c)
    BY <1>2
  <2>2. trouble' = {} /\ stage' = "dying" => (op = "Reboot" /\ pos' \in 1..3) \/ (Boot!Flashing /\ pos' \in 1..5)
    <3>1. SUFFICES ASSUME trouble' = {}, stage' = "dying" PROVE (op = "Reboot" /\ pos' \in 1..3) \/ (Boot!Flashing /\ pos' \in 1..5)
      OBVIOUS
    <3>2. CASE c = "reboot"
      BY <1>r, <1>5, <3>2
    <3>3. CASE c = "bootloader"
      <4>1. pos' = 5
        BY <1>5, <1>7, <1>l, <3>3
      <4>2. QED
        BY <1>5, <3>3, <4>1
    <3>4. CASE c \notin {"reboot", "bootloader"}
      <4>1. stage = "dying"
        BY <1>6, <3>1, <3>4
      <4>2. (op = "Reboot" /\ pos \in 1..3) \/ (Boot!Flashing /\ pos \in 1..5)
        BY <2>1, <3>1, <4>1 DEF RootInv
      <4>3. ~(op = "Reboot" /\ pos = 3)
        BY <1>5, <1>m, <2>1, <3>1, <4>1 DEF Boot!Answers
      <4>4. ~(Boot!Flashing /\ pos = 5)
        BY <1>5, <1>m, <2>1, <3>1, <4>1
      <4>5. Boot!Flashing => pos' = pos + 1
        BY <1>5, <1>7, <1>l, <4>2, <4>4 DEF Boot!Flashing
      <4>6. op = "Reboot" => pos' = pos + 1
        BY <1>7, <1>r, <4>2, <4>3 DEF Boot!Flashing
      <4>7. QED
        BY <1>7, <4>2, <4>3, <4>4, <4>5, <4>6
    <3>5. QED
      BY <3>2, <3>3, <3>4
  <2>3. trouble' = {} /\ needsSu' = "no" => (rooted' /\ stage' \in Boot!Up) \/ (op = "Reboot" /\ pos' \in 1..2)
    <3>1. SUFFICES ASSUME trouble' = {}, needsSu' = "no" PROVE (rooted' /\ stage' \in Boot!Up) \/ (op = "Reboot" /\ pos' \in 1..2)
      OBVIOUS
    <3>2. needsSu = "no" /\ c \notin {"clear", "forget"}
      BY <1>2, <3>1
    <3>3. ~(Boot!Flashing /\ pos >= 2)
      BY <3>2 DEF RootInv
    <3>4. (rooted /\ stage \in Boot!Up) \/ (op = "Reboot" /\ pos \in 1..2)
      BY <2>1, <3>1, <3>2 DEF RootInv
    <3>5. CASE op = "Reboot" /\ pos = 1
      BY <1>r, <1>5, <3>5
    <3>6. CASE ~(op = "Reboot" /\ pos = 1)
      <4>1. rooted /\ stage \in Boot!Up
        BY <1>5, <3>2, <3>4, <3>6
      <4>2. c \notin {"reboot", "bootloader", "again", "restart"}
        BY <1>5, <1>7, <3>3, <3>6
      <4>3. QED
        BY <1>6, <4>1, <4>2
    <3>7. QED
      BY <3>5, <3>6
  <2>4. Boot!Flashing /\ pos' >= 2 => needsSu' # "no"
    <3>1. Boot!Flashing /\ pos = 1 => needsSu' # "no"
      BY <1>2, <1>5
    <3>2. Boot!Flashing /\ pos >= 2 => needsSu' # "no"
      BY <1>2 DEF RootInv
    <3>3. QED
      BY <1>1, <1>7, <3>1, <3>2
  <2>5. QED
    BY <1>1, <1>4, <2>2, <2>3, <2>4 DEF RootInv
<1>13. FlashInv'
  <2>1. SUFFICES ASSUME "raised" \notin trouble'
                 PROVE  /\ ~Boot!Flashing \/ pos' = 0 \/ pos' > AtRestart => offModeCharge' /\ stage' # "fastboot" /\ ~next'
                        /\ Boot!Flashing /\ (pos' <= 5 \/ pos' = AtRestart) => offModeCharge'
    BY <1>4 DEF FlashInv
  <2>2. /\ ~Boot!Flashing \/ pos = 0 \/ pos > AtRestart => offModeCharge /\ stage # "fastboot" /\ ~next
        /\ Boot!Flashing /\ (pos <= 5 \/ pos = AtRestart) => offModeCharge
    BY <1>8, <2>1 DEF FlashInv
  <2>3. CASE ~Boot!Flashing
    BY <1>5, <1>6, <2>2, <2>3
  <2>4. CASE Boot!Flashing /\ pos >= AtRestart
    <3>1. c \notin {"reboot", "bootloader", "again", "chargeOff", "chargeOn"}
      BY <1>5, <1>7, <2>4 DEF Boot!Flashing
    <3>2. offModeCharge'
      BY <1>6, <1>7, <2>2, <2>4, <3>1
    <3>3. stage' # "fastboot" /\ ~next'
      <4>1. CASE c = "restart"
        <5>1. stage' = "off" /\ next' = FALSE
          BY <1>2, <4>1 DEF Boot!Obeys
        <5>2. QED
          BY <5>1
      <4>2. CASE c # "restart"
        BY <1>5, <1>6, <1>7, <2>2, <2>4, <3>1, <4>2
      <4>3. QED
        BY <4>1, <4>2
    <3>4. QED
      BY <3>2, <3>3
  <2>5. CASE Boot!Flashing /\ pos < AtRestart
    <3>1. pos' = pos + 1 /\ pos' <= AtRestart /\ pos' > 0
      <4>1. pos < Len(Boot!Row)
        <5>1. Len(Boot!Row) = AtRestart + (IF op = "FlashAndWipe" THEN 0 ELSE 4)
          <6>1. images \in Seq({"flash", "again", "fastboot"})
            BY ServicesAssumption DEF Boot!TypeOK, Boot!BootAssumption
          <6>2. QED
            BY <2>5, <6>1, RowOfFlash
        <5>2. QED
          BY <1>7, <2>5, <5>1
      <4>2. QED
        BY <1>7, <1>l, <2>5, <4>1
    <3>2. pos' <= 5 => offModeCharge'
      BY <1>5, <1>6, <1>7, <2>2, <2>5, <3>1
    <3>3. pos' = AtRestart => offModeCharge'
      <4>1. SUFFICES ASSUME pos' = AtRestart PROVE offModeCharge'
        OBVIOUS
      <4>2. c = "chargeOn"
        BY <1>5, <1>7, <2>5, <3>1, <4>1
      <4>3. offModeCharge' = TRUE
        BY <1>2, <4>2 DEF Boot!Obeys
      <4>4. QED
        BY <4>3
    <3>4. QED
      BY <1>7, <2>5, <3>1, <3>2, <3>3
  <2>6. QED
    BY <1>7, <2>3, <2>4, <2>5
<1>14. QED
  BY <1>9, <1>10, <1>11, <1>12, <1>13

\* A command that fails, obeyed or not.
LEMMA FailsKeepsBootInv ==
  ASSUME BootInv, Boot!Fails
  PROVE  BootInv'
<1> USE DEF BootInv
<1> DEFINE c == Boot!Row[pos]
<1>1. pos > 0 /\ UNCHANGED <<op, images, before, needsSu>>
  BY DEF Boot!Fails
<1>2. c \notin {"clear", "forget"} /\ (Boot!Obeys(c) \/ UNCHANGED Boot!device)
  BY DEF Boot!Fails
<1>3. \/ pos' \in Boot!RetryFrom /\ UNCHANGED <<result, trouble>>
      \/ Boot!InContext /\ pos' = Len(Boot!Row) - Len(Boot!Leave) + 1 /\ result' = "raised" /\ UNCHANGED trouble
      \/ ~Boot!InContext /\ pos' = 0 /\ result' = "raised" /\ trouble' = trouble \union {"raised"}
  BY DEF Boot!Fails
<1>4. Boot!Row' = Boot!Row /\ AtRestart' = AtRestart /\ Boot!Flashing' = Boot!Flashing
  BY <1>1, RowStays
<1>5. /\ c = "reboot" <=> op = "Reboot" /\ pos = 1
      /\ c = "clear" <=> op = "Reboot" /\ pos = 2
      /\ c = "bootloader" <=> Boot!Flashing /\ pos = 4
      /\ Boot!Flashing /\ pos = 1 => c = "forget"
      /\ c = "chargeOff" <=> Boot!Flashing /\ pos = 6
      /\ c = "chargeOn" <=> Boot!Flashing /\ pos = 7 + Len(images)
      /\ c = "again" => Boot!Flashing /\ pos >= 7 /\ pos <= 6 + Len(images)
      /\ c = "restart" <=> Boot!Flashing /\ pos = AtRestart
      /\ Boot!Flashing => Len(Boot!Row) >= AtRestart
  BY <1>1, CommandAtPlace
<1>6. /\ stage' \in Boot!Up \union {"off", "dying", "fastboot"} /\ next' \in BOOLEAN /\ rooted' \in BOOLEAN /\ offModeCharge' \in BOOLEAN
      /\ boots' = boots
      /\ c \notin {"reboot", "bootloader", "again", "restart"} => UNCHANGED <<stage, next>>
      /\ c \notin {"chargeOff", "chargeOn"} => UNCHANGED offModeCharge
      /\ c # "root" => UNCHANGED rooted
      /\ rooted => rooted'
      /\ c = "reboot" => (stage' = "dying" /\ ~next') \/ UNCHANGED <<stage, next>>
      /\ c \in {"again", "restart"} => stage' = "off" \/ UNCHANGED <<stage, next>>
      /\ c = "restart" => (stage' = "off" /\ ~next') \/ UNCHANGED <<stage, next>>
  BY <1>2, ObeyedCommand
<1>7. pos \in Nat /\ Len(images) \in Nat /\ AtRestart = 8 + Len(images)
  <2>1. pos \in Nat /\ images \in Seq({"flash", "again", "fastboot"})
    BY ServicesAssumption DEF Boot!TypeOK, Boot!BootAssumption
  <2>2. QED
    BY <2>1, LenProperties DEF AtRestart
<1>8. Boot!InContext => Boot!Flashing /\ pos >= 7 /\ pos <= 6 + Len(images) /\ Len(Boot!Row) - Len(Boot!Leave) + 1 = 7 + Len(images) /\ Len(Boot!Row) >= AtRestart
  <2>1. SUFFICES ASSUME Boot!InContext PROVE Boot!Flashing /\ pos >= 7 /\ pos <= 6 + Len(images) /\ Len(Boot!Row) - Len(Boot!Leave) + 1 = 7 + Len(images) /\ Len(Boot!Row) >= AtRestart
    OBVIOUS
  <2>2. Boot!Flashing
    BY <2>1 DEF Boot!InContext
  <2>3. Len(Boot!EnableFastbootMode) = 5 /\ Len(Boot!Row) - Len(Boot!Leave) = 6 + Len(images) /\ Len(Boot!Row) = AtRestart + (IF op = "FlashAndWipe" THEN 0 ELSE 4)
    <3>1. images \in Seq({"flash", "again", "fastboot"})
      BY ServicesAssumption DEF Boot!TypeOK, Boot!BootAssumption
    <3>2. QED
      BY <2>2, <3>1, RowOfFlash
  <2>4. QED
    BY <1>5, <1>7, <2>1, <2>2, <2>3 DEF Boot!InContext
<1>9. /\ \/ pos' \in 1..pos /\ pos' \in Boot!RetryFrom /\ result' = result /\ trouble' = trouble
         \/ /\ Boot!Flashing /\ pos >= 7 /\ pos <= 6 + Len(images) /\ pos' = 7 + Len(images) /\ result' = "raised" /\ trouble' = trouble
            /\ Len(Boot!Row) >= AtRestart
         \/ pos' = 0 /\ result' = "raised" /\ trouble' = trouble \union {"raised"}
      /\ pos' \in Nat
  <2>1. pos' \in Boot!RetryFrom => pos' \in 1..pos
    BY DEF Boot!RetryFrom
  <2>2. QED
    BY <1>3, <1>7, <1>8, <2>1
<1>10. op = "Reboot" => ~Boot!Flashing
  BY DEF Boot!Flashing
<1> HIDE DEF c
<1>11. Boot!TypeOK'
  BY <1>1, <1>6, <1>9 DEF Boot!TypeOK
<1>12. PlaceInv'
  <2>1. CASE pos' \in 1..pos
    <3>1. op # "none" /\ (pos > 1 => pos <= Len(Boot!Row))
      BY <1>1 DEF PlaceInv
    <3>2. pos' > 1 => pos' <= Len(Boot!Row)
      <4>1. SUFFICES ASSUME pos' > 1 PROVE pos' <= Len(Boot!Row)
        OBVIOUS
      <4>2. pos <= Len(Boot!Row) /\ Len(Boot!Row) \in Nat
        <5>1. pos > 1
          BY <1>7, <2>1, <4>1
        <5>2. op \in Boot!Operation /\ op # "none"
          BY <3>1 DEF Boot!TypeOK
        <5>3. images \in Seq({"flash", "again", "fastboot"})
          BY ServicesAssumption DEF Boot!TypeOK, Boot!BootAssumption
        <5>4. CASE Boot!Flashing
          BY <3>1, <5>1, <5>3, <5>4, RowOfFlash, LenProperties
        <5>5. CASE ~Boot!Flashing
          BY <3>1, <5>1, <5>2, <5>5, RowsOfOthers DEF Boot!Flashing, Boot!Operation
        <5>6. QED
          BY <5>4, <5>5
      <4>3. QED
        BY <1>7, <2>1, <4>2
    <3>3. QED
      BY <1>1, <1>4, <3>1, <3>2 DEF PlaceInv
  <2>2. CASE Boot!Flashing /\ pos' = 7 + Len(images) /\ Len(Boot!Row) >= AtRestart
    <3>1. op # "none"
      BY <2>2 DEF Boot!Flashing
    <3>2. pos' <= Len(Boot!Row)
      <4>1. images \in Seq({"flash", "again", "fastboot"})
        BY ServicesAssumption DEF Boot!TypeOK, Boot!BootAssumption
      <4>2. Len(Boot!Row) \in Nat
        BY <2>2, <4>1, RowOfFlash, LenProperties
      <4>3. QED
        BY <1>7, <2>2, <4>2
    <3>3. QED
      BY <1>1, <1>4, <3>1, <3>2 DEF PlaceInv
  <2>3. CASE pos' = 0
    BY <2>3 DEF PlaceInv
  <2>4. QED
    BY <1>9, <2>1, <2>2, <2>3
<1>13. RebootInv'
  <2>1. CASE op # "Reboot"
    BY <1>1, <1>6, <2>1 DEF RebootInv
  <2>2. CASE op = "Reboot"
    <3>1. pos >= 2 => UNCHANGED <<stage, next>>
      BY <1>5, <1>6, <1>7, <1>10, <2>2
    <3>2. (pos' \in 1..pos /\ result' = result /\ trouble' = trouble) \/ (pos' = 0 /\ result' = "raised")
      BY <1>9, <1>10, <2>2
    <3>3. before' = before /\ boots' = boots /\ op' = op /\ trouble \subseteq trouble'
      BY <1>1, <1>6, <1>9
    <3>4. CASE pos' = 0 /\ result' = "raised"
      BY <3>3, <3>4 DEF RebootInv
    <3>5. CASE pos' \in 1..pos /\ result' = result
      BY <1>7, <2>2, <3>1, <3>3, <3>5 DEF RebootInv
    <3>6. QED
      BY <3>2, <3>4, <3>5
  <2>3. QED
    BY <2>1, <2>2
<1>14. RootInv'
  <2>1. trouble' = {} => trouble = {} /\ pos' > 0
    BY <1>7, <1>9
  <2>2. trouble' = {} /\ stage' = "dying" => (op = "Reboot" /\ pos' \in 1..3) \/ (Boot!Flashing /\ pos' \in 1..5)
    <3>1. SUFFICES ASSUME trouble' = {}, stage' = "dying" PROVE (op = "Reboot" /\ pos' \in 1..3) \/ (Boot!Flashing /\ pos' \in 1..5)
      OBVIOUS
    <3>2. CASE c \in {"reboot", "bootloader"}
      <4>1. pos <= 4 /\ ((op = "Reboot" /\ pos = 1) \/ (Boot!Flashing /\ pos = 4))
        BY <1>5, <3>2
      <4>2. pos' \in 1..pos
        BY <1>7, <1>9, <2>1, <3>1, <4>1
      <4>3. QED
        BY <1>7, <4>1, <4>2
    <3>3. CASE c \notin {"reboot", "bootloader"}
      <4>1. stage = "dying"
        BY <1>6, <3>1, <3>3
      <4>2. (op = "Reboot" /\ pos \in 1..3) \/ (Boot!Flashing /\ pos \in 1..5)
        BY <2>1, <3>1, <4>1 DEF RootInv
      <4>3. pos' \in 1..pos
        BY <1>7, <1>9, <2>1, <3>1, <4>2
      <4>4. QED
        BY <1>7, <4>2, <4>3
    <3>4. QED
      BY <3>2, <3>3
  <2>3. trouble' = {} /\ needsSu' = "no" => (rooted' /\ stage' \in Boot!Up) \/ (op = "Reboot" /\ pos' \in 1..2)
    <3>1. SUFFICES ASSUME trouble' = {}, needsSu' = "no" PROVE (rooted' /\ stage' \in Boot!Up) \/ (op = "Reboot" /\ pos' \in 1..2)
      OBVIOUS
    <3>2. needsSu = "no"
      BY <1>1, <3>1
    <3>3. ~(Boot!Flashing /\ pos >= 2)
      BY <3>2 DEF RootInv
    <3>4. (rooted /\ stage \in Boot!Up) \/ (op = "Reboot" /\ pos \in 1..2)
      BY <2>1, <3>1, <3>2 DEF RootInv
    <3>5. CASE op = "Reboot" /\ pos = 1
      <4>1. pos' = 1
        BY <1>9, <1>10, <2>1, <3>1, <3>5
      <4>2. QED
        BY <3>5, <4>1
    <3>6. CASE ~(op = "Reboot" /\ pos = 1)
      <4>1. rooted /\ stage \in Boot!Up
        BY <1>2, <1>5, <3>4, <3>6
      <4>2. c \notin {"reboot", "bootloader", "again", "restart"}
        BY <1>5, <1>7, <3>3, <3>6
      <4>3. QED
        BY <1>6, <4>1, <4>2
    <3>7. QED
      BY <3>5, <3>6
  <2>4. Boot!Flashing /\ pos' >= 2 => needsSu' # "no"
    <3>1. Boot!Flashing /\ pos' >= 2 => pos >= 2
      BY <1>7, <1>9
    <3>2. QED
      BY <1>1, <3>1 DEF RootInv
  <2>5. QED
    BY <1>1, <1>4, <2>2, <2>3, <2>4 DEF RootInv
<1>15. FlashInv'
  <2>1. SUFFICES ASSUME "raised" \notin trouble'
                 PROVE  /\ ~Boot!Flashing \/ pos' = 0 \/ pos' > AtRestart => offModeCharge' /\ stage' # "fastboot" /\ ~next'
                        /\ Boot!Flashing /\ (pos' <= 5 \/ pos' = AtRestart) => offModeCharge'
    BY <1>4 DEF FlashInv
  <2>2. /\ ~Boot!Flashing \/ pos = 0 \/ pos > AtRestart => offModeCharge /\ stage # "fastboot" /\ ~next
        /\ Boot!Flashing /\ (pos <= 5 \/ pos = AtRestart) => offModeCharge
    BY <1>9, <2>1 DEF FlashInv
  <2>3. CASE ~Boot!Flashing
    BY <1>5, <1>6, <2>2, <2>3
  <2>4. CASE Boot!Flashing /\ pos' \in Boot!RetryFrom /\ pos' \in 1..pos
    <3>1. pos' > AtRestart => offModeCharge' /\ stage' # "fastboot" /\ ~next'
      <4>1. SUFFICES ASSUME pos' > AtRestart PROVE offModeCharge' /\ stage' # "fastboot" /\ ~next'
        OBVIOUS
      <4>2. pos > AtRestart
        BY <1>7, <2>4, <4>1
      <4>3. c \notin {"reboot", "bootloader", "again", "restart", "chargeOff", "chargeOn"}
        BY <1>5, <1>7, <1>10, <2>4, <4>2
      <4>4. QED
        BY <1>6, <2>2, <4>2, <4>3
    <3>2. pos' <= 5 => offModeCharge'
      <4>1. SUFFICES ASSUME pos' <= 5 PROVE offModeCharge'
        OBVIOUS
      <4>2. pos <= 5
        BY <1>1, <2>4, <4>1, RetriesStayOutside
      <4>3. c \notin {"chargeOff", "chargeOn"}
        BY <1>5, <1>7, <4>2
      <4>4. QED
        BY <1>6, <2>2, <2>4, <4>2, <4>3
    <3>3. pos' = AtRestart => offModeCharge'
      <4>1. SUFFICES ASSUME pos' = AtRestart PROVE offModeCharge'
        OBVIOUS
      <4>2. pos >= AtRestart
        BY <1>7, <2>4, <4>1
      <4>3. c \notin {"chargeOff", "chargeOn"}
        BY <1>5, <1>7, <4>2
      <4>4. QED
        BY <1>6, <1>7, <2>2, <2>4, <4>2, <4>3
    <3>4. QED
      BY <1>7, <2>4, <3>1, <3>2, <3>3
  <2>5. CASE Boot!Flashing /\ pos' = 7 + Len(images)
    BY <1>7, <2>5
  <2>6. QED
    BY <1>9, <2>1, <2>3, <2>4, <2>5
<1>16. QED
  BY <1>11, <1>12, <1>13, <1>14, <1>15

\* Every step of the device, of an operation or of an error keeps the invariant of booting.
LEMMA BootInvStep == ASSUME BootInv, [Boot!Next]_bootVars PROVE BootInv'
<1>1. CASE Boot!BootGoesOn \/ Boot!RestartsByItself
  BY <1>1, DeviceKeepsBootInv
<1>2. CASE Boot!Step
  BY <1>2, StepKeepsBootInv
<1>3. CASE Boot!Fails
  BY <1>3, FailsKeepsBootInv
<1>4. CASE Boot!NeedsSU
  BY <1>4, NeedsSUKeepsBootInv
<1>5. ASSUME NEW o \in Boot!Operation \ {"none"}, Boot!Call(o) PROVE BootInv'
  BY <1>5, CallKeepsBootInv
<1>6. CASE UNCHANGED bootVars
  <2>1. UNCHANGED <<stage, next, boots, rooted, offModeCharge, needsSu, op, images, pos, result, before, trouble>>
    BY <1>6 DEF bootVars
  <2>2. Boot!Row' = Boot!Row /\ AtRestart' = AtRestart /\ Boot!Flashing' = Boot!Flashing
    BY <2>1, RowStays
  <2>3. Boot!TypeOK' /\ PlaceInv' /\ RebootInv' /\ RootInv' /\ FlashInv'
    BY <2>1, <2>2 DEF BootInv, Boot!TypeOK, PlaceInv, RebootInv, RootInv, FlashInv
  <2>4. QED
    BY <2>3 DEF BootInv
<1>7. QED
  BY <1>1, <1>2, <1>3, <1>4, <1>5, <1>6 DEF Boot!Next

\* The invariant of booting has its properties as parts.
LEMMA BootInvImplies == ASSUME BootInv PROVE Boot!TypeOK /\ Boot!RebootIsReal /\ Boot!RootIsKnown /\ Boot!BootloaderIsLeft
<1>1. Boot!TypeOK /\ Boot!RebootIsReal
  BY DEF BootInv, RebootInv, Boot!RebootIsReal
<1>2. Boot!RootIsKnown
  BY DEF BootInv, RootInv, Boot!RootIsKnown
<1>3. Boot!BootloaderIsLeft
  BY DEF BootInv, FlashInv, Boot!BootloaderIsLeft
<1>4. QED
  BY <1>1, <1>2, <1>3

-----------------------------------------------------------------------------
(* The fleet *)

Recoverer(d) == <<"recovery", d>>
Provisioner(d) == <<"provision", d>>

\* Where each kind of thread can be.
PCsOf(t) ==
  CASE t[2] = "main" /\ t[1] = "recovery" -> {"done", "reset", "usb", "wait", "over", "died"}
    [] t[2] = "main" /\ t[1] = "provision" -> {"choose", "done", "died", "read", "over"}
    [] t[2] = "main" /\ t[1] = "monitor" -> {"watch", "died", "over"}
    [] t[2] # "main" /\ t[1] = "recovery" -> {"survey", "look", "surveyed", "extend", "done", "died", "over", "recover", "act", "wait"}
    [] OTHER -> {"done", "booted", "act", "extend", "died", "over"}

Fits(t, a, b) ==
  /\ a \in PCsOf(t)
  /\ IF a = "extend" THEN b \in PCsOf(t) \ {"extend", "over", "died", "look"} ELSE b = a

PlacesFit == \A t \in Care!Threads : Fits(t, pc[t][1], pc[t][2])

\* A thread is at the file for what it wants, and at most one thread of a process is.
AccessesFit ==
  /\ \A t \in Care!Threads : acc[t].at # "idle" => acc[t].for = Care!Wants(t) /\ Care!Wants(t) # "none"
  /\ \A t, u \in Care!Threads : acc[t].at # "idle" /\ acc[u].at # "idle" /\ (t[1] = u[1] \/ ~overlap) => t = u

\* As long as no two processes were at the file, it holds what was added since the last Reset, or is just being written with it.
FileHolds ==
  /\ \A t \in Care!Threads :
       /\ acc[t].at = "open" => acc[t].for # "reset" /\ acc[t].got = due /\ form # "torn"
       /\ acc[t].at = "dump" => acc[t].for = "extend" /\ acc[t].got = due /\ form = "torn"
       /\ acc[t].at = "load" => acc[t].for # "reset" /\ form = "whole"
       /\ acc[t].at = "remove" => acc[t].for = "reset" /\ form # "gone"
  /\ (\A t \in Care!Threads : acc[t].at # "dump") => blacklist = due /\ form # "torn"

\* The phases of the recovery, and of provisioning.
PhasesFit ==
  /\ pc[Care!Main("recovery")][1] \in {"reset", "usb"} => \A d \in Devices : pc[Recoverer(d)][1] \in {"done", "over"}
  /\ pc[Care!Main("recovery")][1] = "over" => \A d \in Devices : pc[Recoverer(d)][1] \in Care!Over
  /\ pc[Care!Main("provision")][1] \in {"over", "read"} => \A d \in Devices : pc[Provisioner(d)][1] \in Care!Over
  /\ pc[Care!Main("recovery")][1] # "over" =>
       \A d \in Devices : pc[Recoverer(d)][1] = "over" => pc[Provisioner(d)][1] = "over" /\ d \notin frameless

\* A device without its framework is on the list, on its way there, about to be restarted, or was dropped.
StoppedIsNoticed ==
  \A d \in frameless :
    \/ d \in due \union dropped
    \/ pc[Provisioner(d)][1] = "extend"
    \/ (pc[Care!Main("recovery")][1] = "usb" \/ pc[Recoverer(d)][1] = "recover") /\ d \in reboot
    \/ pc[Recoverer(d)][1] \in {"act", "wait", "extend"}

FleetInv ==
  /\ Care!TypeOK /\ PlacesFit /\ AccessesFit /\ PhasesFit
  /\ ~overlap => FileHolds /\ StoppedIsNoticed

\* A thread is its process and its device, or the main thread of its process.
LEMMA ThreadParts ==
  /\ \A t \in Care!Threads :
       /\ t[1] \in {"recovery", "provision", "monitor"}
       /\ t[2] \in Devices \union {"main"}
       /\ t[1] = "monitor" => t[2] = "main"
       /\ t[2] = "main" => t = Care!Main(t[1])
       /\ t[2] \in Devices /\ t[1] = "recovery" => t = Recoverer(t[2])
       /\ t[2] \in Devices /\ t[1] = "provision" => t = Provisioner(t[2])
  /\ \A d \in Devices :
       /\ d # "main"
       /\ Recoverer(d) \in Care!Threads /\ Recoverer(d)[1] = "recovery" /\ Recoverer(d)[2] = d
       /\ Provisioner(d) \in Care!Threads /\ Provisioner(d)[1] = "provision" /\ Provisioner(d)[2] = d
  /\ \A p \in {"recovery", "provision", "monitor"} : Care!Main(p) \in Care!Threads /\ Care!Main(p)[1] = p /\ Care!Main(p)[2] = "main"
BY ServicesAssumption DEF Care!FleetAssumption, Care!Threads, Care!Main, Recoverer, Provisioner

\* Where a thread may be is a place of the program.
LEMMA FitsTyped ==
  ASSUME NEW t \in Care!Threads, NEW a, NEW b, Fits(t, a, b)
  PROVE  a \in Care!PC /\ b \in Care!PC
BY ThreadParts DEF Fits, PCsOf, Care!PC, Care!Over

\* A thread that moves from a to b.
LEMMA Placed ==
  ASSUME Care!TypeOK, NEW t \in Care!Threads, NEW a, NEW b, Fits(t, a, b), pc' = [pc EXCEPT ![t] = <<a, b>>]
  PROVE  /\ pc' \in [Care!Threads -> Care!PC \X Care!PC]
         /\ pc'[t][1] = a /\ pc'[t][2] = b
         /\ \A u \in Care!Threads : u # t => pc'[u] = pc[u]
<1>1. <<a, b>> \in Care!PC \X Care!PC
  BY FitsTyped
<1>2. QED
  BY <1>1 DEF Care!TypeOK

\* A thread of a device that goes on to a place that fits keeps all places and phases fitting.
LEMMA DeviceMoves ==
  ASSUME FleetInv, NEW t \in Care!Threads, t[2] \in Devices, pc[t][1] \notin Care!Over,
         NEW a, NEW b, Fits(t, a, b), a # "over", pc' = [pc EXCEPT ![t] = <<a, b>>],
         frameless' \subseteq frameless \union {t[2]}, t[1] = "recovery" => frameless' \subseteq frameless
  PROVE  pc' \in [Care!Threads -> Care!PC \X Care!PC] /\ PlacesFit' /\ PhasesFit'
<1>1. /\ pc' \in [Care!Threads -> Care!PC \X Care!PC]
      /\ pc'[t][1] = a /\ pc'[t][2] = b
      /\ \A u \in Care!Threads : u # t => pc'[u] = pc[u]
  BY Placed DEF FleetInv
<1>2. PlacesFit'
  BY <1>1 DEF FleetInv, PlacesFit
<1>3. \A p \in {"recovery", "provision"} : Care!Main(p) \in Care!Threads /\ Care!Main(p) # t
  BY ThreadParts
<1>4. PhasesFit'
  BY <1>1, <1>3, ThreadParts DEF FleetInv, PhasesFit, Care!Over
<1>5. QED
  BY <1>1, <1>2, <1>4

\* A thread that wants nothing of the blacklist leaves every access to it as it is.
LEMMA AccessKept ==
  ASSUME FleetInv, NEW t \in Care!Threads, Care!Wants(t) = "none", \A u \in Care!Threads : u # t => pc'[u] = pc[u],
         UNCHANGED <<form, blacklist, acc, due, dropped, overlap>>
  PROVE  AccessesFit' /\ (~overlap => FileHolds)'
BY DEF FleetInv, AccessesFit, Care!Wants, FileHolds

\* What a thread of a device does to the devices without their framework.
LEMMA NoticedKept ==
  ASSUME FleetInv, NEW t \in Care!Threads, t[2] \in Devices,
         \A u \in Care!Threads : u # t => pc'[u] = pc[u],
         frameless' \subseteq frameless \union {t[2]}, due \union dropped \subseteq due' \union dropped', reboot \subseteq reboot', overlap' = overlap,
         t[2] \in frameless' =>
           \/ t[2] \in due' \union dropped'
           \/ t[2] \in frameless /\ t[1] = "recovery" /\ pc[t][1] \in {"survey", "look", "surveyed"}
           \/ t[2] \in frameless /\ t[1] = "recovery" /\ pc[t][1] = "recover" /\ t[2] \notin reboot
           \/ t[2] \in frameless /\ t[1] = "provision" /\ pc[t][1] # "extend"
           \/ t[1] = "recovery" /\ pc'[t][1] \in {"act", "wait", "extend"}
           \/ t[1] = "provision" /\ pc'[t][1] = "extend"
  PROVE  (~overlap => StoppedIsNoticed)'
<1>1. SUFFICES ASSUME ~overlap, NEW d \in frameless', d \in frameless \/ d = t[2], d \in Devices
               PROVE  \/ d \in due' \union dropped'
                      \/ pc'[Provisioner(d)][1] = "extend"
                      \/ (pc'[Care!Main("recovery")][1] = "usb" \/ pc'[Recoverer(d)][1] = "recover") /\ d \in reboot'
                      \/ pc'[Recoverer(d)][1] \in {"act", "wait", "extend"}
  BY DEF StoppedIsNoticed, FleetInv, Care!TypeOK, Provisioner, Recoverer, Care!Main
<1>2. d \in frameless =>
        \/ d \in due \union dropped
        \/ pc[Provisioner(d)][1] = "extend"
        \/ (pc[Care!Main("recovery")][1] = "usb" \/ pc[Recoverer(d)][1] = "recover") /\ d \in reboot
        \/ pc[Recoverer(d)][1] \in {"act", "wait", "extend"}
  BY <1>1 DEF FleetInv, StoppedIsNoticed
<1>3. /\ pc'[Care!Main("recovery")] = pc[Care!Main("recovery")]
      /\ pc'[Recoverer(d)] = pc[Recoverer(d)] \/ Recoverer(d) = t
      /\ pc'[Provisioner(d)] = pc[Provisioner(d)] \/ Provisioner(d) = t
  BY <1>1, ThreadParts
<1>4. t = Recoverer(t[2]) \/ t = Provisioner(t[2])
  BY ThreadParts
<1>5. CASE d # t[2]
  BY <1>1, <1>2, <1>3, <1>5, ThreadParts
<1>6. CASE d = t[2]
  BY <1>1, <1>2, <1>3, <1>4, <1>6, ThreadParts
<1>7. QED
  BY <1>5, <1>6

\* Looking at a device sends it to the blacklist or to the next phase.
LEMMA LookKeeps ==
  ASSUME FleetInv, NEW t \in Care!Threads, Care!Look(t)
  PROVE  FleetInv'
<1>1. PICK a, b : /\ a \in {"extend", "surveyed"} /\ b = "surveyed"
                  /\ pc' = [pc EXCEPT ![t] = <<a, b>>]
  BY DEF Care!Look, Care!Extends, Care!Goes, Care!At
<1>2. t[1] = "recovery" /\ t[2] \in Devices /\ Care!Wants(t) = "none" /\ pc[t][1] = "look" /\ Fits(t, a, b)
  BY <1>1, ThreadParts DEF Care!Look, FleetInv, PlacesFit, Fits, PCsOf, Care!Wants
<1>3. UNCHANGED <<form, blacklist, acc, due, dropped, overlap, step, bad, reboot, frameless>>
  BY DEF Care!Look, Care!script, Care!noted
<1>4. pc' \in [Care!Threads -> Care!PC \X Care!PC] /\ PlacesFit' /\ PhasesFit'
  BY <1>1, <1>2, <1>3, DeviceMoves DEF Care!Over
<1>5. \A u \in Care!Threads : u # t => pc'[u] = pc[u]
  BY <1>1, <1>2, Placed DEF FleetInv
<1>6. AccessesFit' /\ (~overlap => FileHolds)'
  BY <1>2, <1>3, <1>5, AccessKept
<1>7. (~overlap => StoppedIsNoticed)'
  BY <1>2, <1>3, <1>5, NoticedKept
<1>8. QED
  BY <1>3, <1>4, <1>6, <1>7 DEF FleetInv, Care!TypeOK

\* A restart puts the framework back, or fails and the device goes on the blacklist.
LEMMA RestartKeeps ==
  ASSUME FleetInv, NEW t \in Care!Threads, Care!Restart(t)
  PROVE  FleetInv'
<1>1. PICK a, b : /\ a \in {"wait", "extend"} /\ b = "wait"
                  /\ pc' = [pc EXCEPT ![t] = <<a, b>>]
  BY DEF Care!Restart, Care!Extends, Care!Goes, Care!At
<1>2. t[1] = "recovery" /\ t[2] \in Devices /\ Care!Wants(t) = "none" /\ pc[t][1] = "act" /\ Fits(t, a, b)
  BY <1>1, ThreadParts DEF Care!Restart, FleetInv, PlacesFit, Fits, PCsOf, Care!Wants
<1>3. UNCHANGED <<form, blacklist, acc, due, dropped, overlap, step, bad, reboot>> /\ frameless' \subseteq frameless
  BY DEF Care!Restart, Care!Restarted, Care!noted
<1>4. pc' \in [Care!Threads -> Care!PC \X Care!PC] /\ PlacesFit' /\ PhasesFit'
  BY <1>1, <1>2, <1>3, DeviceMoves DEF Care!Over
<1>5. pc'[t][1] = a /\ \A u \in Care!Threads : u # t => pc'[u] = pc[u]
  BY <1>1, <1>2, Placed DEF FleetInv
<1>6. AccessesFit' /\ (~overlap => FileHolds)'
  BY <1>2, <1>3, <1>5, AccessKept
<1>7. (~overlap => StoppedIsNoticed)'
  BY <1>1, <1>2, <1>3, <1>5, NoticedKept
<1>8. QED
  BY <1>3, <1>4, <1>6, <1>7 DEF FleetInv, Care!TypeOK

\* A recovery that ends without the blacklist has seen the device boot with its framework.
LEMMA WaitUntilFullyBootedKeeps ==
  ASSUME FleetInv, NEW t \in Care!Threads, Care!WaitUntilFullyBooted(t)
  PROVE  FleetInv'
<1>1. PICK a, b : /\ a = "extend" \/ (a = "done" /\ t[2] \notin frameless)
                  /\ b = "done"
                  /\ pc' = [pc EXCEPT ![t] = <<a, b>>]
  BY DEF Care!WaitUntilFullyBooted, Care!Extends, Care!Goes, Care!At
<1>2. t[1] = "recovery" /\ t[2] \in Devices /\ Care!Wants(t) = "none" /\ pc[t][1] = "wait" /\ Fits(t, a, b)
  BY <1>1, ThreadParts DEF Care!WaitUntilFullyBooted, FleetInv, PlacesFit, Fits, PCsOf, Care!Wants
<1>3. UNCHANGED <<form, blacklist, acc, due, dropped, overlap, step, bad, reboot, frameless>>
  BY DEF Care!WaitUntilFullyBooted, Care!script, Care!noted
<1>4. pc' \in [Care!Threads -> Care!PC \X Care!PC] /\ PlacesFit' /\ PhasesFit'
  BY <1>1, <1>2, <1>3, DeviceMoves DEF Care!Over
<1>5. pc'[t][1] = a /\ \A u \in Care!Threads : u # t => pc'[u] = pc[u]
  BY <1>1, <1>2, Placed DEF FleetInv
<1>6. AccessesFit' /\ (~overlap => FileHolds)'
  BY <1>2, <1>3, <1>5, AccessKept
<1>7. (~overlap => StoppedIsNoticed)'
  BY <1>1, <1>2, <1>3, <1>5, NoticedKept
<1>8. QED
  BY <1>3, <1>4, <1>6, <1>7 DEF FleetInv, Care!TypeOK

\* A provisioning goes on with a device that booted, and puts another one on the blacklist.
LEMMA BootedKeeps ==
  ASSUME FleetInv, NEW t \in Care!Threads, Care!Booted(t)
  PROVE  FleetInv'
<1>a. pc' = [pc EXCEPT ![t] = <<"act", "act">>] \/ pc' = [pc EXCEPT ![t] = <<"extend", "done">>]
  BY DEF Care!Booted, Care!Extends, Care!Goes, Care!At
<1>1. PICK a, b : /\ <<a, b>> \in {<<"act", "act">>, <<"extend", "done">>}
                  /\ pc' = [pc EXCEPT ![t] = <<a, b>>]
  BY <1>a
<1>2. t[1] = "provision" /\ t[2] \in Devices /\ Care!Wants(t) = "none" /\ pc[t][1] = "booted" /\ Fits(t, a, b)
  BY <1>1, ThreadParts DEF Care!Booted, FleetInv, PlacesFit, Fits, PCsOf, Care!Wants
<1>3. UNCHANGED <<form, blacklist, acc, due, dropped, overlap, step, bad, reboot>> /\ frameless' \subseteq frameless
  BY DEF Care!Booted, Care!Restarted, Care!noted
<1>4. pc' \in [Care!Threads -> Care!PC \X Care!PC] /\ PlacesFit' /\ PhasesFit'
  BY <1>1, <1>2, <1>3, DeviceMoves DEF Care!Over
<1>5. pc'[t][1] = a /\ \A u \in Care!Threads : u # t => pc'[u] = pc[u]
  BY <1>1, <1>2, Placed DEF FleetInv
<1>6. AccessesFit' /\ (~overlap => FileHolds)'
  BY <1>2, <1>3, <1>5, AccessKept
<1>7. (~overlap => StoppedIsNoticed)'
  BY <1>1, <1>2, <1>3, <1>5, NoticedKept
<1>8. QED
  BY <1>3, <1>4, <1>6, <1>7 DEF FleetInv, Care!TypeOK

\* A step of the provisioning that leaves a device without its framework is followed by a restart or by the blacklist.
LEMMA ActKeeps ==
  ASSUME FleetInv, NEW t \in Care!Threads, Care!Act(t)
  PROVE  FleetInv'
<1>1. t[1] = "provision" /\ t[2] \in Devices /\ Care!Wants(t) = "none" /\ pc[t][1] = "act"
  BY ThreadParts DEF Care!Act, FleetInv, PlacesFit, Fits, PCsOf, Care!Wants
<1>b. step[t[2]] \in 1..Len(Steps) /\ Len(Steps) \in Nat
  BY <1>1, ServicesAssumption DEF Care!FleetAssumption, FleetInv, Care!TypeOK
<1>a. \/ /\ \/ pc' = [pc EXCEPT ![t] = <<"done", "done">>]
            \/ pc' = [pc EXCEPT ![t] = <<"booted", "booted">>]
         /\ frameless' \subseteq frameless
      \/ pc' = [pc EXCEPT ![t] = <<"extend", "done">>] /\ frameless' \subseteq frameless \union {t[2]}
  BY DEF Care!Act, Care!StepPasses, Care!StepFails, Care!Extends, Care!Goes, Care!At, Care!Restarted
<1>2. PICK a, b : /\ <<a, b>> \in {<<"done", "done">>, <<"booted", "booted">>, <<"extend", "done">>}
                  /\ frameless' \subseteq IF a = "extend" THEN frameless \union {t[2]} ELSE frameless
                  /\ pc' = [pc EXCEPT ![t] = <<a, b>>]
  BY <1>a
<1>3. Fits(t, a, b)
  BY <1>1, <1>2, ThreadParts DEF Fits, PCsOf
<1>4. UNCHANGED <<form, blacklist, acc, due, dropped, overlap, bad, reboot>> /\ frameless' \subseteq frameless \union {t[2]}
  BY <1>2 DEF Care!Act, Care!noted
<1>5. step' \in [Devices -> 1..Len(Steps)]
  BY <1>1, <1>b DEF Care!Act, Care!StepPasses, Care!StepFails, FleetInv, Care!TypeOK
<1>6. pc' \in [Care!Threads -> Care!PC \X Care!PC] /\ PlacesFit' /\ PhasesFit'
  BY <1>1, <1>2, <1>3, <1>4, DeviceMoves DEF Care!Over
<1>7. pc'[t][1] = a /\ \A u \in Care!Threads : u # t => pc'[u] = pc[u]
  BY <1>2, <1>3, Placed DEF FleetInv
<1>8. AccessesFit' /\ (~overlap => FileHolds)'
  BY <1>1, <1>4, <1>7, AccessKept
<1>9. (~overlap => StoppedIsNoticed)'
  BY <1>1, <1>2, <1>4, <1>7, NoticedKept
<1>10. frameless' \subseteq Devices
  BY <1>1, <1>4 DEF FleetInv, Care!TypeOK
<1>11. QED
  BY <1>4, <1>5, <1>6, <1>8, <1>9, <1>10 DEF FleetInv, Care!TypeOK

\* An access that goes on changes no other one.
LEMMA Moved ==
  ASSUME Care!TypeOK, NEW t \in Care!Threads, NEW place \in {"idle", "check", "load", "remove", "open", "dump"},
         NEW got \in SUBSET Devices, Care!Moves(t, place, got)
  PROVE  /\ acc' \in [Care!Threads -> [for : {"none", "read", "extend", "reset"},
                                  at : {"idle", "check", "load", "remove", "open", "dump"}, got : SUBSET Devices]]
         /\ acc'[t].for = acc[t].for /\ acc'[t].at = place /\ acc'[t].got = got
         /\ \A u \in Care!Threads : u # t => acc'[u] = acc[u]
BY DEF Care!Moves, Care!TypeOK

\* An access that ends changes no other one.
LEMMA Freed ==
  ASSUME Care!TypeOK, NEW t \in Care!Threads, acc' = [acc EXCEPT ![t] = Care!Idle]
  PROVE  /\ acc' \in [Care!Threads -> [for : {"none", "read", "extend", "reset"},
                                  at : {"idle", "check", "load", "remove", "open", "dump"}, got : SUBSET Devices]]
         /\ acc'[t].at = "idle"
         /\ \A u \in Care!Threads : u # t => acc'[u] = acc[u]
<1>1. Care!Idle \in [for : {"none", "read", "extend", "reset"},
                at : {"idle", "check", "load", "remove", "open", "dump"}, got : SUBSET Devices] /\ Care!Idle.at = "idle"
  BY DEF Care!Idle
<1>2. QED
  BY <1>1 DEF Care!TypeOK

\* An access begins when no other thread of the process has one, and is noticed when another process has one.
LEMMA BeginKeeps ==
  ASSUME FleetInv, NEW t \in Care!Threads, Care!Begin(t)
  PROVE  FleetInv'
<1>1. UNCHANGED <<form, blacklist, pc, due, dropped, step, bad, reboot, frameless>>
  BY DEF Care!Begin, Care!script, Care!noted
<1>2. Care!Wants(t) # "none" /\ Care!Wants(t) \in {"none", "read", "extend", "reset"}
  BY DEF Care!Begin, Care!Wants
<1>3. /\ acc' \in [Care!Threads -> [for : {"none", "read", "extend", "reset"},
                               at : {"idle", "check", "load", "remove", "open", "dump"}, got : SUBSET Devices]]
      /\ acc'[t].for = Care!Wants(t) /\ acc'[t].at = "check"
      /\ \A u \in Care!Threads : u # t => acc'[u] = acc[u]
  BY <1>2 DEF Care!Begin, FleetInv, Care!TypeOK
<1>4. acc[t].at = "idle" /\ \A u \in Care!Threads : u[1] = t[1] => acc[u].at = "idle"
  BY DEF Care!Begin, Care!Lock, Care!OfProcess
<1>5. /\ overlap' \in BOOLEAN
      /\ ~overlap' => ~overlap /\ \A u \in Care!Threads : u[1] # t[1] => acc[u].at = "idle"
  BY DEF Care!Begin, Care!Sees, FleetInv, Care!TypeOK
<1>6. \A u \in Care!Threads : Care!Wants(u)' = Care!Wants(u)
  BY <1>1 DEF Care!Wants
<1>7. AccessesFit'
  BY <1>2, <1>3, <1>4, <1>5, <1>6 DEF FleetInv, AccessesFit
<1>8. (~overlap => FileHolds)'
  BY <1>1, <1>3, <1>4, <1>5 DEF FleetInv, FileHolds
<1>9. PlacesFit' /\ PhasesFit' /\ (~overlap => StoppedIsNoticed)'
  BY <1>1, <1>5 DEF FleetInv, PlacesFit, Fits, PCsOf, PhasesFit, StoppedIsNoticed, Care!Main, Recoverer, Provisioner
<1>10. QED
  BY <1>1, <1>3, <1>5, <1>7, <1>8, <1>9 DEF FleetInv, Care!TypeOK

\* A step that leaves the scripts where they are.
LEMMA ScriptsKept ==
  ASSUME FleetInv, UNCHANGED <<pc, reboot, frameless, due, dropped, overlap>>
  PROVE  PlacesFit' /\ PhasesFit' /\ (~overlap => StoppedIsNoticed)' /\ \A u \in Care!Threads : Care!Wants(u)' = Care!Wants(u)
BY DEF FleetInv, PlacesFit, Fits, PCsOf, PhasesFit, StoppedIsNoticed, Care!Main, Recoverer, Provisioner, Care!Wants

\* As long as no two processes were at the file, only one thread is.
LEMMA OneAtTheFile ==
  ASSUME FleetInv, NEW t \in Care!Threads, acc[t].at # "idle"
  PROVE  /\ acc[t].for = Care!Wants(t) /\ Care!Wants(t) # "none"
         /\ \A u \in Care!Threads : u # t => (u[1] # t[1] /\ overlap) \/ acc[u].at = "idle"
BY DEF FleetInv, AccessesFit

\* Reading the file gives the entries that are due, unless another process was seen.
LEMMA ReadKeeps ==
  ASSUME FleetInv, NEW t \in Care!Threads, Care!Read(t)
  PROVE  FleetInv'
<1>1. UNCHANGED <<pc, due, dropped, overlap, step, bad, reboot, frameless>>
  BY DEF Care!Read, Care!script, Care!noted
<1>2. PlacesFit' /\ PhasesFit' /\ (~overlap => StoppedIsNoticed)' /\ \A u \in Care!Threads : Care!Wants(u)' = Care!Wants(u)
  BY <1>1, ScriptsKept
<1>3. acc[t].at \in {"check", "load", "remove"} /\ acc[t].for # "reset"
  BY DEF Care!Read
<1>4. \A u \in Care!Threads : u # t => (u[1] # t[1] /\ overlap) \/ acc[u].at = "idle"
  BY <1>3, OneAtTheFile
<1>5. PICK place \in {"load", "remove", "open"}, got \in SUBSET Devices :
        /\ Care!Moves(t, place, got)
        /\ \/ acc[t].at = "check" /\ form = "gone" /\ place = "open" /\ got = {} /\ form' = form /\ blacklist' = blacklist
           \/ acc[t].at = "check" /\ form # "gone" /\ place = "load" /\ got = {} /\ form' = form /\ blacklist' = blacklist
           \/ acc[t].at = "load" /\ form = "whole" /\ place = "open" /\ got = blacklist /\ form' = form /\ blacklist' = blacklist
           \/ acc[t].at = "load" /\ form # "whole" /\ place = "remove" /\ form' = form /\ blacklist' = blacklist
           \/ acc[t].at = "remove" /\ place = "open" /\ form' = "gone" /\ blacklist' = {}
  <2>1. blacklist \in SUBSET Devices
    BY DEF FleetInv, Care!TypeOK
  <2>2. CASE acc[t].at = "check"
    BY <2>2 DEF Care!Read
  <2>3. CASE acc[t].at = "load"
    BY <2>1, <2>3 DEF Care!Read
  <2>4. CASE acc[t].at = "remove"
    BY <2>4 DEF Care!Read, Care!File
  <2>5. QED
    BY <1>3, <2>2, <2>3, <2>4
<1>6. /\ acc' \in [Care!Threads -> [for : {"none", "read", "extend", "reset"},
                               at : {"idle", "check", "load", "remove", "open", "dump"}, got : SUBSET Devices]]
      /\ acc'[t].for = acc[t].for /\ acc'[t].at = place /\ acc'[t].got = got
      /\ \A u \in Care!Threads : u # t => acc'[u] = acc[u]
  BY <1>5, Moved DEF FleetInv
<1>7. AccessesFit'
  BY <1>1, <1>2, <1>3, <1>6 DEF FleetInv, AccessesFit
<1>8. (~overlap => FileHolds)'
  <2>1. SUFFICES ASSUME ~overlap PROVE FileHolds'
    BY <1>1
  <2>2. FileHolds /\ \A u \in Care!Threads : u # t => acc[u].at = "idle"
    BY <2>1, <1>4 DEF FleetInv
  <2>3. blacklist = due /\ form # "torn" /\ (form = "gone" => blacklist = {})
    BY <2>2, <1>3 DEF FileHolds, FleetInv, Care!TypeOK
  <2>4. form \in {"gone", "torn", "whole"}
    BY DEF FleetInv, Care!TypeOK
  <2>5. QED
    BY <1>1, <1>3, <1>5, <1>6, <2>2, <2>3, <2>4 DEF FileHolds
<1>9. form' \in {"gone", "torn", "whole"} /\ blacklist' \subseteq Devices /\ (form' # "whole" => blacklist' = {})
  BY <1>5 DEF FleetInv, Care!TypeOK
<1>10. QED
  BY <1>1, <1>2, <1>6, <1>7, <1>8, <1>9 DEF FleetInv, Care!TypeOK

\* A thread that has not ended moves on, and no main thread to a later phase.
LEMMA PhasesKept ==
  ASSUME FleetInv, NEW t \in Care!Threads, pc[t][1] \notin Care!Over,
         \A u \in Care!Threads : u # t => pc'[u] = pc[u], frameless' \subseteq frameless,
         t[2] \in Devices => pc'[t][1] # "over",
         t = Care!Main("recovery") => pc'[t][1] # "over" /\ (pc'[t][1] \in {"reset", "usb"} => pc[t][1] \in {"reset", "usb"}),
         t = Care!Main("provision") => (pc'[t][1] \in {"over", "read"} => pc[t][1] \in {"over", "read"})
  PROVE  PhasesFit'
<1>1. /\ pc[Care!Main("recovery")][1] \in {"reset", "usb"} => \A d \in Devices : pc[Recoverer(d)][1] \in {"done", "over"}
      /\ pc[Care!Main("recovery")][1] = "over" => \A d \in Devices : pc[Recoverer(d)][1] \in Care!Over
      /\ pc[Care!Main("provision")][1] \in {"over", "read"} => \A d \in Devices : pc[Provisioner(d)][1] \in Care!Over
      /\ pc[Care!Main("recovery")][1] # "over" =>
           \A d \in Devices : pc[Recoverer(d)][1] = "over" => pc[Provisioner(d)][1] = "over" /\ d \notin frameless
  BY DEF FleetInv, PhasesFit
<1>2. CASE t[2] \in Devices
  <2>1. Care!Main("recovery") # t /\ Care!Main("provision") # t
    BY <1>2, ThreadParts
  <2>2. pc'[Care!Main("recovery")] = pc[Care!Main("recovery")] /\ pc'[Care!Main("provision")] = pc[Care!Main("provision")]
    BY <2>1, ThreadParts
  <2>3. \A d \in Devices : /\ Recoverer(d) # t => pc'[Recoverer(d)] = pc[Recoverer(d)]
                           /\ Provisioner(d) # t => pc'[Provisioner(d)] = pc[Provisioner(d)]
    BY ThreadParts
  <2>4. QED
    BY <1>1, <1>2, <2>2, <2>3, ThreadParts DEF PhasesFit, Care!Over
<1>3. CASE t[2] \notin Devices
  <2>1. t = Care!Main(t[1])
    BY <1>3, ThreadParts
  <2>2. \A d \in Devices : pc'[Recoverer(d)] = pc[Recoverer(d)] /\ pc'[Provisioner(d)] = pc[Provisioner(d)]
    BY <1>3, ThreadParts
  <2>3. /\ t = Care!Main("recovery") \/ pc'[Care!Main("recovery")] = pc[Care!Main("recovery")]
        /\ t = Care!Main("provision") \/ pc'[Care!Main("provision")] = pc[Care!Main("provision")]
    BY ThreadParts
  <2>4. QED
    BY <1>1, <2>2, <2>3 DEF PhasesFit, Care!Over
<1>4. QED
  BY <1>2, <1>3

\* A thread that dies of a file it cannot read has its own access only.
LEMMA DiesKeeps ==
  ASSUME FleetInv, NEW t \in Care!Threads, Care!Dies(t)
  PROVE  FleetInv'
<1>1. UNCHANGED <<form, blacklist, due, dropped, overlap, step, bad, reboot, frameless>>
  BY DEF Care!Dies, Care!script, Care!noted
<1>2. /\ acc' \in [Care!Threads -> [for : {"none", "read", "extend", "reset"},
                               at : {"idle", "check", "load", "remove", "open", "dump"}, got : SUBSET Devices]]
      /\ acc'[t].at = "idle" /\ \A u \in Care!Threads : u # t => acc'[u] = acc[u]
  BY Freed DEF Care!Dies, FleetInv
<1>3. overlap
  BY DEF Care!Dies, FleetInv, FileHolds
<1>4. Care!Wants(t) # "none" /\ pc[t][1] \notin Care!Over
  BY OneAtTheFile DEF Care!Dies, Care!Wants, Care!Over
<1>5. Fits(t, "died", "died") /\ pc' = [pc EXCEPT ![t] = <<"died", "died">>]
  BY ThreadParts DEF Fits, PCsOf, Care!Dies, Care!At
<1>6. pc' \in [Care!Threads -> Care!PC \X Care!PC] /\ pc'[t][1] = "died" /\ pc'[t][2] = "died" /\ \A u \in Care!Threads : u # t => pc'[u] = pc[u]
  BY <1>5, Placed DEF FleetInv
<1>7. PlacesFit'
  BY <1>5, <1>6 DEF FleetInv, PlacesFit
<1>8. PhasesFit'
  BY <1>1, <1>4, <1>6, PhasesKept
<1>w. \A u \in Care!Threads : u # t => Care!Wants(u)' = Care!Wants(u)
  BY <1>6 DEF Care!Wants
<1>9. AccessesFit'
  BY <1>1, <1>2, <1>w DEF FleetInv, AccessesFit
<1>10. QED
  BY <1>1, <1>2, <1>3, <1>6, <1>7, <1>8, <1>9 DEF FleetInv, Care!TypeOK

\* Writing the file keeps the entries that were read and adds the device's.
LEMMA WriteKeeps ==
  ASSUME FleetInv, NEW t \in Care!Threads, Care!Write(t)
  PROVE  FleetInv'
<1>1. UNCHANGED <<overlap, step, bad, reboot, frameless>> /\ acc[t].for = "extend" /\ acc[t].at \in {"open", "dump"}
  BY DEF Care!Write, Care!script, Care!noted
<1>2. pc[t][1] = "extend" /\ \A u \in Care!Threads : u # t => (u[1] # t[1] /\ overlap) \/ acc[u].at = "idle"
  BY <1>1, OneAtTheFile DEF Care!Wants
<1>3. t[2] \in Devices /\ t[1] \in {"recovery", "provision"} /\ pc[t][2] \in PCsOf(t) \ {"extend", "over", "died", "look"}
  BY <1>2, ThreadParts DEF FleetInv, PlacesFit, Fits, PCsOf
<1>4. acc[t].got \in SUBSET Devices
  BY DEF FleetInv, Care!TypeOK
<1>5. CASE acc[t].at = "open"
  <2>1. form' = "torn" /\ blacklist' = {} /\ pc' = pc /\ due' = due /\ dropped' = dropped /\ Care!Moves(t, "dump", acc[t].got)
    BY <1>5 DEF Care!Write, Care!File, Care!noted
  <2>2. PlacesFit' /\ PhasesFit' /\ (~overlap => StoppedIsNoticed)' /\ \A u \in Care!Threads : Care!Wants(u)' = Care!Wants(u)
    BY <1>1, <2>1, ScriptsKept
  <2>3. /\ acc' \in [Care!Threads -> [for : {"none", "read", "extend", "reset"},
                                 at : {"idle", "check", "load", "remove", "open", "dump"}, got : SUBSET Devices]]
        /\ acc'[t].for = "extend" /\ acc'[t].at = "dump" /\ acc'[t].got = acc[t].got
        /\ \A u \in Care!Threads : u # t => acc'[u] = acc[u]
    BY <1>1, <1>4, <2>1, Moved DEF FleetInv
  <2>4. AccessesFit'
    BY <1>1, <1>5, <2>2, <2>3 DEF FleetInv, AccessesFit
  <2>5. (~overlap => FileHolds)'
    BY <1>1, <1>2, <1>5, <2>1, <2>3 DEF FleetInv, FileHolds
  <2>6. QED
    BY <1>1, <2>1, <2>2, <2>3, <2>4, <2>5 DEF FleetInv, Care!TypeOK
<1>6. CASE acc[t].at = "dump"
  <2>1. /\ pc' = [pc EXCEPT ![t] = <<pc[t][2], pc[t][2]>>] /\ due' = due \union {t[2]} /\ dropped' = dropped \ {t[2]} /\ acc' = [acc EXCEPT ![t] = Care!Idle]
        /\ \/ form # "gone" /\ form' = "whole" /\ blacklist' = acc[t].got \union {t[2]}
           \/ form # "gone" /\ form' = "torn" /\ blacklist' = {} /\ \E u \in Care!Threads \ {t} : acc[u].at = "dump"
           \/ form = "gone" /\ form' = form /\ blacklist' = blacklist
    BY <1>6 DEF Care!Write, Care!File, Care!At
  <2>2. /\ acc' \in [Care!Threads -> [for : {"none", "read", "extend", "reset"},
                                 at : {"idle", "check", "load", "remove", "open", "dump"}, got : SUBSET Devices]]
        /\ acc'[t].at = "idle" /\ \A u \in Care!Threads : u # t => acc'[u] = acc[u]
    BY <2>1, Freed DEF FleetInv
  <2>3. Fits(t, pc[t][2], pc[t][2])
    BY <1>3 DEF Fits
  <2>4. pc' \in [Care!Threads -> Care!PC \X Care!PC] /\ PlacesFit' /\ PhasesFit'
    BY <1>1, <1>2, <1>3, <2>1, <2>3, DeviceMoves DEF Care!Over
  <2>5. \A u \in Care!Threads : u # t => pc'[u] = pc[u]
    BY <2>1, <2>3, Placed DEF FleetInv
  <2>6. (~overlap => StoppedIsNoticed)'
    BY <1>1, <1>3, <2>1, <2>5, NoticedKept
  <2>w. \A u \in Care!Threads : u # t => Care!Wants(u)' = Care!Wants(u)
    BY <2>5 DEF Care!Wants
  <2>7. AccessesFit'
    BY <1>1, <2>2, <2>w DEF FleetInv, AccessesFit
  <2>8. (~overlap => FileHolds)'
    BY <1>1, <1>2, <1>6, <2>1, <2>2 DEF FleetInv, FileHolds
  <2>9. /\ form' \in {"gone", "torn", "whole"} /\ blacklist' \subseteq Devices /\ (form' # "whole" => blacklist' = {}) /\ due' \subseteq Devices
        /\ dropped' \subseteq Devices
    BY <1>3, <1>4, <2>1 DEF FleetInv, Care!TypeOK
  <2>10. QED
    BY <1>1, <2>2, <2>4, <2>6, <2>7, <2>8, <2>9 DEF FleetInv, Care!TypeOK
<1>7. QED
  BY <1>1, <1>5, <1>6

\* A reset empties the file and what is due together.
LEMMA ResetKeeps ==
  ASSUME FleetInv, NEW t \in Care!Threads, Care!Reset(t)
  PROVE  FleetInv'
<1>1. UNCHANGED <<overlap, step, bad, reboot, frameless>> /\ acc[t].for = "reset" /\ acc[t].at \in {"check", "remove"}
  BY DEF Care!Reset, Care!script, Care!noted
<1>2. pc[t][1] = "reset" /\ \A u \in Care!Threads : u # t => (u[1] # t[1] /\ overlap) \/ acc[u].at = "idle"
  BY <1>1, OneAtTheFile DEF Care!Wants
<1>3. t = Care!Main("recovery")
  BY <1>2, ThreadParts DEF FleetInv, PlacesFit, Fits, PCsOf
<1>4. CASE acc'[t].at # "idle"
  <2>1. form # "gone" /\ Care!Moves(t, "remove", {}) /\ acc[t].at = "check" /\ UNCHANGED <<form, blacklist, pc, due, dropped>>
    BY <1>4 DEF Care!Reset, Care!ResetEnds, Care!noted, FleetInv, Care!TypeOK, Care!Idle
  <2>2. PlacesFit' /\ PhasesFit' /\ (~overlap => StoppedIsNoticed)' /\ \A u \in Care!Threads : Care!Wants(u)' = Care!Wants(u)
    BY <1>1, <2>1, ScriptsKept
  <2>3. /\ acc' \in [Care!Threads -> [for : {"none", "read", "extend", "reset"},
                                 at : {"idle", "check", "load", "remove", "open", "dump"}, got : SUBSET Devices]]
        /\ acc'[t].for = "reset" /\ acc'[t].at = "remove"
        /\ \A u \in Care!Threads : u # t => acc'[u] = acc[u]
    BY <1>1, <2>1, Moved DEF FleetInv
  <2>4. AccessesFit'
    BY <1>1, <2>1, <2>2, <2>3 DEF FleetInv, AccessesFit
  <2>5. (~overlap => FileHolds)'
    BY <1>1, <1>2, <2>1, <2>3 DEF FleetInv, FileHolds
  <2>6. QED
    BY <1>1, <2>1, <2>2, <2>3, <2>4, <2>5 DEF FleetInv, Care!TypeOK
<1>5. CASE acc'[t].at = "idle"
  <2>1. /\ pc' = [pc EXCEPT ![t] = <<"usb", "usb">>] /\ due' = {} /\ dropped' = dropped \union (due \ reboot) /\ acc' = [acc EXCEPT ![t] = Care!Idle]
        /\ form' = "gone" /\ blacklist' = {}
    BY <1>5 DEF Care!Reset, Care!ResetEnds, Care!File, Care!At, Care!Moves, FleetInv, Care!TypeOK
  <2>2. /\ acc' \in [Care!Threads -> [for : {"none", "read", "extend", "reset"},
                                 at : {"idle", "check", "load", "remove", "open", "dump"}, got : SUBSET Devices]]
        /\ \A u \in Care!Threads : u # t => acc'[u] = acc[u]
    BY <2>1, Freed DEF FleetInv
  <2>3. Fits(t, "usb", "usb")
    BY <1>3, ThreadParts DEF Fits, PCsOf
  <2>4. pc' \in [Care!Threads -> Care!PC \X Care!PC] /\ pc'[t][1] = "usb" /\ pc'[t][2] = "usb" /\ \A u \in Care!Threads : u # t => pc'[u] = pc[u]
    BY <2>1, <2>3, Placed DEF FleetInv
  <2>5. PlacesFit'
    BY <2>3, <2>4 DEF FleetInv, PlacesFit
  <2>6. PhasesFit'
    BY <1>1, <1>2, <1>3, <2>4, ThreadParts, PhasesKept DEF Care!Over
  <2>7. (~overlap => StoppedIsNoticed)'
    <3>1. SUFFICES ASSUME ~overlap, NEW d \in frameless PROVE d \in due' \union dropped' \/ pc'[Provisioner(d)][1] = "extend" \/ d \in reboot'
      BY <1>1, <1>3, <2>4 DEF StoppedIsNoticed, Care!Main
    <3>2. d \in Devices /\ pc'[Provisioner(d)] = pc[Provisioner(d)] /\ pc[Recoverer(d)][1] \in {"done", "over"}
      BY <1>2, <1>3, <2>4, ThreadParts DEF FleetInv, Care!TypeOK, PhasesFit
    <3>3. QED
      BY <1>1, <1>2, <1>3, <2>1, <3>1, <3>2 DEF FleetInv, StoppedIsNoticed
  <2>w. \A u \in Care!Threads : u # t => Care!Wants(u)' = Care!Wants(u)
    BY <2>4 DEF Care!Wants
  <2>8. AccessesFit'
    BY <1>1, <1>5, <2>2, <2>w DEF FleetInv, AccessesFit
  <2>9. (~overlap => FileHolds)'
    BY <1>1, <1>2, <1>5, <2>1, <2>2 DEF FleetInv, FileHolds
  <2>10. QED
    BY <1>1, <2>1, <2>2, <2>4, <2>5, <2>6, <2>7, <2>8, <2>9 DEF FleetInv, Care!TypeOK
<1>6. QED
  BY <1>4, <1>5

\* What a thread does with the entries it has read.
LEMMA HasReadKeeps ==
  ASSUME FleetInv, NEW t \in Care!Threads, Care!HasRead(t)
  PROVE  FleetInv'
<1>1. /\ UNCHANGED <<form, blacklist, due, dropped, overlap, step, bad, frameless>> /\ acc[t].for = "read" /\ acc[t].at = "open"
      /\ reboot \subseteq reboot' /\ reboot' \subseteq reboot \union {t[2]} /\ (t[2] \notin Devices => reboot' = reboot)
      /\ acc' = [acc EXCEPT ![t] = Care!Idle] /\ pc[t][1] \in {"survey", "surveyed", "recover", "choose", "read", "watch"}
  BY ThreadParts DEF Care!HasRead, Care!script, Care!noted, FleetInv, PlacesFit, Fits, PCsOf
<1>2. /\ acc' \in [Care!Threads -> [for : {"none", "read", "extend", "reset"},
                               at : {"idle", "check", "load", "remove", "open", "dump"}, got : SUBSET Devices]]
      /\ acc'[t].at = "idle" /\ \A u \in Care!Threads : u # t => acc'[u] = acc[u]
  BY <1>1, Freed DEF FleetInv
<1>3. reboot' \subseteq Devices
  BY <1>1 DEF FleetInv, Care!TypeOK
<1>4. (~overlap => FileHolds)'
  BY <1>1, <1>2 DEF FleetInv, FileHolds
<1>5. (\A u \in Care!Threads : u # t => pc'[u] = pc[u]) => AccessesFit'
  <2>1. SUFFICES ASSUME \A u \in Care!Threads : u # t => pc'[u] = pc[u] PROVE AccessesFit'
    OBVIOUS
  <2>2. \A u \in Care!Threads : u # t => Care!Wants(u)' = Care!Wants(u)
    BY <2>1 DEF Care!Wants
  <2>3. QED
    BY <1>1, <1>2, <2>2 DEF FleetInv, AccessesFit
<1>6. CASE pc[t][1] \in {"survey", "surveyed", "recover"}
  <2>1. t[1] = "recovery" /\ t[2] \in Devices
    BY <1>6, ThreadParts DEF FleetInv, PlacesFit, Fits, PCsOf
  <2>2. PICK a \in {"surveyed", "look", "done", "act", "wait"} :
          /\ pc' = [pc EXCEPT ![t] = <<a, a>>]
          /\ pc[t][1] = "recover" /\ t[2] \notin acc[t].got /\ t[2] \in reboot => a = "act"
    <3>1. CASE pc[t][1] = "survey"
      BY <3>1 DEF Care!HasRead, Care!Goes, Care!At
    <3>2. CASE pc[t][1] = "surveyed"
      BY <3>2 DEF Care!HasRead, Care!Goes, Care!At
    <3>3. CASE pc[t][1] = "recover"
      BY <3>3 DEF Care!HasRead, Care!Goes, Care!At, Care!RecoverDevice
    <3>4. QED
      BY <1>6, <3>1, <3>2, <3>3
  <2>3. Fits(t, a, a)
    BY <2>1, ThreadParts DEF Fits, PCsOf
  <2>4. pc' \in [Care!Threads -> Care!PC \X Care!PC] /\ PlacesFit' /\ PhasesFit'
    BY <1>1, <1>6, <2>1, <2>2, <2>3, DeviceMoves DEF Care!Over
  <2>5. pc'[t][1] = a /\ \A u \in Care!Threads : u # t => pc'[u] = pc[u]
    BY <2>2, <2>3, Placed DEF FleetInv
  <2>6. (~overlap => StoppedIsNoticed)'
    <3>1. SUFFICES ASSUME ~overlap PROVE (~overlap => StoppedIsNoticed)'
      BY <1>1
    <3>2. acc[t].got = due
      BY <1>1, <3>1 DEF FleetInv, FileHolds
    <3>3. QED
      BY <1>1, <1>6, <2>1, <2>2, <2>5, <3>2, NoticedKept
  <2>7. QED
    BY <1>1, <1>2, <1>3, <1>4, <1>5, <2>4, <2>5, <2>6 DEF FleetInv, Care!TypeOK
<1>7. CASE pc[t][1] = "choose"
  <2>1. t = Care!Main("provision") /\ t[1] = "provision" /\ t[2] = "main"
    BY <1>7, ThreadParts DEF FleetInv, PlacesFit, Fits, PCsOf
  <2>2. pc' = [u \in Care!Threads |-> IF u = t THEN Care!At("done")
                                      ELSE IF u[1] = t[1] /\ u[2] \notin acc[t].got /\ pc[u] = Care!At("done") THEN Care!At("booted") ELSE pc[u]]
    BY <1>7 DEF Care!HasRead
  <2>3. /\ pc'[t] = <<"done", "done">>
        /\ \A u \in Care!Threads : u # t => \/ pc'[u] = pc[u]
                                            \/ u[1] = "provision" /\ u[2] \in Devices /\ pc[u] = <<"done", "done">> /\ pc'[u] = <<"booted", "booted">>
    BY <2>1, <2>2, ThreadParts DEF Care!At
  <2>4. pc' \in [Care!Threads -> Care!PC \X Care!PC]
    BY <2>2 DEF FleetInv, Care!TypeOK, Care!At, Care!PC, Care!Over
  <2>5. PlacesFit'
    <3>1. SUFFICES ASSUME NEW u \in Care!Threads PROVE Fits(u, pc'[u][1], pc'[u][2])
      BY DEF PlacesFit, Fits, PCsOf
    <3>2. Fits(u, pc[u][1], pc[u][2])
      BY DEF FleetInv, PlacesFit
    <3>3. CASE pc'[u] = pc[u]
      BY <3>2, <3>3
    <3>4. CASE u = t
      BY <2>1, <2>3, <3>4 DEF Fits, PCsOf
    <3>5. CASE u[1] = "provision" /\ u[2] \in Devices /\ pc'[u] = <<"booted", "booted">>
      BY <3>5, ThreadParts DEF Fits, PCsOf
    <3>6. QED
      BY <2>3, <3>3, <3>4, <3>5
  <2>6. /\ pc'[Care!Main("recovery")] = pc[Care!Main("recovery")]
        /\ \A d \in Devices : /\ pc'[Recoverer(d)] = pc[Recoverer(d)]
                              /\ pc'[Provisioner(d)] = pc[Provisioner(d)] \/ pc[Provisioner(d)] = <<"done", "done">>
    BY <2>1, <2>3, ThreadParts
  <2>7. PhasesFit'
    BY <1>1, <2>1, <2>3, <2>6 DEF FleetInv, PhasesFit, Care!Over
  <2>8. (~overlap => StoppedIsNoticed)'
    BY <1>1, <2>6 DEF FleetInv, Care!TypeOK, StoppedIsNoticed
  <2>9. AccessesFit'
    <3>1. \A u \in Care!Threads : acc'[u].at # "idle" => u # t /\ acc'[u] = acc[u] /\ Care!Wants(u)' = Care!Wants(u)
      <4>1. SUFFICES ASSUME NEW u \in Care!Threads, acc'[u].at # "idle"
                     PROVE  u # t /\ acc'[u] = acc[u] /\ Care!Wants(u)' = Care!Wants(u)
        BY DEF Care!Wants
      <4>2. u # t /\ acc'[u] = acc[u] /\ Care!Wants(u) # "none"
        BY <1>2, <4>1, OneAtTheFile
      <4>3. pc'[u] = pc[u]
        BY <2>3, <4>2 DEF Care!Wants
      <4>4. QED
        BY <4>2, <4>3 DEF Care!Wants
    <3>2. QED
      BY <1>1, <3>1 DEF FleetInv, AccessesFit
  <2>10. QED
    BY <1>1, <1>2, <1>3, <1>4, <2>4, <2>5, <2>7, <2>8, <2>9 DEF FleetInv, Care!TypeOK
<1>8. CASE pc[t][1] = "read"
  <2>1. t = Care!Main("provision") /\ t[1] = "provision" /\ t[2] = "main"
    BY <1>8, ThreadParts DEF FleetInv, PlacesFit, Fits, PCsOf
  <2>2. pc' = [pc EXCEPT ![t] = <<"over", "over">>]
    BY <1>8 DEF Care!HasRead, Care!Goes, Care!At
  <2>3. Fits(t, "over", "over")
    BY <2>1 DEF Fits, PCsOf
  <2>4. pc' \in [Care!Threads -> Care!PC \X Care!PC] /\ pc'[t][1] = "over" /\ pc'[t][2] = "over" /\ \A u \in Care!Threads : u # t => pc'[u] = pc[u]
    BY <2>2, <2>3, Placed DEF FleetInv
  <2>5. PlacesFit'
    BY <2>3, <2>4 DEF FleetInv, PlacesFit
  <2>6. PhasesFit'
    BY <1>1, <1>8, <2>1, <2>4, ThreadParts, PhasesKept DEF Care!Over, Care!Main
  <2>w. /\ pc'[Care!Main("recovery")] = pc[Care!Main("recovery")]
        /\ \A d \in Devices : pc'[Recoverer(d)] = pc[Recoverer(d)] /\ pc'[Provisioner(d)] = pc[Provisioner(d)]
    BY <2>1, <2>4, ThreadParts
  <2>7. (~overlap => StoppedIsNoticed)'
    BY <1>1, <2>w DEF FleetInv, Care!TypeOK, StoppedIsNoticed
  <2>8. QED
    BY <1>1, <1>2, <1>3, <1>4, <1>5, <2>4, <2>5, <2>6, <2>7 DEF FleetInv, Care!TypeOK
<1>9. CASE pc[t][1] = "watch"
  <2>1. pc' = pc /\ reboot' = reboot
    BY <1>9 DEF Care!HasRead, Care!script
  <2>2. QED
    BY <1>1, <1>2, <1>3, <1>4, <1>5, <2>1, ScriptsKept DEF FleetInv, Care!TypeOK
<1>10. QED
  BY <1>1, <1>6, <1>7, <1>8, <1>9

\* The recovery goes to its next phase when all of its threads have ended the last one.
LEMMA NextPhaseKeeps ==
  ASSUME FleetInv, Care!NextPhase
  PROVE  FleetInv'
<1> DEFINE t == Care!Main("recovery")
<1>1. t \in Care!Threads /\ t[1] = "recovery" /\ t[2] = "main"
  BY ThreadParts
<1>2. UNCHANGED <<form, blacklist, acc, due, dropped, overlap, step, bad, reboot, frameless>> /\ pc[t][1] = "done"
  BY DEF Care!NextPhase, Care!script, Care!noted
<1>3. PICK a \in {"over", "reset"} : pc' = [pc EXCEPT ![t] = <<a, a>>] /\ (a = "reset" => ~Care!Died("recovery"))
  BY DEF Care!NextPhase, Care!Goes, Care!At
<1>4. Fits(t, a, a)
  BY <1>1 DEF Fits, PCsOf
<1>5. pc' \in [Care!Threads -> Care!PC \X Care!PC] /\ pc'[t][1] = a /\ pc'[t][2] = a /\ \A u \in Care!Threads : u # t => pc'[u] = pc[u]
  BY <1>1, <1>3, <1>4, Placed DEF FleetInv
<1>6. PlacesFit'
  BY <1>1, <1>4, <1>5 DEF FleetInv, PlacesFit
<1>7. /\ pc'[Care!Main("provision")] = pc[Care!Main("provision")]
      /\ \A d \in Devices : pc'[Recoverer(d)] = pc[Recoverer(d)] /\ pc'[Provisioner(d)] = pc[Provisioner(d)]
  BY <1>1, <1>5, ThreadParts
<1>8. \A d \in Devices : pc[Recoverer(d)][1] \in Care!Over /\ (a = "reset" => pc[Recoverer(d)][1] # "died")
  BY <1>3, ThreadParts DEF Care!NextPhase, Care!Ended, Care!Died, Care!OfProcess
<1>9. PhasesFit'
  BY <1>2, <1>5, <1>7, <1>8 DEF FleetInv, PhasesFit, Care!Over
<1>10. AccessesFit' /\ (~overlap => FileHolds)'
  BY <1>1, <1>2, <1>5, AccessKept DEF Care!Wants
<1>11. (~overlap => StoppedIsNoticed)'
  BY <1>2, <1>5, <1>7 DEF FleetInv, Care!TypeOK, StoppedIsNoticed
<1>12. QED
  BY <1>2, <1>5, <1>6, <1>9, <1>10, <1>11 DEF FleetInv, Care!TypeOK

\* The recovery ends when its threads have, so that no device is left between its restart and the blacklist.
LEMMA RecoveryEndsKeeps ==
  ASSUME FleetInv, Care!RecoveryEnds
  PROVE  FleetInv'
<1> DEFINE t == Care!Main("recovery")
<1>1. t \in Care!Threads /\ t[1] = "recovery" /\ t[2] = "main"
  BY ThreadParts
<1>2. UNCHANGED <<form, blacklist, acc, due, dropped, overlap, step, bad, reboot, frameless>> /\ pc[t][1] = "wait"
  BY DEF Care!RecoveryEnds, Care!script, Care!noted
<1>3. pc' = [pc EXCEPT ![t] = <<"over", "over">>]
  BY DEF Care!RecoveryEnds, Care!Goes, Care!At
<1>4. Fits(t, "over", "over")
  BY <1>1 DEF Fits, PCsOf
<1>5. pc' \in [Care!Threads -> Care!PC \X Care!PC] /\ pc'[t][1] = "over" /\ pc'[t][2] = "over" /\ \A u \in Care!Threads : u # t => pc'[u] = pc[u]
  BY <1>1, <1>3, <1>4, Placed DEF FleetInv
<1>6. PlacesFit'
  BY <1>1, <1>4, <1>5 DEF FleetInv, PlacesFit
<1>7. /\ pc'[Care!Main("provision")] = pc[Care!Main("provision")]
      /\ \A d \in Devices : pc'[Recoverer(d)] = pc[Recoverer(d)] /\ pc'[Provisioner(d)] = pc[Provisioner(d)]
  BY <1>1, <1>5, ThreadParts
<1>8. \A d \in Devices : pc[Recoverer(d)][1] \in Care!Over
  BY DEF Care!RecoveryEnds, Recoverer
<1>9. PhasesFit'
  BY <1>2, <1>5, <1>7, <1>8 DEF FleetInv, PhasesFit
<1>10. AccessesFit' /\ (~overlap => FileHolds)'
  BY <1>1, <1>2, <1>5, AccessKept DEF Care!Wants
<1>11. (~overlap => StoppedIsNoticed)'
  BY <1>2, <1>5, <1>7 DEF FleetInv, Care!TypeOK, StoppedIsNoticed
<1>12. QED
  BY <1>2, <1>5, <1>6, <1>9, <1>10, <1>11 DEF FleetInv, Care!TypeOK

\* The provisioning ends when its threads have.
LEMMA ProvisionEndsKeeps ==
  ASSUME FleetInv, Care!ProvisionEnds
  PROVE  FleetInv'
<1> DEFINE t == Care!Main("provision")
<1>1. t \in Care!Threads /\ t[1] = "provision" /\ t[2] = "main"
  BY ThreadParts
<1>2. UNCHANGED <<form, blacklist, acc, due, dropped, overlap, step, bad, reboot, frameless>> /\ pc[t][1] \in {"done", "died"}
  BY DEF Care!ProvisionEnds, Care!script, Care!noted
<1>3. PICK a \in {"over", "read"} : pc' = [pc EXCEPT ![t] = <<a, a>>]
  BY DEF Care!ProvisionEnds, Care!Goes, Care!At
<1>4. Fits(t, a, a)
  BY <1>1 DEF Fits, PCsOf
<1>5. pc' \in [Care!Threads -> Care!PC \X Care!PC] /\ pc'[t][1] = a /\ pc'[t][2] = a /\ \A u \in Care!Threads : u # t => pc'[u] = pc[u]
  BY <1>1, <1>3, <1>4, Placed DEF FleetInv
<1>6. PlacesFit'
  BY <1>1, <1>4, <1>5 DEF FleetInv, PlacesFit
<1>7. /\ pc'[Care!Main("recovery")] = pc[Care!Main("recovery")]
      /\ \A d \in Devices : pc'[Recoverer(d)] = pc[Recoverer(d)] /\ pc'[Provisioner(d)] = pc[Provisioner(d)]
  BY <1>1, <1>5, ThreadParts
<1>8. \A d \in Devices : pc[Provisioner(d)][1] \in Care!Over
  BY ThreadParts DEF Care!ProvisionEnds, Care!Ended, Care!OfProcess
<1>9. PhasesFit'
  BY <1>2, <1>5, <1>7, <1>8 DEF FleetInv, PhasesFit
<1>10. AccessesFit' /\ (~overlap => FileHolds)'
  BY <1>1, <1>2, <1>5, AccessKept DEF Care!Wants
<1>11. (~overlap => StoppedIsNoticed)'
  BY <1>2, <1>7 DEF FleetInv, Care!TypeOK, StoppedIsNoticed
<1>12. QED
  BY <1>2, <1>5, <1>6, <1>9, <1>10, <1>11 DEF FleetInv, Care!TypeOK

\* Resetting the bus moves the threads of the devices that were found bad.
LEMMA ResetUsbKeeps ==
  ASSUME FleetInv, Care!ResetUsb
  PROVE  FleetInv'
<1>1. UNCHANGED <<form, blacklist, acc, due, dropped, overlap, step, bad, reboot, frameless>> /\ pc[Care!Main("recovery")][1] = "usb"
  BY DEF Care!ResetUsb, Care!script, Care!noted
<1>2. PICK lost \in SUBSET bad :
        pc' = [t \in Care!Threads |-> IF t[1] # "recovery" \/ pc[t] = Care!At("over") THEN pc[t]
                                      ELSE IF t[2] = "main" THEN Care!At("wait")
                                      ELSE IF t[2] \in lost THEN <<"extend", "recover">> ELSE Care!At("recover")]
  BY DEF Care!ResetUsb
<1>3. pc' \in [Care!Threads -> Care!PC \X Care!PC]
  BY <1>2 DEF FleetInv, Care!TypeOK, Care!At, Care!PC, Care!Over
<1>4. \A t \in Care!Threads :
        \/ pc'[t] = pc[t]
        \/ t = Care!Main("recovery") /\ pc'[t] = <<"wait", "wait">>
        \/ t[1] = "recovery" /\ t[2] \in Devices /\ pc'[t] \in {<<"extend", "recover">>, <<"recover", "recover">>}
  BY <1>2, ThreadParts DEF Care!At
<1>5. PlacesFit'
  <2>1. SUFFICES ASSUME NEW t \in Care!Threads PROVE Fits(t, pc'[t][1], pc'[t][2])
    BY DEF PlacesFit, Fits, PCsOf
  <2>2. Fits(t, pc[t][1], pc[t][2])
    BY DEF FleetInv, PlacesFit
  <2>3. CASE pc'[t] = pc[t]
    BY <2>2, <2>3
  <2>4. CASE t = Care!Main("recovery") /\ pc'[t] = <<"wait", "wait">>
    BY <2>4, ThreadParts DEF Fits, PCsOf
  <2>5. CASE t[1] = "recovery" /\ t[2] \in Devices /\ pc'[t] \in {<<"extend", "recover">>, <<"recover", "recover">>}
    BY <2>5, ThreadParts DEF Fits, PCsOf
  <2>6. QED
    BY <1>4, <2>3, <2>4, <2>5
<1>6. \A d \in Devices :
        /\ pc'[Provisioner(d)] = pc[Provisioner(d)]
        /\ \/ pc[Recoverer(d)][1] = "over" /\ pc'[Recoverer(d)] = pc[Recoverer(d)] /\ d \notin frameless /\ pc[Provisioner(d)][1] = "over"
           \/ pc'[Recoverer(d)][1] \in {"extend", "recover"}
  <2>1. SUFFICES ASSUME NEW d \in Devices
                 PROVE  /\ pc'[Provisioner(d)] = pc[Provisioner(d)]
                        /\ \/ /\ pc[Recoverer(d)][1] = "over" /\ pc'[Recoverer(d)] = pc[Recoverer(d)]
                              /\ d \notin frameless /\ pc[Provisioner(d)][1] = "over"
                           \/ pc'[Recoverer(d)][1] \in {"extend", "recover"}
    OBVIOUS
  <2>2. pc'[Provisioner(d)] = pc[Provisioner(d)]
    BY <1>4, ThreadParts
  <2>3. CASE pc[Recoverer(d)] = Care!At("over")
    BY <1>1, <1>2, <2>2, <2>3, ThreadParts DEF Care!At, FleetInv, PhasesFit
  <2>4. CASE pc[Recoverer(d)] # Care!At("over")
    BY <1>2, <2>2, <2>4, ThreadParts DEF Care!At
  <2>5. QED
    BY <2>2, <2>3, <2>4
<1>7. pc'[Care!Main("recovery")][1] = "wait" /\ pc'[Care!Main("provision")] = pc[Care!Main("provision")]
  BY <1>1, <1>2, ThreadParts DEF Care!At
<1>8. PhasesFit'
  BY <1>1, <1>6, <1>7 DEF FleetInv, PhasesFit
<1>9. (~overlap => StoppedIsNoticed)'
  BY <1>1, <1>6, <1>7 DEF FleetInv, Care!TypeOK, StoppedIsNoticed, PhasesFit
<1>10. \A t \in Care!Threads : acc[t].at # "idle" => Care!Wants(t)' = Care!Wants(t)
  <2>1. SUFFICES ASSUME NEW t \in Care!Threads, acc[t].at # "idle" PROVE Care!Wants(t)' = Care!Wants(t)
    BY DEF Care!Wants
  <2>2. Care!Wants(t) # "none"
    BY <2>1, OneAtTheFile
  <2>3. t # Care!Main("recovery")
    BY <1>1, <2>2 DEF Care!Wants
  <2>4. \A d \in Devices : t # Recoverer(d)
    BY <1>1, <2>2 DEF Care!Wants, FleetInv, PhasesFit
  <2>5. pc'[t] = pc[t]
    BY <1>4, <2>3, <2>4, ThreadParts
  <2>6. QED
    BY <2>5 DEF Care!Wants
<1>11. AccessesFit'
  BY <1>1, <1>10 DEF FleetInv, AccessesFit
<1>12. (~overlap => FileHolds)'
  BY <1>1 DEF FleetInv, FileHolds
<1>13. QED
  BY <1>1, <1>3, <1>5, <1>8, <1>9, <1>11, <1>12 DEF FleetInv, Care!TypeOK

\* The invariant of the fleet is about its own variables.
LEMMA FleetStutters ==
  ASSUME FleetInv, UNCHANGED careVars
  PROVE  FleetInv'
<1>1. UNCHANGED <<form, blacklist, acc, pc, step, bad, reboot, frameless, due, dropped, overlap>>
  BY DEF careVars
<1>2. PlacesFit' /\ PhasesFit' /\ (~overlap => StoppedIsNoticed)' /\ \A u \in Care!Threads : Care!Wants(u)' = Care!Wants(u)
  BY <1>1, ScriptsKept
<1>3. AccessesFit' /\ (~overlap => FileHolds)'
  BY <1>1, <1>2 DEF FleetInv, AccessesFit, FileHolds
<1>4. QED
  BY <1>1, <1>2, <1>3 DEF FleetInv, Care!TypeOK

\* The invariant holds at first: the threads of a script come with its main thread.
LEMMA FleetInvInit == Care!Init => FleetInv
<1>1. SUFFICES ASSUME Care!Init PROVE FleetInv
  OBVIOUS
<1>2. PICK scene \in Scenes :
        pc = [t \in Care!Threads |-> Care!At(IF t \notin scene THEN "over"
                                  ELSE CASE t = Care!Main("provision") -> "choose" [] t = Care!Main("monitor") -> "watch"
                                         [] t[1] = "recovery" /\ t[2] # "main" -> "survey" [] OTHER -> "done")]
  BY <1>1 DEF Care!Init
<1>3. /\ form = "gone" /\ blacklist = {} /\ due = {} /\ dropped = {} /\ overlap = FALSE /\ acc = [t \in Care!Threads |-> Care!Idle]
      /\ step = [d \in Devices |-> 1] /\ bad \in SUBSET Devices /\ reboot = {} /\ frameless = {}
  BY <1>1 DEF Care!Init
<1>4. \A t \in Care!Threads : acc[t].at = "idle" /\ acc[t] \in [for : {"none", "read", "extend", "reset"},
        at : {"idle", "check", "load", "remove", "open", "dump"}, got : SUBSET Devices]
  BY <1>3 DEF Care!Idle
<1>a. Care!Main("recovery") # Care!Main("provision") /\ Care!Main("recovery") # Care!Main("monitor") /\ Care!Main("provision") # Care!Main("monitor")
  BY ThreadParts
<1>b. \A t \in Care!Threads :
        /\ t \notin scene => pc[t] = <<"over", "over">>
        /\ t \in scene /\ t = Care!Main("provision") => pc[t] = <<"choose", "choose">>
        /\ t \in scene /\ t # Care!Main("provision") /\ t = Care!Main("monitor") => pc[t] = <<"watch", "watch">>
        /\ t \in scene /\ t # Care!Main("provision") /\ t # Care!Main("monitor") =>
             /\ t[1] = "recovery" /\ t[2] # "main" => pc[t] = <<"survey", "survey">>
             /\ ~(t[1] = "recovery" /\ t[2] # "main") => pc[t] = <<"done", "done">>
  <2>1. TAKE t \in Care!Threads
  <2>2. CASE t \notin scene
    BY <1>2, <2>2 DEF Care!At
  <2>3. CASE t \in scene /\ t = Care!Main("provision")
    BY <1>2, <1>a, <2>3, ThreadParts DEF Care!At
  <2>4. CASE t \in scene /\ t # Care!Main("provision") /\ t = Care!Main("monitor")
    BY <1>2, <1>a, <2>4, ThreadParts DEF Care!At
  <2>5. CASE t \in scene /\ t # Care!Main("provision") /\ t # Care!Main("monitor") /\ t[1] = "recovery" /\ t[2] # "main"
    BY <1>2, <2>5 DEF Care!At
  <2>6. CASE t \in scene /\ t # Care!Main("provision") /\ t # Care!Main("monitor") /\ ~(t[1] = "recovery" /\ t[2] # "main")
    BY <1>2, <2>6 DEF Care!At
  <2>7. QED
    BY <2>2, <2>3, <2>4, <2>5, <2>6
<1>5. \A t \in Care!Threads :
        /\ t \notin scene => pc[t] = <<"over", "over">>
        /\ t \in scene =>
             /\ t = Care!Main("provision") => pc[t] = <<"choose", "choose">>
             /\ t = Care!Main("monitor") => pc[t] = <<"watch", "watch">>
             /\ t[1] = "recovery" /\ t[2] # "main" => pc[t] = <<"survey", "survey">>
             /\ t = Care!Main("recovery") => pc[t] = <<"done", "done">>
             /\ t[1] = "provision" /\ t[2] # "main" => pc[t] = <<"done", "done">>
  BY <1>a, <1>b, ThreadParts
<1>c. \A t \in Care!Threads : \/ t \in {Care!Main("recovery"), Care!Main("provision"), Care!Main("monitor")}
                              \/ t[1] \in {"recovery", "provision"} /\ t[2] # "main"
  <2>1. TAKE t \in Care!Threads
  <2>2. t[2] = "main" => t = Care!Main("recovery") \/ t = Care!Main("provision") \/ t = Care!Main("monitor")
    BY ThreadParts
  <2>3. t[2] # "main" => t[1] \in {"recovery", "provision"}
    BY ThreadParts
  <2>4. QED
    BY <2>2, <2>3
<1>6. PlacesFit
  <2>1. SUFFICES ASSUME NEW t \in Care!Threads PROVE Fits(t, pc[t][1], pc[t][2])
    BY DEF PlacesFit
  <2>2. CASE pc[t] = <<"over", "over">>
    BY <2>2 DEF Fits, PCsOf
  <2>3. CASE t = Care!Main("provision") /\ pc[t] = <<"choose", "choose">>
    BY <2>3, ThreadParts DEF Fits, PCsOf
  <2>4. CASE t = Care!Main("monitor") /\ pc[t] = <<"watch", "watch">>
    BY <2>4, ThreadParts DEF Fits, PCsOf
  <2>5. CASE t[1] = "recovery" /\ t[2] # "main" /\ pc[t] = <<"survey", "survey">>
    BY <2>5 DEF Fits, PCsOf
  <2>6. CASE t = Care!Main("recovery") /\ pc[t] = <<"done", "done">>
    BY <2>6, ThreadParts DEF Fits, PCsOf
  <2>7. CASE t[1] = "provision" /\ t[2] # "main" /\ pc[t] = <<"done", "done">>
    BY <2>7 DEF Fits, PCsOf
  <2>8. QED
    BY <1>5, <1>c, <2>2, <2>3, <2>4, <2>5, <2>6, <2>7
<1>7. PhasesFit
  <2>1. \A d \in Devices :
          /\ Provisioner(d) \in scene => Care!Main("provision") \in scene
          /\ Recoverer(d) \in scene => Care!Main("recovery") \in scene
          /\ Provisioner(d) \in scene /\ Care!Main("recovery") \in scene => Recoverer(d) \in scene
    BY ServicesAssumption DEF Care!FleetAssumption, Recoverer, Provisioner
  <2>3. /\ pc[Care!Main("recovery")][1] = IF Care!Main("recovery") \in scene THEN "done" ELSE "over"
        /\ pc[Care!Main("provision")][1] = IF Care!Main("provision") \in scene THEN "choose" ELSE "over"
    <3>1. \A p \in {"recovery", "provision"} : Care!Main(p) \in Care!Threads
      BY ThreadParts
    <3>2. QED
      BY <1>5, <3>1
  <2>4. \A d \in Devices :
          /\ Recoverer(d) \notin scene => pc[Recoverer(d)][1] = "over"
          /\ Recoverer(d) \in scene => pc[Recoverer(d)][1] = "survey"
          /\ Provisioner(d) \notin scene => pc[Provisioner(d)][1] = "over"
          /\ Provisioner(d) \in scene => pc[Provisioner(d)][1] = "done"
    <3>1. TAKE d \in Devices
    <3>2. /\ d # "main" /\ Recoverer(d) \in Care!Threads /\ Recoverer(d)[1] = "recovery" /\ Recoverer(d)[2] = d
          /\ Provisioner(d) \in Care!Threads /\ Provisioner(d)[1] = "provision" /\ Provisioner(d)[2] = d
      BY ThreadParts
    <3>3. QED
      BY <1>5, <3>2
  <2>5. QED
    BY <1>3, <2>1, <2>3, <2>4 DEF PhasesFit, Care!Over
<1>8. Care!TypeOK
  <2>1. \A t \in Care!Threads : pc[t] \in Care!PC \X Care!PC
    <3>1. TAKE t \in Care!Threads
    <3>2. pc[t] \in {<<"over", "over">>, <<"choose", "choose">>, <<"watch", "watch">>, <<"survey", "survey">>, <<"done", "done">>}
      BY <1>5, <1>c
    <3>3. QED
      BY <3>2 DEF Care!PC, Care!Over
  <2>2. pc \in [Care!Threads -> Care!PC \X Care!PC]
    BY <1>2, <2>1
  <2>3. 1 \in 1..Len(Steps)
    BY ServicesAssumption DEF Care!FleetAssumption
  <2>4. QED
    BY <1>3, <1>4, <2>2, <2>3 DEF Care!TypeOK
<1>9. AccessesFit /\ FileHolds /\ StoppedIsNoticed
  BY <1>3, <1>4 DEF AccessesFit, FileHolds, StoppedIsNoticed
<1>10. QED
  BY <1>6, <1>7, <1>8, <1>9 DEF FleetInv

\* Every step of the fleet keeps its invariant.
LEMMA FleetInvStep == FleetInv /\ [Care!Next]_careVars => FleetInv'
<1>1. SUFFICES ASSUME FleetInv, Care!Next \/ UNCHANGED careVars PROVE FleetInv'
  OBVIOUS
<1>2. CASE \E t \in Care!Threads : Care!Thread(t)
  BY <1>1, <1>2, BeginKeeps, ReadKeeps, DiesKeeps, WriteKeeps, ResetKeeps, HasReadKeeps, LookKeeps, RestartKeeps,
     WaitUntilFullyBootedKeeps, BootedKeeps, ActKeeps DEF Care!Thread
<1>3. QED
  BY <1>1, <1>2, NextPhaseKeeps, ResetUsbKeeps, RecoveryEndsKeeps, ProvisionEndsKeeps, FleetStutters DEF Care!Next

\* The invariant of the fleet has its properties as consequences.
LEMMA FleetInvImplies == FleetInv => Care!TypeOK /\ Care!BlacklistKept /\ Care!StoppedIsListed
<1>1. SUFFICES ASSUME FleetInv PROVE Care!BlacklistKept /\ Care!StoppedIsListed
  BY DEF FleetInv
<1>2. Care!BlacklistKept
  BY <1>1 DEF FleetInv, FileHolds, Care!BlacklistKept
<1>3. Care!StoppedIsListed
  <2>1. SUFFICES ASSUME ~overlap, pc[Care!Main("recovery")][1] = "over", pc[Care!Main("provision")][1] = "over" PROVE frameless \subseteq blacklist \union dropped
    BY DEF Care!StoppedIsListed
  <2>2. \A d \in Devices : pc[Recoverer(d)][1] \in Care!Over /\ pc[Provisioner(d)][1] \in Care!Over
    BY <1>1, <2>1 DEF FleetInv, PhasesFit
  <2>3. frameless \subseteq due \union dropped
    BY <1>1, <2>1, <2>2 DEF FleetInv, Care!TypeOK, StoppedIsNoticed, Care!Over
  <2>4. \A t \in Care!Threads : acc[t].at # "dump"
    <3>1. SUFFICES ASSUME NEW t \in Care!Threads, acc[t].at = "dump" PROVE FALSE
      OBVIOUS
    <3>2. pc[t][1] = "extend"
      BY <1>1, <2>1, <3>1, OneAtTheFile DEF FleetInv, FileHolds, Care!Wants
    <3>3. t = Recoverer(t[2]) \/ t = Provisioner(t[2])
      BY <1>1, <3>2, ThreadParts DEF FleetInv, PlacesFit, Fits, PCsOf
    <3>4. t[2] \in Devices
      BY <1>1, <3>2, ThreadParts DEF FleetInv, PlacesFit, Fits, PCsOf
    <3>5. QED
      BY <2>2, <3>2, <3>3, <3>4 DEF Care!Over
  <2>5. QED
    BY <1>1, <2>1, <2>3, <2>4 DEF FleetInv, FileHolds
<1>4. QED
  BY <1>2, <1>3

-----------------------------------------------------------------------------
(* SELinux in the context of the flags *)

\* Inside the context it is known that SELinux enforced before, unless a command that sets it failed.
EnforceInv ==
  "enforce" \notin writeFailed => IF flagPhase \in {"out", "direct"} THEN enforcing ELSE needs \/ enforcing

\* SELinux enforces at first.
LEMMA EnforceInvInit == Flag!Init => EnforceInv
BY DEF Flag!Init, EnforceInv

\* Writing the file changes neither SELinux nor what is known of it.
LEMMA UpdateEnforces ==
  ASSUME NEW levels, NEW wanted, NEW n, NEW e, Flag!Update(levels, wanted, n, e)
  PROVE  flagPhase' \in {n, e} /\ ("enforce" \notin writeFailed' => "enforce" \notin writeFailed)
BY DEF Flag!Update

\* Every step of the flags keeps what is known of SELinux.
LEMMA EnforceInvStep == EnforceInv /\ [Flag!Next]_flagVars => EnforceInv'
<1>1. SUFFICES ASSUME EnforceInv, Flag!Next \/ UNCHANGED flagVars PROVE EnforceInv'
  OBVIOUS
<1>2. CASE Flag!DirectStep
  <2>1. flagPhase \in {"out", "direct"} /\ flagPhase' \in {"out", "direct"} /\ ("enforce" \notin writeFailed' => "enforce" \notin writeFailed)
    BY <1>2, UpdateEnforces DEF Flag!DirectStep, Flag!Direct, Flag!Construct, Flag!ReplaceFlags, Flag!Restore
  <2>2. QED
    BY <1>1, <1>2, <2>1 DEF Flag!DirectStep, EnforceInv
<1>3. CASE Flag!Enter
  BY <1>1, <1>3 DEF Flag!Enter, EnforceInv
<1>4. CASE Flag!Make
  BY <1>1, <1>4 DEF Flag!Make, Flag!Construct, EnforceInv
<1>5. CASE Flag!Replace
  <2>1. flagPhase = "replace" /\ flagPhase' \in {"in", "restore"} /\ ("enforce" \notin writeFailed' => "enforce" \notin writeFailed)
    BY <1>5, UpdateEnforces DEF Flag!Replace, Flag!ReplaceFlags
  <2>2. QED
    BY <1>1, <1>5, <2>1 DEF Flag!Replace, EnforceInv
<1>6. CASE Flag!Leave
  BY <1>1, <1>6 DEF Flag!Leave, EnforceInv
<1>7. CASE Flag!Undo
  <2>1. flagPhase = "restore" /\ flagPhase' = "enforce" /\ ("enforce" \notin writeFailed' => "enforce" \notin writeFailed)
    BY <1>7, UpdateEnforces DEF Flag!Undo, Flag!Restore
  <2>2. QED
    BY <1>1, <1>7, <2>1 DEF Flag!Undo, EnforceInv
<1>8. CASE Flag!Enforce
  BY <1>1, <1>8 DEF Flag!Enforce, EnforceInv
<1>9. CASE UNCHANGED flagVars
  BY <1>1, <1>9 DEF flagVars, EnforceInv
<1>10. QED
  BY <1>1, <1>2, <1>3, <1>4, <1>5, <1>6, <1>7, <1>8, <1>9 DEF Flag!Next

\* Outside of a context SELinux enforces, unless setting it failed.
LEMMA EnforceInvImplies == EnforceInv => Flag!EnforcingRestored
BY DEF EnforceInv, Flag!EnforcingRestored

-----------------------------------------------------------------------------
(* The flags *)

LessThan == {p \in Nat \X Nat : p[1] < p[2]}

\* A set of natural numbers that is not empty has a least element.
LEMMA LeastOf ==
  ASSUME NEW S, S \subseteq Nat, S # {}
  PROVE  \E n \in S : \A m \in S : n <= m
<1>1. IsWellFoundedOn(LessThan, Nat)
  BY NatLessThanWellFounded DEF OpToRel, LessThan
<1>2. PICK n \in S : \A m \in S : <<m, n>> \notin LessThan
  BY <1>1, WFMin
<1>3. \A m \in S : ~(m < n)
  BY <1>2 DEF LessThan
<1>4. QED
  BY <1>3

-----------------------------------------------------------------------------
(* Reading a line *)

\* after is what is read of the program m characters of a line, one by one.
ReadsUpto(after, begin, line, m) == \A n \in 0..m : after[n] = IF n = 0 THEN begin ELSE Flag!Character(after[n - 1], line[n])
Reads(after, begin, line) == ReadsUpto(after, begin, line, Len(line))

\* There is one such reading of a line.
LEMMA ReadingExists ==
  ASSUME NEW begin, NEW line, Len(line) \in Nat
  PROVE  \E h : h = [n \in 0..Len(line) |-> h[n]] /\ Reads(h, begin, line)
<1> DEFINE Upto(m) == \E h : \A n \in 0..m : h[n] = IF n = 0 THEN begin ELSE Flag!Character(h[n - 1], line[n])
           S == {m \in 0..Len(line) : ~Upto(m)}
<1>1. ASSUME S # {} PROVE FALSE
  <2>1. PICK m \in S : \A l \in S : m <= l
    <3>1. S \subseteq Nat
      OBVIOUS
    <3>2. QED
      BY <1>1, <3>1, LeastOf
  <2>2. m \in 0..Len(line) /\ ~Upto(m) /\ m \in Nat
    BY <2>1
  <2>3. m # 0
    <3>1. Upto(0)
      <4> DEFINE h == [n \in {0} |-> begin]
      <4>1. \A n \in 0..0 : n = 0 /\ h[n] = begin
        OBVIOUS
      <4> HIDE DEF h
      <4>2. QED
        BY <4>1
    <3>2. QED
      BY <2>2, <3>1
  <2>4. m - 1 \in 0..Len(line) /\ m - 1 \notin S
    <3>1. m - 1 \in 0..Len(line) /\ ~(m <= m - 1)
      BY <2>2, <2>3
    <3>2. QED
      BY <2>1, <3>1
  <2>5. PICK h : \A n \in 0..(m - 1) : h[n] = IF n = 0 THEN begin ELSE Flag!Character(h[n - 1], line[n])
    BY <2>4
  <2> DEFINE e == [n \in 0..m |-> IF n = m THEN Flag!Character(h[m - 1], line[m]) ELSE h[n]]
  <2>6. ASSUME NEW n \in 0..m PROVE e[n] = IF n = 0 THEN begin ELSE Flag!Character(e[n - 1], line[n])
    <3>1. CASE n = m
      <4>1. e[n] = Flag!Character(h[m - 1], line[m]) /\ e[n - 1] = h[m - 1]
        BY <2>2, <2>3, <3>1
      <4>2. QED
        BY <2>3, <3>1, <4>1
    <3>2. CASE n # m
      <4>1. n \in 0..(m - 1) /\ e[n] = h[n]
        BY <2>2, <3>2
      <4>2. CASE n = 0
        BY <2>5, <4>1, <4>2
      <4>3. CASE n # 0
        <5>1. n - 1 \in 0..m /\ n - 1 # m
          BY <2>2, <4>1, <4>3
        <5>2. e[n - 1] = h[n - 1]
          BY <5>1
        <5>3. QED
          BY <2>5, <4>1, <4>3, <5>2
      <4>4. QED
        BY <4>2, <4>3
    <3>3. QED
      BY <3>1, <3>2
  <2> HIDE DEF e
  <2>7. Upto(m)
    BY <2>6
  <2>8. QED
    BY <2>2, <2>7
<1>2. Upto(Len(line))
  <2>1. Len(line) \in 0..Len(line)
    OBVIOUS
  <2>2. QED
    BY <1>1, <2>1
<1>3. PICK h : \A n \in 0..Len(line) : h[n] = IF n = 0 THEN begin ELSE Flag!Character(h[n - 1], line[n])
  BY <1>2
<1> DEFINE f == [n \in 0..Len(line) |-> h[n]]
<1>4. \A n \in 0..Len(line) : n # 0 => n - 1 \in 0..Len(line)
  OBVIOUS
<1>5. \A n \in 0..Len(line) : f[n] = IF n = 0 THEN begin ELSE Flag!Character(f[n - 1], line[n])
  BY <1>3, <1>4
<1>6. f = [n \in 0..Len(line) |-> f[n]]
  OBVIOUS
<1> HIDE DEF f
<1>7. QED
  BY <1>5, <1>6 DEF Reads, ReadsUpto

\* Two readings that begin alike are the same.
LEMMA ReadingsAgree ==
  ASSUME NEW begin, NEW line, Len(line) \in Nat, NEW f, Reads(f, begin, line), NEW g, NEW N \in 0..Len(line),
         ReadsUpto(g, begin, line, N)
  PROVE  g[N] = f[N]
<1> DEFINE S == {n \in 0..N : g[n] # f[n]}
<1>1. ASSUME S # {} PROVE FALSE
  <2>1. PICK n \in S : \A m \in S : n <= m
    <3>1. S \subseteq Nat
      OBVIOUS
    <3>2. QED
      BY <1>1, <3>1, LeastOf
  <2>2. n \in 0..N /\ n \in 0..Len(line) /\ n \in Nat /\ g[n] # f[n]
    BY <2>1
  <2>3. n # 0
    BY <2>2 DEF Reads, ReadsUpto
  <2>4. n - 1 \in 0..N /\ n - 1 \notin S
    <3>1. n - 1 \in 0..N /\ ~(n <= n - 1)
      BY <2>2, <2>3
    <3>2. QED
      BY <2>1, <3>1
  <2>5. g[n - 1] = f[n - 1]
    BY <2>4
  <2>6. g[n] = Flag!Character(g[n - 1], line[n]) /\ f[n] = Flag!Character(f[n - 1], line[n])
    BY <2>2, <2>3 DEF Reads, ReadsUpto
  <2>7. QED
    BY <2>2, <2>5, <2>6
<1>2. N \in 0..N
  OBVIOUS
<1>3. QED
  BY <1>1, <1>2

\* Read gives the end of a reading.
LEMMA ReadIsEnd ==
  ASSUME NEW begin, NEW line, Len(line) \in Nat, NEW g, Reads(g, begin, line)
  PROVE  Flag!Read(begin, line) = g[Len(line)]
<1> DEFINE After(f) == [n \in 0..Len(line) |-> IF n = 0 THEN begin ELSE Flag!Character(f[n - 1], line[n])]
           after == CHOOSE f : f = After(f)
<1>1. after = After(after)
  <2>1. PICK h : h = [n \in 0..Len(line) |-> h[n]] /\ Reads(h, begin, line)
    BY ReadingExists
  <2>2. h = After(h)
    BY <2>1 DEF Reads, ReadsUpto
  <2>3. QED
    BY <2>2
<1>2. Flag!Read(begin, line) = after[Len(line)]
  BY DEF Flag!Read
<1> HIDE DEF after
<1>3. Reads(after, begin, line)
  BY <1>1 DEF Reads, ReadsUpto
<1>4. Len(line) \in 0..Len(line) /\ ReadsUpto(g, begin, line, Len(line))
  BY DEF Reads
<1>5. QED
  BY <1>2, <1>3, <1>4, ReadingsAgree

\* Reading two parts of a line is reading the second after the program.
LEMMA ReadJoined ==
  ASSUME NEW begin, NEW u \in Seq(Flag!Char), NEW v \in Seq(Flag!Char)
  PROVE  Flag!Read(begin, u \o v) = Flag!Read(Flag!Read(begin, u), v)
<1>1. /\ Len(u) \in Nat /\ Len(v) \in Nat /\ Len(u \o v) = Len(u) + Len(v)
      /\ \A n \in 1..Len(u) : (u \o v)[n] = u[n]
      /\ \A n \in 1..Len(v) : (u \o v)[Len(u) + n] = v[n]
  OBVIOUS
<1>2. PICK f : Reads(f, begin, u)
  BY <1>1, ReadingExists
<1>3. PICK g : Reads(g, f[Len(u)], v)
  BY <1>1, ReadingExists
<1>4. Flag!Read(begin, u) = f[Len(u)] /\ Flag!Read(f[Len(u)], v) = g[Len(v)]
  BY <1>1, <1>2, <1>3, ReadIsEnd
<1> DEFINE w == u \o v
           h == [n \in 0..(Len(u) + Len(v)) |-> IF n <= Len(u) THEN f[n] ELSE g[n - Len(u)]]
<1>5. ASSUME NEW n \in 0..Len(w) PROVE h[n] = IF n = 0 THEN begin ELSE Flag!Character(h[n - 1], w[n])
  <2>1. n \in 0..(Len(u) + Len(v)) /\ n \in Nat
    BY <1>1
  <2>2. CASE n = 0
    <3>1. h[n] = f[n] /\ n \in 0..Len(u)
      BY <1>1, <2>1, <2>2
    <3>2. QED
      BY <1>2, <2>2, <3>1 DEF Reads, ReadsUpto
  <2>3. CASE n # 0 /\ n <= Len(u)
    <3>1. h[n] = f[n] /\ h[n - 1] = f[n - 1] /\ n \in 0..Len(u) /\ w[n] = u[n]
      BY <1>1, <2>1, <2>3
    <3>2. f[n] = Flag!Character(f[n - 1], u[n])
      BY <1>2, <2>3, <3>1 DEF Reads, ReadsUpto
    <3>3. QED
      BY <2>3, <3>1, <3>2
  <2>4. CASE n > Len(u)
    <3> DEFINE m == n - Len(u)
    <3>1. m \in 0..Len(v) /\ m \in 1..Len(v) /\ m # 0 /\ n = Len(u) + m /\ n # 0
      BY <1>1, <2>1, <2>4
    <3>2. h[n] = g[m] /\ w[n] = v[m]
      BY <1>1, <2>1, <2>4, <3>1
    <3>3. h[n - 1] = g[m - 1]
      <4>1. CASE m = 1
        <5>1. n - 1 = Len(u) /\ h[n - 1] = f[Len(u)]
          BY <1>1, <3>1, <4>1
        <5>2. 0 \in 0..Len(v) /\ m - 1 = 0
          BY <1>1, <4>1
        <5>3. g[0] = f[Len(u)]
          BY <1>3, <5>2 DEF Reads, ReadsUpto
        <5>4. QED
          BY <5>1, <5>2, <5>3
      <4>2. CASE m # 1
        <5>1. n - 1 \in 0..(Len(u) + Len(v)) /\ ~(n - 1 <= Len(u)) /\ (n - 1) - Len(u) = m - 1
          BY <1>1, <3>1, <4>2
        <5>2. QED
          BY <5>1
      <4>3. QED
        BY <4>1, <4>2
    <3>4. g[m] = Flag!Character(g[m - 1], v[m])
      BY <1>3, <3>1 DEF Reads, ReadsUpto
    <3>5. QED
      BY <3>1, <3>2, <3>3, <3>4
  <2>5. QED
    BY <1>1, <2>1, <2>2, <2>3, <2>4
<1>6. h[Len(w)] = g[Len(v)]
  <2>1. CASE Len(v) = 0
    <3>1. h[Len(w)] = f[Len(u)]
      BY <1>1, <2>1
    <3>2. 0 \in 0..Len(v)
      BY <1>1
    <3>3. g[0] = f[Len(u)]
      BY <1>3, <3>2 DEF Reads, ReadsUpto
    <3>4. QED
      BY <2>1, <3>1, <3>3
  <2>2. CASE Len(v) # 0
    <3>1. Len(w) \in 0..(Len(u) + Len(v)) /\ ~(Len(w) <= Len(u)) /\ Len(w) - Len(u) = Len(v)
      BY <1>1, <2>2
    <3>2. QED
      BY <3>1
  <2>3. QED
    BY <2>1, <2>2
<1>7. Len(w) \in Nat
  BY <1>1
<1> HIDE DEF w, h
<1>8. Flag!Read(begin, w) = h[Len(w)]
  <2>1. Reads(h, begin, w)
    BY <1>5 DEF Reads, ReadsUpto
  <2>2. QED
    BY <1>7, <2>1, ReadIsEnd
<1>9. QED
  BY <1>4, <1>6, <1>8 DEF w

\* An empty line leaves everything as it is, and a character is read as Character says.
LEMMA ReadOne ==
  ASSUME NEW begin, NEW c
  PROVE  Flag!Read(begin, <<>>) = begin /\ Flag!Read(begin, <<c>>) = Flag!Character(begin, c)
<1>1. Flag!Read(begin, <<>>) = begin
  <2> DEFINE g == [n \in {0} |-> begin]
             e == <<>>
  <2>1. Len(e) = 0 /\ Len(e) \in Nat /\ \A n \in 0..Len(e) : n = 0 /\ g[n] = begin
    OBVIOUS
  <2> HIDE DEF g, e
  <2>2. Reads(g, begin, e)
    BY <2>1 DEF Reads, ReadsUpto
  <2>3. Flag!Read(begin, e) = g[Len(e)] /\ 0 \in 0..Len(e)
    BY <2>1, <2>2, ReadIsEnd
  <2>4. QED
    BY <2>1, <2>3 DEF e
<1>2. Flag!Read(begin, <<c>>) = Flag!Character(begin, c)
  <2> DEFINE g == [n \in {0, 1} |-> IF n = 0 THEN begin ELSE Flag!Character(begin, c)]
             e == <<c>>
  <2>1. Len(e) = 1 /\ Len(e) \in Nat /\ e[1] = c /\ g[0] = begin /\ g[1] = Flag!Character(begin, c) /\ \A n \in 0..Len(e) : n = 0 \/ n = 1
    OBVIOUS
  <2> HIDE DEF g, e
  <2>2. Reads(g, begin, e)
    <3>1. g[1] = Flag!Character(g[1 - 1], e[1])
      BY <2>1
    <3>2. QED
      BY <2>1, <3>1 DEF Reads, ReadsUpto
  <2>3. Flag!Read(begin, e) = g[Len(e)]
    BY <2>1, <2>2, ReadIsEnd
  <2>4. QED
    BY <2>1, <2>3 DEF e
<1>3. QED
  BY <1>1, <1>2

-----------------------------------------------------------------------------
(* Pieces of a line *)

\* f has what the program m pieces make.
Glues(f, pieces, m) == f[0] = <<>> /\ \A n \in 1..m : f[n] = f[n - 1] \o pieces[n]

Builds(f, pieces) ==
  /\ Glues(f, pieces, Len(pieces)) /\ Flag!FlattenSeq(pieces) = f[Len(pieces)]
  /\ \A n \in 0..Len(pieces) : f[n] \in Seq(Flag!Char)

\* Flag!FlattenSeq puts pieces together one after another.
LEMMA FlattenSteps ==
  ASSUME NEW pieces \in Seq(Seq(Flag!Char))
  PROVE  \E f : Builds(f, pieces)
<1> DEFINE N == Len(pieces)
           S == {m \in 0..N : ~\E f : Glues(f, pieces, m)}
<1>1. N \in Nat /\ \A n \in 1..N : pieces[n] \in Seq(Flag!Char)
  OBVIOUS
<1>2. ASSUME S # {} PROVE FALSE
  <2>1. PICK m \in S : \A l \in S : m <= l
    <3>1. S \subseteq Nat
      BY <1>1
    <3>2. QED
      BY <1>2, <3>1, LeastOf
  <2>2. m \in 0..N /\ m \in Nat /\ ~\E f : Glues(f, pieces, m)
    BY <1>1, <2>1
  <2>3. m # 0
    <3> DEFINE f == [n \in {0} |-> <<>>]
    <3>1. f[0] = <<>> /\ 1..0 = {}
      OBVIOUS
    <3> HIDE DEF f
    <3>2. Glues(f, pieces, 0)
      BY <3>1 DEF Glues
    <3>3. QED
      BY <2>2, <3>2
  <2>4. m - 1 \in 0..N /\ m - 1 \notin S
    <3>1. m - 1 \in 0..N /\ ~(m <= m - 1)
      BY <1>1, <2>2, <2>3
    <3>2. QED
      BY <2>1, <3>1
  <2>5. PICK f : Glues(f, pieces, m - 1)
    BY <2>4
  <2> DEFINE e == [n \in 0..m |-> IF n = m THEN f[m - 1] \o pieces[m] ELSE f[n]]
  <2>6. e[0] = <<>>
    BY <2>2, <2>3, <2>5 DEF Glues
  <2>7. ASSUME NEW n \in 1..m PROVE e[n] = e[n - 1] \o pieces[n]
    <3>1. n - 1 \in 0..m /\ n - 1 # m /\ n \in 0..m
      BY <2>2
    <3>2. e[n - 1] = f[n - 1]
      BY <3>1
    <3>3. CASE n = m
      BY <3>1, <3>2, <3>3
    <3>4. CASE n # m
      <4>1. n \in 1..(m - 1) /\ e[n] = f[n]
        BY <2>2, <3>1, <3>4
      <4>2. QED
        BY <2>5, <3>2, <4>1 DEF Glues
    <3>5. QED
      BY <3>3, <3>4
  <2> HIDE DEF e
  <2>8. QED
    BY <2>2, <2>6, <2>7 DEF Glues
<1>3. PICK f : Glues(f, pieces, N)
  <2>1. N \in 0..N
    BY <1>1
  <2>2. QED
    BY <1>2, <2>1
<1>4. \A n \in 0..N : f[n] \in Seq(Flag!Char)
  <2> DEFINE W == {n \in 0..N : f[n] \notin Seq(Flag!Char)}
  <2>1. ASSUME W # {} PROVE FALSE
    <3>1. PICK n \in W : \A l \in W : n <= l
      <4>1. W \subseteq Nat
        BY <1>1
      <4>2. QED
        BY <2>1, <4>1, LeastOf
    <3>2. n # 0
      <4>1. <<>> \in Seq(Flag!Char)
        OBVIOUS
      <4>2. QED
        BY <1>3, <3>1, <4>1 DEF Glues
    <3>3. n \in 1..N /\ n - 1 \in 0..N /\ ~(n <= n - 1)
      BY <1>1, <3>1, <3>2
    <3>4. f[n - 1] \in Seq(Flag!Char)
      BY <3>1, <3>3
    <3>5. f[n] = f[n - 1] \o pieces[n] /\ pieces[n] \in Seq(Flag!Char)
      BY <1>1, <1>3, <3>3 DEF Glues
    <3>6. f[n] \in Seq(Flag!Char)
      BY <3>4, <3>5
    <3>7. QED
      BY <3>1, <3>6
  <2>2. QED
    BY <2>1
<1>5. Flag!FlattenSeq(pieces) = f[N]
  <2>1. CASE N = 0
    BY <1>3, <2>1 DEF Flag!FlattenSeq, Glues
  <2>2. CASE N # 0
    <3> DEFINE Flat(g) == [i \in 1..N |-> IF i = 1 THEN pieces[i] ELSE g[i - 1] \o pieces[i]]
               flatten == CHOOSE g : g = Flat(g)
               h == [i \in 1..N |-> f[i]]
    <3>1. Flag!FlattenSeq(pieces) = flatten[N]
      BY <2>2 DEF Flag!FlattenSeq
    <3>2. f[1] = pieces[1]
      <4>1. 1 \in 1..N /\ f[1 - 1] = <<>> /\ pieces[1] \in Seq(Flag!Char)
        BY <1>1, <1>3, <2>2 DEF Glues
      <4>2. f[1] = f[1 - 1] \o pieces[1]
        BY <1>3, <4>1 DEF Glues
      <4>3. QED
        BY <4>1, <4>2
    <3>3. h = Flat(h)
      <4>1. ASSUME NEW i \in 1..N PROVE h[i] = IF i = 1 THEN pieces[i] ELSE h[i - 1] \o pieces[i]
        <5>1. CASE i = 1
          BY <3>2, <5>1
        <5>2. CASE i # 1
          <6>1. i - 1 \in 1..N
            BY <1>1, <5>2
          <6>2. h[i] = f[i] /\ h[i - 1] = f[i - 1] /\ f[i] = f[i - 1] \o pieces[i]
            BY <1>3, <6>1 DEF Glues
          <6>3. QED
            BY <5>2, <6>2
        <5>3. QED
          BY <5>1, <5>2
      <4>2. h = [i \in 1..N |-> h[i]]
        OBVIOUS
      <4> HIDE DEF h
      <4>3. QED
        BY <4>1, <4>2
    <3>4. flatten = Flat(flatten)
      BY <3>3
    <3> HIDE DEF flatten
    <3>5. \A i \in 1..N : flatten[i] = IF i = 1 THEN pieces[i] ELSE flatten[i - 1] \o pieces[i]
      BY <3>4
    <3> DEFINE W == {n \in 1..N : flatten[n] # f[n]}
    <3>6. ASSUME W # {} PROVE FALSE
      <4>1. PICK n \in W : \A l \in W : n <= l
        <5>1. W \subseteq Nat
          BY <1>1
        <5>2. QED
          BY <3>6, <5>1, LeastOf
      <4>2. n # 1
        BY <3>2, <3>5, <4>1
      <4>3. n - 1 \in 1..N /\ ~(n <= n - 1)
        BY <1>1, <4>1, <4>2
      <4>4. flatten[n - 1] = f[n - 1]
        BY <4>1, <4>3
      <4>5. f[n] = f[n - 1] \o pieces[n] /\ flatten[n] = flatten[n - 1] \o pieces[n]
        BY <1>3, <3>5, <4>1, <4>2 DEF Glues
      <4>6. QED
        BY <4>1, <4>4, <4>5
    <3>7. N \in 1..N
      BY <1>1, <2>2
    <3>8. QED
      BY <3>1, <3>6, <3>7
  <2>3. QED
    BY <2>1, <2>2
<1>6. QED
  BY <1>3, <1>4, <1>5 DEF Builds

\* The beginnings of a sequence.
LEMMA Beginnings ==
  ASSUME NEW T, NEW s \in Seq(T)
  PROVE  /\ SubSeq(s, 1, 0) = <<>> /\ SubSeq(s, 1, Len(s)) = s
         /\ \A n \in 1..Len(s) : /\ SubSeq(s, 1, n) \in Seq(T) /\ SubSeq(s, 1, n - 1) \in Seq(T)
                                 /\ SubSeq(s, 1, n) = SubSeq(s, 1, n - 1) \o <<s[n]>>
<1>1. SubSeq(s, 1, 0) = <<>> /\ SubSeq(s, 1, Len(s)) = s
  OBVIOUS
<1>2. ASSUME NEW n \in 1..Len(s)
      PROVE  /\ SubSeq(s, 1, n) \in Seq(T) /\ SubSeq(s, 1, n - 1) \in Seq(T)
             /\ SubSeq(s, 1, n) = SubSeq(s, 1, n - 1) \o <<s[n]>>
  OBVIOUS
<1>3. QED
  BY <1>1, <1>2

\* The length of a beginning.
LEMMA BeginningLength ==
  ASSUME NEW T, NEW s \in Seq(T), NEW m \in 0..Len(s)
  PROVE  Len(SubSeq(s, 1, m)) = m
OBVIOUS

\* A sequence is its beginning and the rest.
LEMMA Halves ==
  ASSUME NEW T, NEW s \in Seq(T), NEW m \in 0..Len(s)
  PROVE  s = SubSeq(s, 1, m) \o SubSeq(s, m + 1, Len(s))
<1> DEFINE u == SubSeq(s, 1, m)
           v == SubSeq(s, m + 1, Len(s))
<1>1. /\ Len(s) \in Nat /\ m \in Nat /\ u \in Seq(T) /\ v \in Seq(T) /\ Len(u) = m /\ Len(v) = Len(s) - m
      /\ (\A n \in 1..m : u[n] = s[n]) /\ \A n \in 1..(Len(s) - m) : v[n] = s[m + n]
  OBVIOUS
<1> HIDE DEF u, v
<1>2. u \o v \in Seq(T) /\ Len(u \o v) = Len(s)
  BY <1>1
<1>3. ASSUME NEW n \in 1..Len(s) PROVE (u \o v)[n] = s[n]
  <2>1. CASE n <= m
    BY <1>1, <2>1
  <2>2. CASE n > m
    <3>1. n - m \in 1..(Len(s) - m) /\ m + (n - m) = n
      BY <1>1, <2>2
    <3>2. (u \o v)[n] = v[n - m]
      BY <1>1, <2>2
    <3>3. QED
      BY <1>1, <3>1, <3>2
  <2>3. QED
    BY <1>1, <2>1, <2>2
<1> DEFINE w == u \o v
<1>4. w = s
  <2>1. w \in Seq(T) /\ Len(w) = Len(s) /\ \A n \in 1..Len(s) : w[n] = s[n]
    BY <1>2, <1>3
  <2> HIDE DEF w
  <2>2. w = [n \in 1..Len(w) |-> w[n]] /\ s = [n \in 1..Len(s) |-> s[n]]
    BY <2>1
  <2>3. QED
    BY <2>1, <2>2
<1>5. QED
  BY <1>4 DEF u, v, w

-----------------------------------------------------------------------------
(* What a quoted flag is read as *)

Reader(F, Q, C) == [flags |-> F, quote |-> Q, cur |-> C]
\* No backslash is before the then character.
Unescaped(C) == C = <<>> \/ Flag!Last(C) # "b"

\* What one character does, within quotes or outside of them.
LEMMA CharacterReads ==
  ASSUME NEW F, NEW C \in Seq(Flag!Char)
  PROVE  /\ \A c \in Flag!Char \ {"q"} : Flag!Character(Reader(F, "q", C), c) = Reader(F, "q", C \o <<c>>)
         /\ \A c \in {"a", "="} : Flag!Character(Reader(F, "none", C), c) = Reader(F, "none", C \o <<c>>)
         /\ C # <<>> => Flag!Character(Reader(F, "none", C), "w") = Reader(Append(F, C), "none", <<>>)
         /\ Unescaped(C) => /\ Flag!Character(Reader(F, "none", C), "q") = Reader(F, "q", C)
                            /\ Flag!Character(Reader(F, "q", C), "q") = Reader(F, "none", C)
         /\ Flag!Character(Reader(F, "q", C \o <<"b">>), "q") = Reader(F, "q", C \o <<"q">>)
<1>1. \A c \in Flag!Char : Append(C, c) = C \o <<c>>
  OBVIOUS
<1>2. {"a", "=", "b", "q"} \subseteq Flag!Char
  BY DEF Flag!Char
<1>3. ASSUME NEW c \in Flag!Char \ {"q"} PROVE Flag!Character(Reader(F, "q", C), c) = Reader(F, "q", C \o <<c>>)
  <2>1. Flag!Character(Reader(F, "q", C), c) = Reader(F, "q", Append(C, c))
    BY DEF Flag!Character, Reader
  <2>2. QED
    BY <1>1, <2>1
<1>4. ASSUME NEW c \in {"a", "="} PROVE Flag!Character(Reader(F, "none", C), c) = Reader(F, "none", C \o <<c>>)
  <2>1. Flag!Character(Reader(F, "none", C), c) = Reader(F, "none", Append(C, c))
    BY DEF Flag!Character, Reader
  <2>2. QED
    BY <1>1, <1>2, <2>1
<1>5. ASSUME C # <<>> PROVE Flag!Character(Reader(F, "none", C), "w") = Reader(Append(F, C), "none", <<>>)
  BY <1>5 DEF Flag!Character, Reader
<1>6. ASSUME Unescaped(C)
      PROVE  /\ Flag!Character(Reader(F, "none", C), "q") = Reader(F, "q", C)
             /\ Flag!Character(Reader(F, "q", C), "q") = Reader(F, "none", C)
  BY <1>6 DEF Flag!Character, Reader, Unescaped
<1>7. Flag!Character(Reader(F, "q", C \o <<"b">>), "q") = Reader(F, "q", C \o <<"q">>)
  <2> DEFINE D == C \o <<"b">>
  <2>1. D # <<>> /\ Flag!Last(D) = "b" /\ Flag!Front(D) = C
    <3>1. Len(D) = Len(C) + 1 /\ D[Len(C) + 1] = "b" /\ D \in Seq(Flag!Char) /\ Len(C) \in Nat /\ \A n \in 1..Len(C) : D[n] = C[n]
      BY <1>2
    <3> HIDE DEF D
    <3>2. Len(D) - 1 = Len(C)
      BY <3>1
    <3>3. SubSeq(D, 1, Len(C)) = C
      BY <3>1
    <3>4. QED
      BY <3>1, <3>2, <3>3 DEF Flag!Last, Flag!Front
  <2> HIDE DEF D
  <2>2. Flag!Character(Reader(F, "q", D), "q") = Reader(F, "q", Flag!Front(D) \o <<"q">>)
    BY <2>1 DEF Flag!Character, Reader
  <2>3. QED
    BY <2>1, <2>2 DEF D
<1>8. QED
  BY <1>3, <1>4, <1>5, <1>6, <1>7

\* ReaderOK quotes an escaped text is read as it was.
LEMMA EscapedReads ==
  ASSUME NEW F, NEW C \in Seq(Flag!Char), NEW s \in Seq(Flag!Char)
  PROVE  Flag!Escaped(s) \in Seq(Flag!Char) /\ Flag!Read(Reader(F, "q", C), Flag!Escaped(s)) = Reader(F, "q", C \o s)
<1> DEFINE piece(n) == IF s[n] = "q" THEN <<"b", "q">> ELSE <<s[n]>>
           pieces == [n \in DOMAIN s |-> piece(n)]
<1>1. Len(s) \in Nat /\ DOMAIN s = 1..Len(s) /\ \A n \in 1..Len(s) : s[n] \in Flag!Char
  OBVIOUS
<1>2. \A n \in 1..Len(s) : piece(n) \in Seq(Flag!Char)
  <2>1. ASSUME NEW n \in 1..Len(s) PROVE piece(n) \in Seq(Flag!Char)
    <3>1. <<"b", "q">> \in Seq(Flag!Char)
      BY DEF Flag!Char
    <3>2. s[n] \in Flag!Char
      BY <1>1
    <3>3. QED
      BY <3>1, <3>2
  <2>2. QED
    BY <2>1
<1>3. pieces \in Seq(Seq(Flag!Char)) /\ Len(pieces) = Len(s) /\ \A n \in 1..Len(s) : pieces[n] = piece(n)
  BY <1>1, <1>2
<1>4. Flag!Escaped(s) = Flag!FlattenSeq(pieces)
  BY DEF Flag!Escaped
<1> HIDE DEF pieces
<1>a. PICK f : Builds(f, pieces)
  BY <1>3, FlattenSteps
<1>5. /\ f[0] = <<>> /\ Flag!FlattenSeq(pieces) = f[Len(s)]
      /\ \A n \in 1..Len(s) : f[n] = f[n - 1] \o pieces[n]
      /\ \A n \in 0..Len(s) : f[n] \in Seq(Flag!Char)
  BY <1>3, <1>a DEF Builds, Glues
<1> DEFINE begin == Reader(F, "q", C)
           here(n) == Reader(F, "q", C \o SubSeq(s, 1, n))
           S == {n \in 0..Len(s) : Flag!Read(begin, f[n]) # here(n)}
<1> HIDE DEF begin
<1>6. ASSUME S # {} PROVE FALSE
  <2>1. PICK n \in S : \A m \in S : n <= m
    <3>1. S \subseteq Nat
      BY <1>1
    <3>2. QED
      BY <1>6, <3>1, LeastOf
  <2>2. n \in 0..Len(s) /\ n \in Nat /\ Flag!Read(begin, f[n]) # here(n)
    BY <1>1, <2>1
  <2>3. n # 0
    <3>1. SubSeq(s, 1, 0) = <<>>
      BY Beginnings
    <3>2. C \o <<>> = C
      OBVIOUS
    <3>3. Flag!Read(begin, <<>>) = begin
      BY ReadOne
    <3>4. QED
      BY <1>5, <2>2, <3>1, <3>2, <3>3 DEF begin
  <2>4. n - 1 \in 0..Len(s) /\ n \in 1..Len(s) /\ ~(n <= n - 1)
    BY <1>1, <2>2, <2>3
  <2> DEFINE D == C \o SubSeq(s, 1, n - 1)
             mid == Reader(F, "q", D)
  <2>5. Flag!Read(begin, f[n - 1]) = mid
    BY <2>1, <2>4
  <2>6. f[n] = f[n - 1] \o pieces[n] /\ f[n - 1] \in Seq(Flag!Char) /\ pieces[n] \in Seq(Flag!Char) /\ pieces[n] = piece(n)
    BY <1>2, <1>3, <1>5, <2>4
  <2>8. /\ SubSeq(s, 1, n - 1) \in Seq(Flag!Char)
        /\ SubSeq(s, 1, n) = SubSeq(s, 1, n - 1) \o <<s[n]>> /\ s[n] \in Flag!Char
    BY <1>1, <2>4, Beginnings
  <2>9. C \o SubSeq(s, 1, n) = D \o <<s[n]>> /\ D \in Seq(Flag!Char)
    BY <2>8
  <2>10. D \in Seq(Flag!Char)
    BY <2>9
  <2> HIDE DEF D, mid
  <2>7. Flag!Read(begin, f[n]) = Flag!Read(mid, pieces[n])
    <3> DEFINE u == f[n - 1]
               v == pieces[n]
    <3>1. u \in Seq(Flag!Char) /\ v \in Seq(Flag!Char) /\ f[n] = u \o v /\ Flag!Read(begin, u) = mid
      BY <2>5, <2>6
    <3> HIDE DEF u, v
    <3>2. Flag!Read(begin, u \o v) = Flag!Read(Flag!Read(begin, u), v)
      BY <3>1, ReadJoined
    <3>3. Flag!Read(begin, f[n]) = Flag!Read(mid, v)
      BY <3>1, <3>2
    <3>4. QED
      BY <3>3 DEF v
  <2>11. CASE s[n] = "q"
    <3>1. pieces[n] = <<"b">> \o <<"q">>
      BY <2>6, <2>11
    <3>2. Flag!Read(mid, <<"b">> \o <<"q">>) = Flag!Character(Flag!Character(mid, "b"), "q")
      <4> DEFINE u == <<"b">>
                 v == <<"q">>
      <4>1. u \in Seq(Flag!Char) /\ v \in Seq(Flag!Char)
        BY DEF Flag!Char
      <4>2. Flag!Read(mid, u) = Flag!Character(mid, "b") /\ Flag!Read(Flag!Read(mid, u), v) = Flag!Character(Flag!Read(mid, u), "q")
        BY ReadOne
      <4> HIDE DEF u, v
      <4>3. Flag!Read(mid, u \o v) = Flag!Read(Flag!Read(mid, u), v)
        BY <4>1, ReadJoined
      <4>4. QED
        BY <4>2, <4>3 DEF u, v
    <3>3. Flag!Character(mid, "b") = Reader(F, "q", D \o <<"b">>)
      <4>1. "b" \in Flag!Char \ {"q"}
        BY DEF Flag!Char
      <4>2. QED
        BY <2>10, <4>1, CharacterReads DEF mid
    <3>4. Flag!Character(Reader(F, "q", D \o <<"b">>), "q") = Reader(F, "q", D \o <<"q">>)
      BY <2>10, CharacterReads
    <3>5. QED
      BY <2>2, <2>7, <2>9, <2>11, <3>1, <3>2, <3>3, <3>4
  <2>12. CASE s[n] # "q"
    <3>1. pieces[n] = <<s[n]>>
      BY <2>6, <2>12
    <3>2. s[n] \in Flag!Char \ {"q"}
      BY <2>8, <2>12
    <3>3. Flag!Read(mid, <<s[n]>>) = Flag!Character(mid, s[n])
      BY ReadOne
    <3>4. Flag!Character(mid, s[n]) = Reader(F, "q", D \o <<s[n]>>)
      BY <2>10, <3>2, CharacterReads DEF mid
    <3>5. QED
      BY <2>2, <2>7, <2>9, <3>1, <3>3, <3>4
  <2>13. QED
    BY <2>11, <2>12
<1>7. Len(s) \in 0..Len(s) /\ SubSeq(s, 1, Len(s)) = s
  BY <1>1, Beginnings
<1>8. QED
  BY <1>4, <1>5, <1>6, <1>7 DEF begin

Bare == {"a", "="}
AllBare(s) == \A n \in 1..Len(s) : s[n] \in Bare

\* Outside of quotes letters and "=" are read as they are.
LEMMA PlainReads ==
  ASSUME NEW F, NEW C \in Seq(Flag!Char), NEW s \in Seq(Flag!Char)
  PROVE  AllBare(s) => Flag!Read(Reader(F, "none", C), s) = Reader(F, "none", C \o s)
<1>1. Len(s) \in Nat /\ \A n \in 1..Len(s) : s[n] \in Flag!Char
  OBVIOUS
<1> DEFINE begin == Reader(F, "none", C)
           here(n) == Reader(F, "none", C \o SubSeq(s, 1, n))
           S == {n \in 0..Len(s) : Flag!Read(begin, SubSeq(s, 1, n)) # here(n)}
<1> HIDE DEF begin, here
<1>3. ASSUME AllBare(s), S # {} PROVE FALSE
  <2>1. PICK n \in S : \A m \in S : n <= m
    <3>1. S \subseteq Nat
      BY <1>1
    <3>2. QED
      BY <1>3, <3>1, LeastOf
  <2>2. n \in 0..Len(s) /\ n \in Nat /\ Flag!Read(begin, SubSeq(s, 1, n)) # here(n)
    BY <1>1, <2>1
  <2>3. n # 0
    <3>1. SubSeq(s, 1, 0) = <<>>
      BY Beginnings
    <3>2. C \o <<>> = C
      OBVIOUS
    <3>3. Flag!Read(begin, <<>>) = begin
      BY ReadOne
    <3>4. QED
      BY <2>2, <3>1, <3>2, <3>3 DEF begin, here
  <2>4. n - 1 \in 0..Len(s) /\ n \in 1..Len(s) /\ ~(n <= n - 1)
    BY <1>1, <2>2, <2>3
  <2> DEFINE u == SubSeq(s, 1, n - 1)
             v == <<s[n]>>
             D == C \o u
             mid == Reader(F, "none", D)
  <2>5. Flag!Read(begin, u) = mid
    BY <2>1, <2>4 DEF here
  <2>6. u \in Seq(Flag!Char) /\ SubSeq(s, 1, n) = u \o v /\ s[n] \in Flag!Char
    BY <1>1, <2>4, Beginnings
  <2>a. s[n] \in Bare
    BY <1>3, <2>4 DEF AllBare
  <2>8. C \o SubSeq(s, 1, n) = D \o v /\ D \in Seq(Flag!Char) /\ v \in Seq(Flag!Char)
    BY <2>6
  <2> HIDE DEF u, D, mid, v
  <2>7. u \in Seq(Flag!Char) /\ v \in Seq(Flag!Char) /\ D \in Seq(Flag!Char)
    BY <2>6, <2>8
  <2>9. Flag!Read(mid, v) = Flag!Character(mid, s[n])
    BY ReadOne DEF v
  <2>10. Flag!Character(mid, s[n]) = Reader(F, "none", D \o v)
    BY <2>7, <2>a, CharacterReads DEF mid, Bare, v
  <2>11. Flag!Read(begin, u \o v) = Flag!Read(Flag!Read(begin, u), v)
    BY <2>7, ReadJoined
  <2>12. QED
    BY <2>2, <2>5, <2>6, <2>8, <2>9, <2>10, <2>11 DEF here
<1>4. Len(s) \in 0..Len(s) /\ SubSeq(s, 1, Len(s)) = s
  BY <1>1, Beginnings
<1>5. QED
  BY <1>3, <1>4 DEF begin, here

\* A quoted text is read as it was.
LEMMA QuotedReads ==
  ASSUME NEW F, NEW C \in Seq(Flag!Char), NEW s \in Seq(Flag!Char), Unescaped(C), Unescaped(C \o s)
  PROVE  Flag!Quoted(s) \in Seq(Flag!Char) /\ Flag!Read(Reader(F, "none", C), Flag!Quoted(s)) = Reader(F, "none", C \o s)
<1> DEFINE q == <<"q">>
           e == Flag!Escaped(s)
           begin == Reader(F, "none", C)
           inside == Reader(F, "q", C)
           end == Reader(F, "q", C \o s)
<1>1. q \in Seq(Flag!Char) /\ e \in Seq(Flag!Char) /\ Flag!Read(inside, e) = end
  <2>1. q \in Seq(Flag!Char)
    BY DEF Flag!Char
  <2>2. QED
    BY <2>1, EscapedReads
<1>2. Unescaped(C) /\ Unescaped(C \o s) /\ C \in Seq(Flag!Char) /\ C \o s \in Seq(Flag!Char)
  OBVIOUS
<1>3. Flag!Read(begin, q) = inside
  <2>1. Flag!Character(begin, "q") = inside
    BY <1>2, CharacterReads
  <2>2. Flag!Read(begin, q) = Flag!Character(begin, "q")
    BY ReadOne
  <2>3. QED
    BY <2>1, <2>2
<1>4. Flag!Read(end, q) = Reader(F, "none", C \o s)
  <2>1. Flag!Character(end, "q") = Reader(F, "none", C \o s)
    BY <1>2, CharacterReads
  <2>2. Flag!Read(end, q) = Flag!Character(end, "q")
    BY ReadOne
  <2>3. QED
    BY <2>1, <2>2
<1> HIDE DEF q, e, begin, inside, end
<1>5. Flag!Quoted(s) = (q \o e) \o q /\ q \o e \in Seq(Flag!Char) /\ (q \o e) \o q \in Seq(Flag!Char)
  <2>1. Flag!Quoted(s) = q \o e \o q
    BY DEF Flag!Quoted, q, e
  <2>2. QED
    BY <1>1, <2>1
<1>6. Flag!Read(begin, q \o e) = end
  BY <1>1, <1>3, ReadJoined
<1>7. Flag!Read(begin, (q \o e) \o q) = Flag!Read(end, q)
  <2> DEFINE w == q \o e
  <2>1. w \in Seq(Flag!Char) /\ Flag!Read(begin, w) = end
    BY <1>5, <1>6
  <2> HIDE DEF w
  <2>2. Flag!Read(begin, w \o q) = Flag!Read(Flag!Read(begin, w), q)
    BY <1>1, <2>1, ReadJoined
  <2>3. QED
    BY <2>1, <2>2 DEF w
<1>8. QED
  BY <1>4, <1>5, <1>7 DEF begin

\* A flag that is quoted as QuoteFlag does is read as it was.
LEMMA FlagReads ==
  ASSUME NEW F, NEW flag \in Flag!Parseable
  PROVE  Flag!QuoteFlag(flag) \in Seq(Flag!Char) /\ Flag!Read(Reader(F, "none", <<>>), Flag!QuoteFlag(flag)) = Reader(F, "none", flag)
<1>1. flag \in Seq(Flag!Char) /\ flag # <<>> /\ Unescaped(flag) /\ Unescaped(<<>>) /\ Len(flag) \in Nat /\ DOMAIN flag = 1..Len(flag)
  BY DEF Flag!Parseable, Unescaped
<1> DEFINE I == {n \in 1..Len(flag) : flag[n] = "="}
           eq == IF I # {} THEN Flag!Min(I) ELSE 0
           key == IF eq = 0 THEN flag ELSE SubSeq(flag, 1, eq - 1)
           value == SubSeq(flag, eq + 1, Len(flag))
           begin == Reader(F, "none", <<>>)
<1>2. Flag!QuoteFlag(flag) =
        IF flag = <<>> \/ Flag!NeedsQuoting(key) THEN Flag!Quoted(flag)
        ELSE IF eq = 0 THEN key
        ELSE key \o <<"=">> \o IF Flag!NeedsQuoting(value) THEN Flag!Quoted(value) ELSE value
  BY DEF Flag!QuoteFlag, Flag!SelectInSeq
<1>3. <<>> \in Seq(Flag!Char) /\ <<>> \o flag = flag
  BY <1>1
<1>4. eq \in 0..Len(flag) /\ (eq # 0 => flag[eq] = "=" /\ eq \in 1..Len(flag))
  <2>1. CASE I = {}
    BY <1>1, <2>1
  <2>2. CASE I # {}
    <3>1. \E n \in I : \A m \in I : n <= m
      <4>1. I \subseteq Nat
        OBVIOUS
      <4>2. QED
        BY <2>2, <4>1, LeastOf
    <3>2. Flag!Min(I) \in I
      BY <3>1 DEF Flag!Min
    <3>3. QED
      BY <1>1, <2>2, <3>2
  <2>3. QED
    BY <2>1, <2>2
<1> HIDE DEF eq
<1>5. key \in Seq(Flag!Char) /\ value \in Seq(Flag!Char)
  BY <1>1, <1>4
<1>6. \A s \in Seq(Flag!Char) : ~Flag!NeedsQuoting(s) => AllBare(s)
  BY DEF Flag!NeedsQuoting, AllBare, Bare
<1>7. CASE Flag!NeedsQuoting(key)
  <2>1. Flag!QuoteFlag(flag) = Flag!Quoted(flag)
    BY <1>2, <1>7
  <2>2. Unescaped(<<>>) /\ Unescaped(<<>> \o flag)
    BY <1>1, <1>3
  <2> HIDE DEF begin
  <2>3. Flag!Quoted(flag) \in Seq(Flag!Char) /\ Flag!Read(Reader(F, "none", <<>>), Flag!Quoted(flag)) = Reader(F, "none", <<>> \o flag)
    BY <1>1, <1>3, <2>2, QuotedReads
  <2>4. QED
    BY <1>3, <2>1, <2>3
<1>8. CASE ~Flag!NeedsQuoting(key) /\ eq = 0
  <2>1. Flag!QuoteFlag(flag) = flag /\ flag \in Seq(Flag!Char) /\ AllBare(flag)
    BY <1>1, <1>2, <1>6, <1>8
  <2>2. QED
    BY <1>1, <1>3, <2>1, PlainReads
<1>9. CASE ~Flag!NeedsQuoting(key) /\ eq # 0
  <2> DEFINE u == key \o <<"=">>
             v == IF Flag!NeedsQuoting(value) THEN Flag!Quoted(value) ELSE value
  <2>1. Flag!QuoteFlag(flag) = u \o v
    BY <1>1, <1>2, <1>9
  <2>2. u \in Seq(Flag!Char) /\ flag = u \o value /\ AllBare(u) /\ Unescaped(u)
    <3>1. key = SubSeq(flag, 1, eq - 1) /\ AllBare(key)
      BY <1>5, <1>6, <1>9
    <3>2. "=" \in Flag!Char /\ "=" \in Bare
      BY DEF Flag!Char, Bare
    <3>3. SubSeq(flag, 1, eq) = u
      BY <1>1, <1>4, <1>9, <3>1, Beginnings
    <3>4. flag = u \o value
      BY <1>1, <1>4, <3>3, Halves
    <3>5. u \in Seq(Flag!Char) /\ AllBare(u)
      <4> HIDE DEF key
      <4>1. QED
        BY <1>5, <3>1, <3>2 DEF AllBare
    <3>6. Unescaped(u)
      <4> HIDE DEF key
      <4>1. u[Len(u)] = "="
        BY <1>5
      <4>2. QED
        BY <4>1 DEF Unescaped, Flag!Last
    <3>7. QED
      BY <3>4, <3>5, <3>6
  <2> HIDE DEF key, value, u, v
  <2>3. Flag!Read(begin, u) = Reader(F, "none", u) /\ u \in Seq(Flag!Char)
    <3>1. <<>> \in Seq(Flag!Char) /\ <<>> \o u = u
      BY <2>2
    <3>2. QED
      BY <2>2, <3>1, PlainReads
  <2>4. Flag!Read(Reader(F, "none", u), v) = Reader(F, "none", flag) /\ v \in Seq(Flag!Char)
    <3>1. CASE Flag!NeedsQuoting(value)
      BY <1>1, <1>5, <2>2, <3>1, QuotedReads DEF v
    <3>2. CASE ~Flag!NeedsQuoting(value)
      BY <1>5, <1>6, <2>2, <2>3, <3>2, PlainReads DEF v
    <3>3. QED
      BY <3>1, <3>2
  <2>5. Flag!Read(begin, u \o v) = Flag!Read(Flag!Read(begin, u), v)
    BY <2>3, <2>4, ReadJoined
  <2>6. u \o v \in Seq(Flag!Char)
    <3>1. u \in Seq(Flag!Char) /\ v \in Seq(Flag!Char)
      BY <2>3, <2>4
    <3>2. QED
      BY <3>1
  <2>7. QED
    BY <2>1, <2>3, <2>4, <2>5, <2>6
<1>10. QED
  BY <1>7, <1>8, <1>9

-----------------------------------------------------------------------------
(* What is read back of a line that was written *)

Start == Reader(<<>>, "none", <<>>)
\* What the line is made of: the name of the program and the flags, each after a space.
Pieces(args) == <<<<"a">>>> \o [i \in 1..Len(args) |-> <<"w">> \o Flag!QuoteFlag(args[i])]
\* Everything there is to read, and what is read after n of it.
Tokens(args) == <<<<"a">>>> \o args
AfterFlags(args, n) == Reader(SubSeq(Tokens(args), 1, n - 1), "none", Tokens(args)[n])

\* The pieces of a line, one for the name of the program and one for each flag, and what they hold.
LEMMA PiecesOfRow ==
  ASSUME NEW args \in Seq(Flag!Parseable)
  PROVE  /\ Pieces(args) \in Seq(Seq(Flag!Char)) /\ Len(args) \in Nat /\ Len(Pieces(args)) = Len(args) + 1
         /\ Tokens(args) \in Seq(Flag!Parseable) /\ Len(Tokens(args)) = Len(args) + 1
         /\ Pieces(args)[1] = <<"a">> /\ Tokens(args)[1] = <<"a">>
         /\ \A n \in 1..Len(args) : Pieces(args)[n + 1] = <<"w">> \o Flag!QuoteFlag(args[n]) /\ Tokens(args)[n + 1] = args[n]
<1>1. Len(args) \in Nat /\ \A n \in 1..Len(args) : args[n] \in Flag!Parseable
  OBVIOUS
<1>2. <<"a">> \in Flag!Parseable /\ <<"a">> \in Seq(Flag!Char) /\ <<"w">> \in Seq(Flag!Char)
  <2>1. "a" \in Flag!Char /\ "w" \in Flag!Char
    BY DEF Flag!Char
  <2>2. Flag!Last(<<"a">>) = "a"
    BY DEF Flag!Last
  <2>3. QED
    BY <2>1, <2>2 DEF Flag!Parseable
<1> DEFINE rest == [i \in 1..Len(args) |-> <<"w">> \o Flag!QuoteFlag(args[i])]
           program == <<"a">>
<1>3. rest \in Seq(Seq(Flag!Char)) /\ Len(rest) = Len(args) /\ \A n \in 1..Len(args) : rest[n] = <<"w">> \o Flag!QuoteFlag(args[n])
  <2>1. ASSUME NEW n \in 1..Len(args) PROVE <<"w">> \o Flag!QuoteFlag(args[n]) \in Seq(Flag!Char)
    <3>1. Flag!QuoteFlag(args[n]) \in Seq(Flag!Char)
      BY <1>1, FlagReads
    <3>2. QED
      BY <1>2, <3>1
  <2>2. QED
    BY <1>1, <2>1
<1>4. Pieces(args) = <<program>> \o rest /\ Tokens(args) = <<program>> \o args /\ program \in Flag!Parseable /\ program \in Seq(Flag!Char)
  BY <1>2 DEF Pieces, Tokens
<1> HIDE DEF rest, program
<1>5. Pieces(args) \in Seq(Seq(Flag!Char)) /\ Len(Pieces(args)) = Len(args) + 1 /\ Pieces(args)[1] = program
      /\ \A n \in 1..Len(args) : Pieces(args)[n + 1] = rest[n]
  BY <1>1, <1>3, <1>4
<1>6. Tokens(args) \in Seq(Flag!Parseable) /\ Len(Tokens(args)) = Len(args) + 1 /\ Tokens(args)[1] = program
      /\ \A n \in 1..Len(args) : Tokens(args)[n + 1] = args[n]
  BY <1>1, <1>4
<1>7. program = <<"a">>
  BY DEF program
<1>8. QED
  BY <1>1, <1>3, <1>5, <1>6, <1>7

\* A line with a args of flags is read as that args.
LEMMA RowReads ==
  ASSUME NEW args \in Seq(Flag!Parseable)
  PROVE  Flag!FlattenSeq(Pieces(args)) \in Seq(Flag!Char) /\ Flag!Read(Start, Flag!FlattenSeq(Pieces(args))) = AfterFlags(args, Len(args) + 1)
<1> DEFINE pieces == Pieces(args)
           all == Tokens(args)
           N == Len(args) + 1
<1>1. /\ pieces \in Seq(Seq(Flag!Char)) /\ Len(args) \in Nat /\ N \in Nat /\ Len(pieces) = N /\ all \in Seq(Flag!Parseable) /\ Len(all) = N
      /\ pieces[1] = <<"a">> /\ all[1] = <<"a">>
      /\ \A n \in 1..Len(args) : pieces[n + 1] = <<"w">> \o Flag!QuoteFlag(all[n + 1])
  BY PiecesOfRow
<1>2. PICK f : Builds(f, pieces)
  BY <1>1, FlattenSteps
<1> HIDE DEF pieces, all
<1>3. /\ f[0] = <<>> /\ Flag!FlattenSeq(pieces) = f[N]
      /\ \A n \in 1..N : f[n] = f[n - 1] \o pieces[n]
      /\ \A n \in 0..N : f[n] \in Seq(Flag!Char)
  BY <1>1, <1>2 DEF Builds, Glues
<1> DEFINE here(n) == Reader(SubSeq(all, 1, n - 1), "none", all[n])
           S == {n \in 1..N : Flag!Read(Start, f[n]) # here(n)}
<1> HIDE DEF here, N
<1>4. ASSUME S # {} PROVE FALSE
  <2>1. PICK n \in S : \A m \in S : n <= m
    <3>1. S \subseteq Nat
      OBVIOUS
    <3>2. QED
      BY <1>4, <3>1, LeastOf
  <2>2. n \in 1..N /\ n \in Nat /\ n - 1 \in 0..N /\ Flag!Read(Start, f[n]) # here(n)
    BY <1>1, <2>1
  <2>3. f[n] = f[n - 1] \o pieces[n] /\ f[n - 1] \in Seq(Flag!Char) /\ pieces[n] \in Seq(Flag!Char)
    <3>1. f[n] = f[n - 1] \o pieces[n]
      BY <1>3, <2>2
    <3>2. f[n - 1] \in Seq(Flag!Char)
      BY <1>3, <2>2
    <3>3. pieces[n] \in Seq(Flag!Char)
      BY <1>1, <2>2
    <3>4. QED
      BY <3>1, <3>2, <3>3
  <2>4. n # 1
    <3>1. SUFFICES ASSUME n = 1 PROVE FALSE
      OBVIOUS
    <3>2. f[1] = <<"a">>
      <4>1. f[1] = f[0] \o pieces[1]
        <5>1. 1 \in 1..N /\ 1 - 1 = 0
          BY <2>2, <3>1
        <5>2. f[1] = f[1 - 1] \o pieces[1]
          BY <1>3, <5>1
        <5>3. QED
          BY <5>1, <5>2
      <4>2. f[0] \o pieces[1] = <<>> \o <<"a">>
        BY <1>1, <1>3
      <4>3. QED
        BY <4>1, <4>2
    <3>3. Flag!Read(Start, <<"a">>) = Flag!Character(Start, "a")
      BY ReadOne
    <3>4. Flag!Character(Start, "a") = Reader(<<>>, "none", <<>> \o <<"a">>)
      <4>1. <<>> \in Seq(Flag!Char)
        OBVIOUS
      <4>2. QED
        BY <4>1, CharacterReads DEF Start
    <3>5. <<>> \o <<"a">> = <<"a">> /\ SubSeq(all, 1, 0) = <<>> /\ 1 - 1 = 0
      BY <1>1, Beginnings
    <3>6. here(1) = Reader(<<>>, "none", <<"a">>)
      BY <1>1, <3>5 DEF here
    <3>7. QED
      BY <2>2, <3>1, <3>2, <3>3, <3>4, <3>5, <3>6
  <2> DEFINE m == n - 1
  <2>5. m \in 1..N /\ m \in Nat /\ m \in 1..Len(args) /\ n = m + 1 /\ ~(n <= m)
    BY <1>1, <2>2, <2>4 DEF N
  <2>6. Flag!Read(Start, f[m]) = here(m)
    BY <2>1, <2>5
  <2>7. all[m] \in Flag!Parseable /\ all[n] \in Flag!Parseable /\ pieces[n] = <<"w">> \o Flag!QuoteFlag(all[n])
    <3>1. m \in 1..Len(all) /\ n \in 1..Len(all)
      BY <1>1, <2>2, <2>5
    <3>2. all[m] \in Flag!Parseable /\ all[n] \in Flag!Parseable
      BY <1>1, <3>1
    <3>3. pieces[n] = <<"w">> \o Flag!QuoteFlag(all[n])
      BY <1>1, <2>5
    <3>4. QED
      BY <3>2, <3>3
  <2> DEFINE F == SubSeq(all, 1, m)
             gap == <<"w">>
             text == Flag!QuoteFlag(all[n])
             u == f[m]
             start == Reader(F, "none", <<>>)
  <2>8. Append(SubSeq(all, 1, m - 1), all[m]) = F /\ F = SubSeq(all, 1, n - 1)
    <3>1. SubSeq(all, 1, m) = SubSeq(all, 1, m - 1) \o <<all[m]>> /\ SubSeq(all, 1, m - 1) \in Seq(Flag!Parseable)
      BY <1>1, <2>5, Beginnings
    <3>2. QED
      BY <2>7, <3>1
  <2>9. Flag!Read(here(m), gap) = start
    <3>1. Flag!Read(here(m), gap) = Flag!Character(here(m), "w")
      BY ReadOne
    <3>2. all[m] \in Seq(Flag!Char) /\ all[m] # <<>>
      BY <2>7 DEF Flag!Parseable
    <3>3. Flag!Character(here(m), "w") = Reader(Append(SubSeq(all, 1, m - 1), all[m]), "none", <<>>)
      BY <3>2, CharacterReads DEF here
    <3>4. QED
      BY <2>8, <3>1, <3>3
  <2>10. text \in Seq(Flag!Char) /\ Flag!Read(start, text) = here(n)
    <3>1. text \in Seq(Flag!Char) /\ Flag!Read(start, text) = Reader(F, "none", all[n])
      BY <2>7, FlagReads
    <3>2. QED
      BY <2>8, <3>1 DEF here
  <2>11. gap \in Seq(Flag!Char) /\ u \in Seq(Flag!Char) /\ f[n] = u \o (gap \o text)
    BY <2>3, <2>7 DEF Flag!Char
  <2> HIDE DEF m, F, start
  <2>12. Flag!Read(here(m), gap \o text) = here(n)
    <3> HIDE DEF gap, text
    <3>1. Flag!Read(here(m), gap \o text) = Flag!Read(Flag!Read(here(m), gap), text)
      BY <2>10, <2>11, ReadJoined
    <3>2. QED
      BY <2>9, <2>10, <3>1
  <2>13. Flag!Read(Start, u \o (gap \o text)) = Flag!Read(Flag!Read(Start, u), gap \o text)
    <3> DEFINE v == gap \o text
    <3>1. v \in Seq(Flag!Char) /\ u \in Seq(Flag!Char)
      BY <2>10, <2>11
    <3> HIDE DEF v, u
    <3>2. Flag!Read(Start, u \o v) = Flag!Read(Flag!Read(Start, u), v)
      BY <3>1, ReadJoined
    <3>3. QED
      BY <3>2 DEF v
  <2> HIDE DEF u, gap, text
  <2>14. Flag!Read(Start, u) = here(m)
    BY <2>6 DEF u
  <2>15. QED
    BY <2>2, <2>11, <2>12, <2>13, <2>14
<1>5. N \in 1..N /\ N \in 0..N
  BY <1>1 DEF N
<1>6. Flag!Read(Start, f[N]) = here(N) /\ f[N] \in Seq(Flag!Char)
  BY <1>3, <1>4, <1>5
<1>7. QED
  BY <1>3, <1>6 DEF here, N, AfterFlags, pieces, all

\* The size of a set in the part with the flags is its size.
LEMMA SizeOfFlags ==
  ASSUME NEW S
  PROVE  Flag!Cardinality(S) = Cardinality(S)
BY DEF Flag!Cardinality, Cardinality, Flag!IsFiniteSet, IsFiniteSet

\* A sequence of a finite set has exactly its elements.
LEMMA SetAsSequence ==
  ASSUME NEW S, IsFiniteSet(S)
  PROVE  Flag!SetToSeq(S) \in Seq(S) /\ Flag!ToSet(Flag!SetToSeq(S)) = S
<1> DEFINE n == Cardinality(S)
           args == Flag!SetToSeq(S)
<1>1. n \in Nat
  BY FS_CardinalityType
<1>2. \E f \in [1..n -> S] : Flag!IsInjective(f)
  <2>1. PICK k \in Nat : ExistsBijection(1..k, S)
    BY FS_NatBijection
  <2>2. k = n
    BY <2>1, FS_CountingElements
  <2>3. PICK f : f \in Bijection(1..k, S)
    BY <2>1 DEF ExistsBijection
  <2>4. f \in [1..k -> S] /\ Flag!IsInjective(f)
    BY <2>3 DEF Bijection, Injection, IsInjective, Flag!IsInjective
  <2>5. QED
    BY <2>2, <2>4
<1>3. args \in [1..n -> S] /\ Flag!IsInjective(args)
  BY <1>2, SizeOfFlags DEF Flag!SetToSeq
<1> HIDE DEF args
<1>4. args \in Seq(S) /\ DOMAIN args = 1..n
  BY <1>1, <1>3
<1> DEFINE R == Flag!ToSet(args)
<1>5. R \subseteq S /\ args \in Bijection(1..n, R)
  <2>1. R \subseteq S /\ args \in [1..n -> R] /\ \A x \in R : \E i \in 1..n : args[i] = x
    BY <1>3, <1>4 DEF Flag!ToSet
  <2>2. \A a, b \in 1..n : args[a] = args[b] => a = b
    BY <1>3, <1>4 DEF Flag!IsInjective
  <2> HIDE DEF R
  <2>3. args \in Injection(1..n, R) /\ args \in Surjection(1..n, R)
    BY <2>1, <2>2 DEF Injection, Surjection, IsInjective, Flag!IsInjective
  <2>4. QED
    BY <2>1, <2>3 DEF Bijection
<1> HIDE DEF R
<1>6. Cardinality(R) = n
  BY <1>1, <1>5, FS_CountingElements DEF ExistsBijection
<1>7. R = S
  BY <1>5, <1>6, FS_Subset
<1>8. QED
  BY <1>4, <1>7 DEF R, args

\* What is read has its type, whatever the line says.
ReaderOK(st) == st.flags \in Seq(Seq(Flag!Char)) /\ st.quote \in {"none", "q", "s"} /\ st.cur \in Seq(Flag!Char)

\* One more character keeps it.
LEMMA CharacterTypes ==
  ASSUME NEW st, ReaderOK(st), NEW c \in Flag!Char, st = Reader(st.flags, st.quote, st.cur)
  PROVE  /\ ReaderOK(Flag!Character(st, c))
         /\ Flag!Character(st, c) = Reader(Flag!Character(st, c).flags, Flag!Character(st, c).quote, Flag!Character(st, c).cur)
<1> DEFINE F == st.flags
           Q == st.quote
           C == st.cur
           then == Flag!Character(st, c)
<1>1. F \in Seq(Seq(Flag!Char)) /\ Q \in {"none", "q", "s"} /\ C \in Seq(Flag!Char) /\ st = Reader(F, Q, C)
  BY DEF ReaderOK
<1> HIDE DEF F, Q, C
<1>2. Append(C, c) \in Seq(Flag!Char) /\ Append(F, C) \in Seq(Seq(Flag!Char)) /\ <<>> \in Seq(Flag!Char)
  BY <1>1
<1>3. C # <<>> => Flag!Front(C) \o <<c>> \in Seq(Flag!Char)
  BY <1>1 DEF Flag!Front
<1>4. \/ c \in {"q", "s"} /\ C # <<>> /\ then = Reader(F, Q, Flag!Front(C) \o <<c>>)
      \/ c \in {"q", "s"} /\ then = Reader(F, IF Q = "none" THEN c ELSE "none", C)
      \/ then = Reader(F, Q, C)
      \/ then = Reader(Append(F, C), Q, <<>>)
      \/ then = Reader(F, Q, Append(C, c))
  <2>1. CASE (Q = "none" /\ c \in {"q", "s"}) \/ c = Q
    <3>1. c \in {"q", "s"}
      BY <1>1, <2>1 DEF Flag!Char
    <3>2. CASE C # <<>> /\ Flag!Last(C) = "b"
      BY <1>1, <2>1, <3>1, <3>2 DEF Flag!Character, Reader
    <3>3. CASE ~(C # <<>> /\ Flag!Last(C) = "b")
      BY <1>1, <2>1, <3>1, <3>3 DEF Flag!Character, Reader
    <3>4. QED
      BY <3>2, <3>3
  <2>2. CASE ~((Q = "none" /\ c \in {"q", "s"}) \/ c = Q)
    BY <1>1, <2>2 DEF Flag!Character, Reader
  <2>3. QED
    BY <2>1, <2>2
<1>5. ASSUME NEW G \in Seq(Seq(Flag!Char)), NEW R \in {"none", "q", "s"}, NEW D \in Seq(Flag!Char), then = Reader(G, R, D)
      PROVE  ReaderOK(then) /\ then = Reader(then.flags, then.quote, then.cur)
  BY <1>5 DEF ReaderOK, Reader
<1> HIDE DEF then
<1>6. QED
  <2>1. CASE c \in {"q", "s"} /\ C # <<>> /\ then = Reader(F, Q, Flag!Front(C) \o <<c>>)
    BY <1>1, <1>3, <1>5, <2>1 DEF then
  <2>2. CASE c \in {"q", "s"} /\ then = Reader(F, IF Q = "none" THEN c ELSE "none", C)
    <3>1. (IF Q = "none" THEN c ELSE "none") \in {"none", "q", "s"}
      BY <2>2
    <3>2. QED
      BY <1>1, <1>5, <2>2, <3>1 DEF then
  <2>3. CASE then = Reader(F, Q, C)
    BY <1>1, <1>5, <2>3 DEF then
  <2>4. CASE then = Reader(Append(F, C), Q, <<>>)
    BY <1>1, <1>2, <1>5, <2>4 DEF then
  <2>5. CASE then = Reader(F, Q, Append(C, c))
    BY <1>1, <1>2, <1>5, <2>5 DEF then
  <2>6. QED
    BY <1>4, <2>1, <2>2, <2>3, <2>4, <2>5

\* A line of characters is read into flags of characters.
LEMMA ReadTypes ==
  ASSUME NEW line \in Seq(Flag!Char)
  PROVE  ReaderOK(Flag!Read(Start, line))
<1>1. Len(line) \in Nat /\ \A n \in 1..Len(line) : line[n] \in Flag!Char
  OBVIOUS
<1>2. PICK h : Reads(h, Start, line)
  BY <1>1, ReadingExists
<1>3. Flag!Read(Start, line) = h[Len(line)]
  BY <1>1, <1>2, ReadIsEnd
<1> DEFINE Fine(st) == ReaderOK(st) /\ st = Reader(st.flags, st.quote, st.cur)
           S == {n \in 0..Len(line) : ~Fine(h[n])}
<1>4. Fine(Start)
  <2>1. Start.flags = <<>> /\ Start.quote = "none" /\ Start.cur = <<>>
    BY DEF Start, Reader
  <2>2. Start = Reader(Start.flags, Start.quote, Start.cur)
    BY <2>1 DEF Start
  <2>3. QED
    BY <2>1, <2>2 DEF ReaderOK
<1>5. ASSUME NEW st, Fine(st), NEW c \in Flag!Char PROVE Fine(Flag!Character(st, c))
  BY <1>5, CharacterTypes
<1> HIDE DEF Fine
<1>6. ASSUME S # {} PROVE FALSE
  <2>1. PICK n \in S : \A m \in S : n <= m
    <3>1. S \subseteq Nat
      BY <1>1
    <3>2. QED
      BY <1>6, <3>1, LeastOf
  <2>2. n \in 0..Len(line) /\ n \in Nat /\ ~Fine(h[n])
    BY <1>1, <2>1
  <2>3. n # 0
    BY <1>2, <1>4, <2>2 DEF Reads, ReadsUpto
  <2>4. n - 1 \in 0..Len(line) /\ n \in 1..Len(line) /\ ~(n <= n - 1)
    BY <1>1, <2>2, <2>3
  <2>5. Fine(h[n - 1])
    BY <2>1, <2>4
  <2>6. h[n] = Flag!Character(h[n - 1], line[n]) /\ line[n] \in Flag!Char
    BY <1>1, <1>2, <2>2, <2>3, <2>4 DEF Reads, ReadsUpto
  <2>7. QED
    BY <1>5, <2>2, <2>5, <2>6
<1>7. Fine(h[Len(line)])
  <2>1. Len(line) \in 0..Len(line)
    BY <1>1
  <2>2. QED
    BY <1>6, <2>1
<1>8. QED
  BY <1>3, <1>7 DEF Fine

\* A sequence has finitely many elements.
LEMMA ToSetFinite ==
  ASSUME NEW T, NEW s \in Seq(T)
  PROVE  IsFiniteSet(Flag!ToSet(s)) /\ Flag!ToSet(s) \subseteq T
<1>1. Len(s) \in Nat /\ DOMAIN s = 1..Len(s) /\ Flag!ToSet(s) = {s[i] : i \in 1..Len(s)} /\ \A i \in 1..Len(s) : s[i] \in T
  BY DEF Flag!ToSet
<1> DEFINE R == {s[i] : i \in 1..Len(s)}
           f == [i \in 1..Len(s) |-> s[i]]
<1>2. f \in [1..Len(s) -> R] /\ \A x \in R : \E i \in 1..Len(s) : f[i] = x
  OBVIOUS
<1> HIDE DEF f, R
<1>3. f \in Surjection(1..Len(s), R)
  BY <1>2 DEF Surjection
<1>4. IsFiniteSet(R)
  BY <1>1, <1>3, FS_Interval, FS_Surjection
<1>5. QED
  BY <1>1, <1>4 DEF R

\* A line has finitely many flags.
LEMMA ParseFinite ==
  ASSUME NEW line \in Seq(Flag!Char)
  PROVE  IsFiniteSet(Flag!ParseFlags(line))
<1> DEFINE end == Flag!Read(Start, line)
           all == IF end.cur = <<>> THEN end.flags ELSE Append(end.flags, end.cur)
           rest == IF all = <<>> THEN <<>> ELSE Tail(all)
<1>1. end.flags \in Seq(Seq(Flag!Char)) /\ end.cur \in Seq(Flag!Char)
  BY ReadTypes DEF ReaderOK
<1>2. Flag!ParseFlags(line) = Flag!ToSet(rest)
  BY DEF Flag!ParseFlags, Start, Reader
<1> HIDE DEF end
<1>3. all \in Seq(Seq(Flag!Char))
  BY <1>1
<1> HIDE DEF all
<1>4. rest \in Seq(Seq(Flag!Char))
  BY <1>3
<1> HIDE DEF rest
<1>5. QED
  BY <1>2, <1>4, ToSetFinite

\* What was written is read back.
LEMMA RoundTrip ==
  ASSUME NEW S, IsFiniteSet(S), S \subseteq Flag!Parseable
  PROVE  Flag!SerializeFlags(S) \in Seq(Flag!Char) /\ Flag!ParseFlags(Flag!SerializeFlags(S)) = S
<1>1. CASE S = {}
  <2>1. Flag!SerializeFlags(S) = <<>>
    BY <1>1 DEF Flag!SerializeFlags
  <2>2. Flag!Read(Start, <<>>) = Start
    BY ReadOne
  <2>3. Flag!ParseFlags(<<>>) = Flag!ToSet(<<>>)
    <3>1. Start.cur = <<>> /\ Start.flags = <<>>
      BY DEF Start, Reader
    <3>2. Flag!ParseFlags(<<>>) = Flag!ToSet(IF Start.flags = <<>> THEN <<>> ELSE Tail(Start.flags))
      BY <2>2, <3>1 DEF Flag!ParseFlags, Start, Reader
    <3>3. QED
      BY <3>1, <3>2
  <2>4. Flag!ToSet(<<>>) = {}
    BY DEF Flag!ToSet
  <2>5. <<>> \in Seq(Flag!Char)
    OBVIOUS
  <2>6. Flag!ParseFlags(<<>>) = S
    BY <1>1, <2>3, <2>4
  <2>7. QED
    BY <2>1, <2>5, <2>6
<1>2. CASE S # {}
  <2> DEFINE args == Flag!SetToSeq(S)
             all == Tokens(args)
             end == Flag!Read(Start, Flag!FlattenSeq(Pieces(args)))
  <2>1. args \in Seq(S) /\ Flag!ToSet(args) = S
    BY SetAsSequence
  <2>2. Flag!SerializeFlags(S) = Flag!FlattenSeq(Pieces(args))
    BY <1>2 DEF Flag!SerializeFlags, Pieces
  <2> HIDE DEF args, end
  <2>3. args \in Seq(Flag!Parseable)
    BY <2>1
  <2>4. Flag!FlattenSeq(Pieces(args)) \in Seq(Flag!Char) /\ end = AfterFlags(args, Len(args) + 1)
    BY <2>3, RowReads DEF end
  <2>5. /\ Len(args) \in Nat /\ all \in Seq(Flag!Parseable) /\ Len(all) = Len(args) + 1
        /\ \A n \in 1..Len(args) : all[n + 1] = args[n]
    BY <2>3, PiecesOfRow
  <2> HIDE DEF all
  <2> DEFINE N == Len(args)
             init == SubSeq(all, 1, N)
             final == all[N + 1]
  <2>6. end.flags = init /\ end.cur = final
    BY <2>4, <2>5 DEF AfterFlags, Reader, all
  <2>7. final \in Flag!Parseable /\ init \in Seq(Flag!Parseable) /\ Append(init, final) = all
    <3>1. N + 1 \in 1..Len(all) /\ (N + 1) - 1 = N
      BY <2>5
    <3>2. init \in Seq(Flag!Parseable) /\ SubSeq(all, 1, N + 1) = init \o <<final>> /\ SubSeq(all, 1, N + 1) = all
      BY <2>5, <3>1, Beginnings
    <3>3. final \in Flag!Parseable
      BY <2>5, <3>1
    <3>4. QED
      BY <3>2, <3>3
  <2>8. final # <<>>
    BY <2>7 DEF Flag!Parseable
  <2>9. all # <<>> /\ Tail(all) = args
    BY <2>3, <2>5
  <2> HIDE DEF init, final
  <2>10. Flag!ParseFlags(Flag!FlattenSeq(Pieces(args))) = Flag!ToSet(Tail(all))
    <3>1. Flag!ParseFlags(Flag!FlattenSeq(Pieces(args))) =
            Flag!ToSet(IF (IF end.cur = <<>> THEN end.flags ELSE Append(end.flags, end.cur)) = <<>> THEN <<>>
                  ELSE Tail(IF end.cur = <<>> THEN end.flags ELSE Append(end.flags, end.cur)))
      BY DEF Flag!ParseFlags, end, Start, Reader
    <3>2. (IF end.cur = <<>> THEN end.flags ELSE Append(end.flags, end.cur)) = all
      BY <2>6, <2>7, <2>8
    <3>3. QED
      BY <2>9, <3>1, <3>2
  <2>11. QED
    BY <2>1, <2>2, <2>4, <2>9, <2>10
<1>3. QED
  BY <1>1, <1>2

-----------------------------------------------------------------------------
(* The stack *)

\* Finite sets of flags that can be written and read.
FlagSets == {S \in SUBSET Flag!Parseable : IsFiniteSet(S)}

\* The topmost level is what the file says and every level is what was asked for, unless a write failed.
FlagInv ==
  /\ Flag!TypeOK
  /\ Flag!ParseFlags(flagFile) \in FlagSets
  /\ stack \in Seq(FlagSets) /\ asked \in Seq(FlagSets)
  /\ flagPhase \in {"out", "construct"} => stack = <<>>
  /\ flagPhase \in {"replace", "in", "restore", "direct"} => stack # <<>>
  /\ flagPhase = "replace" => Len(stack) = 1
  /\ stack # <<>> /\ "write" \notin writeFailed => stack = asked /\ Flag!ParseFlags(flagFile) = Flag!Last(asked)

\* What the file holds beforehand can be read, and there is no stack.
LEMMA FlagInvInit == Flag!Init => FlagInv
<1>1. SUFFICES ASSUME Flag!Init PROVE FlagInv
  OBVIOUS
<1>2. flagFile \in Seq(Flag!Char) /\ Flag!ParseFlags(flagFile) \subseteq Flag!Parseable
  BY <1>1, ServicesAssumption DEF Flag!Init, Flag!FlagsAssumption
<1>3. Flag!ParseFlags(flagFile) \in FlagSets
  BY <1>2, ParseFinite DEF FlagSets
<1>4. stack \in Seq(FlagSets) /\ asked \in Seq(FlagSets) /\ Len(stack) = 0 /\ Len(asked) = 0 /\ stack = <<>>
  BY <1>1 DEF Flag!Init
<1>5. MaxDepth \in Nat /\ flagPhase = "out" /\ writeFailed = {} /\ enforcing = TRUE /\ needs = FALSE
  BY <1>1, ServicesAssumption DEF Flag!Init, Flag!FlagsAssumption
<1>6. Flag!TypeOK
  <2>1. Len(stack) <= MaxDepth /\ Len(asked) = Len(stack)
    BY <1>4, <1>5
  <2>2. enforcing \in BOOLEAN /\ needs \in BOOLEAN
    BY <1>5
  <2>3. QED
    BY <1>2, <1>5, <2>1, <2>2 DEF Flag!TypeOK
<1>7. QED
  BY <1>3, <1>4, <1>5, <1>6 DEF FlagInv

\* What the changed flags are made of, and the final and the program levels of a stack.
LEMMA LevelsOf ==
  ASSUME NEW s \in Seq(FlagSets)
  PROVE  /\ Len(s) \in Nat
         /\ s # <<>> => /\ Flag!Last(s) \in FlagSets /\ Flag!Front(s) \in Seq(FlagSets) /\ Len(Flag!Front(s)) = Len(s) - 1
                        /\ Flag!Front(s) \o <<Flag!Last(s)>> = s
         /\ \A S \in FlagSets : Append(s, S) \in Seq(FlagSets) /\ Append(s, S) # <<>> /\ Len(Append(s, S)) = Len(s) + 1
<1>1. Len(s) \in Nat /\ \A S \in FlagSets : Append(s, S) \in Seq(FlagSets) /\ Append(s, S) # <<>> /\ Len(Append(s, S)) = Len(s) + 1
  OBVIOUS
<1>2. ASSUME s # <<>>
      PROVE  Flag!Last(s) \in FlagSets /\ Flag!Front(s) \in Seq(FlagSets) /\ Len(Flag!Front(s)) = Len(s) - 1 /\ Flag!Front(s) \o <<Flag!Last(s)>> = s
  <2>1. Len(s) \in 1..Len(s) /\ Len(s) # 0
    BY <1>2
  <2>2. SubSeq(s, 1, Len(s)) = SubSeq(s, 1, Len(s) - 1) \o <<s[Len(s)]>> /\ SubSeq(s, 1, Len(s)) = s
    BY <2>1, Beginnings
  <2>3. Flag!Last(s) = s[Len(s)] /\ Flag!Front(s) = SubSeq(s, 1, Len(s) - 1)
    BY DEF Flag!Last, Flag!Front
  <2>4. SubSeq(s, 1, Len(s) - 1) \in Seq(FlagSets) /\ Len(SubSeq(s, 1, Len(s) - 1)) = Len(s) - 1
    <3>1. Len(s) \in Nat /\ 1 \in Nat /\ Len(s) - 1 \in 0..Len(s)
      BY <2>1
    <3>2. SubSeq(s, 1, Len(s) - 1) \in Seq(FlagSets)
      BY <2>1, Beginnings
    <3>3. Len(SubSeq(s, 1, Len(s) - 1)) = Len(s) - 1
      BY <3>1, BeginningLength
    <3>4. QED
      BY <3>2, <3>3
  <2>5. s[Len(s)] \in FlagSets
    BY <2>1
  <2>6. QED
    BY <2>2, <2>3, <2>4, <2>5
<1>3. QED
  BY <1>1, <1>2

\* What writing the topmost level does.
Written(levels, wanted) ==
  /\ flagFile' \in Seq(Flag!Char) /\ Flag!ParseFlags(flagFile') \in FlagSets
  /\ stack' = levels /\ asked' = wanted
  /\ writeFailed' \in {writeFailed, writeFailed \union {"write"}}
  /\ "write" \notin writeFailed' => "write" \notin writeFailed /\ Flag!ParseFlags(flagFile') = Flag!Last(levels)

\* Update writes the topmost level, or fails and says so.
LEMMA UpdateWrites ==
  ASSUME FlagInv, NEW levels \in Seq(FlagSets), levels # <<>>, NEW wanted, NEW n, NEW e, Flag!Update(levels, wanted, n, e)
  PROVE  Written(levels, wanted) /\ flagPhase' \in {n, e}
<1> DEFINE top == Flag!Last(levels)
           line == Flag!SerializeFlags(top)
<1>1. top \in FlagSets /\ Flag!Front(levels) \o <<top>> = levels
  BY LevelsOf
<1>2. line \in Seq(Flag!Char) /\ Flag!ParseFlags(line) = top
  BY <1>1, RoundTrip DEF FlagSets
<1>3. flagFile \in Seq(Flag!Char) /\ Flag!ParseFlags(flagFile) \in FlagSets
  BY DEF FlagInv, Flag!TypeOK
<1>4. \/ /\ flagFile' = line /\ stack' = Flag!Front(levels) \o <<Flag!ParseFlags(line)>> /\ asked' = wanted
         /\ flagPhase' = n /\ UNCHANGED writeFailed
      \/ /\ flagFile' \in {flagFile, line} /\ stack' = levels /\ asked' = wanted
         /\ flagPhase' = e /\ writeFailed' = writeFailed \union {"write"}
  BY DEF Flag!Update
<1> HIDE DEF top, line
<1>5. CASE /\ flagFile' = line /\ stack' = Flag!Front(levels) \o <<Flag!ParseFlags(line)>> /\ asked' = wanted
           /\ flagPhase' = n /\ UNCHANGED writeFailed
  BY <1>1, <1>2, <1>5 DEF Written, top
<1>6. CASE /\ flagFile' \in {flagFile, line} /\ stack' = levels /\ asked' = wanted
           /\ flagPhase' = e /\ writeFailed' = writeFailed \union {"write"}
  BY <1>1, <1>2, <1>3, <1>6 DEF Written
<1>7. QED
  BY <1>4, <1>5, <1>6

\* A step that writes keeps the invariant.
LEMMA WritingKeepsInv ==
  ASSUME FlagInv, NEW levels \in Seq(FlagSets), levels # <<>>, Len(levels) <= MaxDepth, NEW wanted \in Seq(FlagSets), Len(wanted) = Len(levels),
         "write" \notin writeFailed => levels = wanted,
         Written(levels, wanted), enforcing' \in BOOLEAN, needs' \in BOOLEAN, flagPhase' \in {"in", "restore", "enforce", "direct"}
  PROVE  FlagInv'
<1>1. writeFailed' \subseteq {"write", "enforce"}
  BY DEF FlagInv, Flag!TypeOK, Written
<1>2. Flag!TypeOK'
  BY <1>1 DEF Written, Flag!TypeOK
<1>3. (stack # <<>> /\ "write" \notin writeFailed => stack = asked /\ Flag!ParseFlags(flagFile) = Flag!Last(asked))'
  BY DEF Written
<1>4. QED
  BY <1>2, <1>3 DEF FlagInv, Written

\* AddFlags, RemoveFlags, ReplaceFlags and Restore of a FlagChanger of its own keep the invariant.
LEMMA DirectKeepsInv == ASSUME FlagInv, Flag!DirectStep PROVE FlagInv'
<1>0. /\ Flag!TypeOK /\ Flag!ParseFlags(flagFile) \in FlagSets /\ stack \in Seq(FlagSets) /\ asked \in Seq(FlagSets) /\ MaxDepth \in Nat \ {0, 1}
      /\ enforcing' = enforcing /\ needs' = needs /\ Len(stack) \in Nat
  BY ServicesAssumption, LevelsOf DEF FlagInv, Flag!DirectStep, Flag!FlagsAssumption
<1>1. CASE flagPhase = "out" /\ Flag!Construct("direct") /\ writeFailed' = writeFailed \ {"write"} /\ UNCHANGED flagFile
  <2> DEFINE S == Flag!ParseFlags(flagFile)
             one == <<S>>
  <2>1. one \in Seq(FlagSets) /\ Len(one) = 1 /\ one # <<>> /\ Flag!Last(one) = S
    BY <1>0 DEF Flag!Last
  <2>a. 1 <= MaxDepth
    BY <1>0
  <2>2. stack' = one /\ asked' = one /\ flagPhase' = "direct" /\ flagFile' = flagFile /\ writeFailed' \subseteq {"write", "enforce"}
    BY <1>0, <1>1 DEF Flag!Construct, Flag!Shown, Flag!TypeOK
  <2>3. Flag!ParseFlags(flagFile') = S /\ S \in FlagSets
    BY <1>0, <2>2
  <2> HIDE DEF one, S
  <2>4. Flag!TypeOK'
    <3>1. flagFile' \in Seq(Flag!Char) /\ enforcing' \in BOOLEAN /\ needs' \in BOOLEAN
      BY <1>0, <2>2 DEF Flag!TypeOK
    <3>2. Len(stack') <= MaxDepth /\ Len(asked') = Len(stack')
      BY <2>1, <2>2, <2>a
    <3>3. QED
      BY <2>2, <3>1, <3>2 DEF Flag!TypeOK
  <2>5. QED
    BY <2>1, <2>2, <2>3, <2>4 DEF FlagInv
<1>2. CASE /\ flagPhase = "direct" /\ Len(stack) < MaxDepth
           /\ \E f \in Flags : \E flags \in {Flag!Last(stack) \union {f}, Flag!Last(stack) \ {f}, {f}} : Flag!ReplaceFlags(flags, "direct", "direct")
  <2>1. PICK f \in Flags : \E flags \in {Flag!Last(stack) \union {f}, Flag!Last(stack) \ {f}, {f}} : Flag!ReplaceFlags(flags, "direct", "direct")
    BY <1>2
  <2>2. PICK flags \in {Flag!Last(stack) \union {f}, Flag!Last(stack) \ {f}, {f}} : Flag!ReplaceFlags(flags, "direct", "direct")
    BY <2>1
  <2>3. stack # <<>> /\ Flag!Last(stack) \in FlagSets
    BY <1>0, <1>2, LevelsOf DEF FlagInv
  <2>4. flags \in FlagSets
    <3>1. f \in Flag!Parseable
      BY ServicesAssumption DEF Flag!FlagsAssumption
    <3>2. IsFiniteSet(Flag!Last(stack)) /\ Flag!Last(stack) \subseteq Flag!Parseable
      BY <2>3 DEF FlagSets
    <3>3. IsFiniteSet(Flag!Last(stack) \union {f}) /\ IsFiniteSet(Flag!Last(stack) \ {f}) /\ IsFiniteSet({f})
      BY <3>2, FS_AddElement, FS_RemoveElement, FS_Singleton
    <3>4. QED
      BY <2>2, <3>1, <3>2, <3>3 DEF FlagSets
  <2> DEFINE levels == Append(stack, flags)
             wanted == Append(asked, flags)
  <2>5. /\ levels \in Seq(FlagSets) /\ levels # <<>> /\ Len(levels) <= MaxDepth
        /\ wanted \in Seq(FlagSets) /\ Len(wanted) = Len(levels)
    BY <1>0, <1>2, <2>4, LevelsOf DEF Flag!TypeOK
  <2>6. "write" \notin writeFailed => levels = wanted
    BY <2>3 DEF FlagInv
  <2>7. Flag!Update(levels, wanted, "direct", "direct")
    BY <2>2 DEF Flag!ReplaceFlags
  <2> HIDE DEF levels, wanted
  <2>8. Written(levels, wanted) /\ flagPhase' \in {"direct", "direct"}
    BY <2>5, <2>7, UpdateWrites
  <2>9. enforcing' \in BOOLEAN /\ needs' \in BOOLEAN
    BY <1>0 DEF Flag!TypeOK
  <2>10. QED
    BY <2>5, <2>6, <2>8, <2>9, WritingKeepsInv
<1>3. CASE flagPhase = "direct" /\ Flag!Restore("direct")
  <2>1. Len(stack) > 1 /\ Flag!Update(Flag!Front(stack), Flag!Front(asked), "direct", "direct")
    BY <1>3 DEF Flag!Restore
  <2>2. stack # <<>> /\ asked # <<>> /\ Len(asked) = Len(stack) /\ Len(stack) <= MaxDepth
    BY <1>0, <2>1 DEF Flag!TypeOK
  <2> DEFINE levels == Flag!Front(stack)
             wanted == Flag!Front(asked)
  <2>3. /\ levels \in Seq(FlagSets) /\ Len(levels) = Len(stack) - 1 /\ wanted \in Seq(FlagSets) /\ Len(wanted) = Len(levels)
    BY <1>0, <2>2, LevelsOf
  <2>4. "write" \notin writeFailed => levels = wanted
    BY <2>2 DEF FlagInv
  <2>5. Flag!Update(levels, wanted, "direct", "direct")
    BY <2>1
  <2> HIDE DEF levels, wanted
  <2>6. levels # <<>> /\ Len(levels) <= MaxDepth
    BY <1>0, <2>1, <2>2, <2>3
  <2>7. Written(levels, wanted) /\ flagPhase' \in {"direct", "direct"}
    BY <2>3, <2>5, <2>6, UpdateWrites
  <2>8. enforcing' \in BOOLEAN /\ needs' \in BOOLEAN
    BY <1>0 DEF Flag!TypeOK
  <2>9. QED
    BY <2>3, <2>4, <2>6, <2>7, <2>8, WritingKeepsInv
<1>4. CASE flagPhase = "direct" /\ Len(stack) = 1 /\ stack' = <<>> /\ asked' = <<>> /\ flagPhase' = "out" /\ UNCHANGED <<flagFile, writeFailed>>
  <2> DEFINE e == <<>>
  <2>1. e \in Seq(FlagSets) /\ Len(e) = 0 /\ e = <<>>
    OBVIOUS
  <2>2. stack' = e /\ asked' = e /\ flagPhase' = "out" /\ flagFile' = flagFile /\ writeFailed' = writeFailed
    BY <1>4
  <2>3. Flag!ParseFlags(flagFile') \in FlagSets
    BY <1>0, <2>2
  <2> HIDE DEF e
  <2>4. Flag!TypeOK'
    BY <1>0, <2>1, <2>2 DEF Flag!TypeOK
  <2>5. QED
    BY <2>1, <2>2, <2>3, <2>4 DEF FlagInv
<1>5. QED
  BY <1>1, <1>2, <1>3, <1>4 DEF Flag!DirectStep, Flag!Direct

\* A step that leaves the stack and the file as they are.
LEMMA KeepingKeepsInv ==
  ASSUME FlagInv, stack' = stack, asked' = asked, flagFile' = flagFile, enforcing' \in BOOLEAN, needs' \in BOOLEAN,
         writeFailed' \subseteq {"write", "enforce"},
         "write" \notin writeFailed' => "write" \notin writeFailed \/ stack = <<>>,
         flagPhase' \in {"out", "construct", "restore", "enforce"}, flagPhase' \in {"out", "construct"} => stack = <<>>,
         flagPhase' = "restore" => stack # <<>>
  PROVE  FlagInv'
<1>1. Flag!ParseFlags(flagFile') = Flag!ParseFlags(flagFile)
  OBVIOUS
<1>2. Flag!TypeOK'
  BY DEF FlagInv, Flag!TypeOK
<1>3. QED
  BY <1>1, <1>2 DEF FlagInv

\* The steps of CustomCommandLineFlags keep the invariant.
LEMMA ContextKeepsInv == ASSUME FlagInv, Flag!Enter \/ Flag!Make \/ Flag!Replace \/ Flag!Leave \/ Flag!Undo \/ Flag!Enforce PROVE FlagInv'
<1>0. /\ Flag!TypeOK /\ Flag!ParseFlags(flagFile) \in FlagSets /\ stack \in Seq(FlagSets) /\ asked \in Seq(FlagSets) /\ MaxDepth \in Nat \ {0, 1}
      /\ Len(stack) \in Nat
  BY ServicesAssumption, LevelsOf DEF FlagInv, Flag!FlagsAssumption
<1>1. CASE Flag!Enter
  <2>1. stack = <<>> /\ UNCHANGED <<flagFile, stack, asked>> /\ needs' \in BOOLEAN
    BY <1>0, <1>1 DEF Flag!Enter, FlagInv, Flag!TypeOK
  <2>2. enforcing' \in BOOLEAN /\ writeFailed' \subseteq {"write", "enforce"} /\ flagPhase' \in {"out", "construct"}
    BY <1>0, <1>1 DEF Flag!Enter, Flag!TypeOK
  <2>3. QED
    BY <2>1, <2>2, KeepingKeepsInv
<1>2. CASE Flag!Make
  <2>1. UNCHANGED <<flagFile, enforcing, needs, writeFailed>> /\ stack = <<>>
    BY <1>2 DEF Flag!Make, FlagInv
  <2>2. CASE Flag!Construct("replace")
    <3> DEFINE S == Flag!ParseFlags(flagFile)
               one == <<S>>
    <3>1. one \in Seq(FlagSets) /\ Len(one) = 1 /\ one # <<>>
      BY <1>0
    <3>2. stack' = one /\ asked' = one /\ flagPhase' = "replace"
      BY <2>2 DEF Flag!Construct, Flag!Shown
    <3>3. Flag!ParseFlags(flagFile') = S /\ S \in FlagSets /\ Flag!Last(one) = S
      BY <1>0, <2>1 DEF Flag!Last
    <3>a. 1 <= MaxDepth
      BY <1>0
    <3> HIDE DEF one, S
    <3>4. Flag!TypeOK'
      <4>1. /\ flagFile' \in Seq(Flag!Char) /\ enforcing' \in BOOLEAN /\ needs' \in BOOLEAN
            /\ writeFailed' \subseteq {"write", "enforce"}
        BY <1>0, <2>1 DEF Flag!TypeOK
      <4>2. Len(stack') <= MaxDepth /\ Len(asked') = Len(stack')
        BY <3>1, <3>2, <3>a
      <4>3. QED
        BY <3>2, <4>1, <4>2 DEF Flag!TypeOK
    <3>5. QED
      BY <3>1, <3>2, <3>3, <3>4 DEF FlagInv
  <2>3. CASE flagPhase' = "enforce" /\ UNCHANGED <<stack, asked>>
    <3>1. enforcing' \in BOOLEAN /\ needs' \in BOOLEAN /\ writeFailed' \subseteq {"write", "enforce"}
      BY <1>0, <2>1 DEF Flag!TypeOK
    <3>2. QED
      BY <2>1, <2>3, <3>1, KeepingKeepsInv
  <2>4. QED
    BY <1>2, <2>2, <2>3 DEF Flag!Make
<1>3. CASE Flag!Replace
  <2>1. PICK f \in Flags : Flag!ReplaceFlags({f}, "in", "restore")
    BY <1>3 DEF Flag!Replace
  <2>2. {f} \in FlagSets
    <3>1. f \in Flag!Parseable
      BY ServicesAssumption DEF Flag!FlagsAssumption
    <3>2. QED
      BY <3>1, FS_Singleton DEF FlagSets
  <2>3. Len(stack) = 1 /\ stack # <<>> /\ Len(asked) = 1
    BY <1>0, <1>3 DEF FlagInv, Flag!Replace, Flag!TypeOK
  <2> DEFINE flags == {f}
             levels == Append(stack, flags)
             wanted == Append(asked, flags)
  <2>4. Flag!Update(levels, wanted, "in", "restore") /\ flags \in FlagSets
    BY <2>1, <2>2 DEF Flag!ReplaceFlags
  <2> HIDE DEF flags
  <2>a. 2 <= MaxDepth
    BY <1>0
  <2>5. /\ levels \in Seq(FlagSets) /\ levels # <<>> /\ Len(levels) <= MaxDepth
        /\ wanted \in Seq(FlagSets) /\ Len(wanted) = Len(levels)
    <3>1. levels \in Seq(FlagSets) /\ levels # <<>> /\ Len(levels) = Len(stack) + 1
      BY <1>0, <2>4, LevelsOf
    <3>2. wanted \in Seq(FlagSets) /\ Len(wanted) = Len(asked) + 1
      BY <1>0, <2>4, LevelsOf
    <3> HIDE DEF levels, wanted
    <3>3. QED
      BY <2>3, <2>a, <3>1, <3>2
  <2>6. "write" \notin writeFailed => levels = wanted
    BY <2>3 DEF FlagInv
  <2> HIDE DEF levels, wanted
  <2>7. Written(levels, wanted) /\ flagPhase' \in {"in", "restore"}
    BY <2>4, <2>5, UpdateWrites
  <2>8. enforcing' \in BOOLEAN /\ needs' \in BOOLEAN
    BY <1>0, <1>3 DEF Flag!Replace, Flag!TypeOK
  <2>9. QED
    BY <2>5, <2>6, <2>7, <2>8, WritingKeepsInv
<1>4. CASE Flag!Leave
  <2>1. UNCHANGED <<flagFile, stack, asked, enforcing, needs, writeFailed>> /\ flagPhase' = "restore" /\ stack # <<>>
    BY <1>4 DEF Flag!Leave, FlagInv
  <2>2. enforcing' \in BOOLEAN /\ needs' \in BOOLEAN /\ writeFailed' \subseteq {"write", "enforce"}
    BY <1>0, <2>1 DEF Flag!TypeOK
  <2>3. QED
    BY <2>1, <2>2, KeepingKeepsInv
<1>5. CASE Flag!Undo
  <2>1. Len(stack) > 1 /\ Flag!Update(Flag!Front(stack), Flag!Front(asked), "enforce", "enforce")
    BY <1>5 DEF Flag!Undo, Flag!Restore
  <2>2. stack # <<>> /\ asked # <<>> /\ Len(asked) = Len(stack) /\ Len(stack) <= MaxDepth
    BY <1>0, <2>1 DEF Flag!TypeOK
  <2> DEFINE levels == Flag!Front(stack)
             wanted == Flag!Front(asked)
  <2>3. /\ levels \in Seq(FlagSets) /\ Len(levels) = Len(stack) - 1 /\ wanted \in Seq(FlagSets) /\ Len(wanted) = Len(levels)
    BY <1>0, <2>2, LevelsOf
  <2>4. "write" \notin writeFailed => levels = wanted
    BY <2>2 DEF FlagInv
  <2>5. Flag!Update(levels, wanted, "enforce", "enforce")
    BY <2>1
  <2> HIDE DEF levels, wanted
  <2>6. levels # <<>> /\ Len(levels) <= MaxDepth
    BY <1>0, <2>1, <2>2, <2>3
  <2>7. Written(levels, wanted) /\ flagPhase' \in {"enforce", "enforce"}
    BY <2>3, <2>5, <2>6, UpdateWrites
  <2>8. enforcing' \in BOOLEAN /\ needs' \in BOOLEAN
    BY <1>0, <1>5 DEF Flag!Undo, Flag!TypeOK
  <2>9. QED
    BY <2>3, <2>4, <2>6, <2>7, <2>8, WritingKeepsInv
<1>6. CASE Flag!Enforce
  <2> DEFINE e == <<>>
  <2>1. e \in Seq(FlagSets) /\ Len(e) = 0 /\ e = <<>>
    OBVIOUS
  <2>2. stack' = e /\ asked' = e /\ flagPhase' = "out" /\ flagFile' = flagFile /\ writeFailed' \subseteq {"write", "enforce"} /\ needs' = needs
    BY <1>0, <1>6 DEF Flag!Enforce, Flag!TypeOK
  <2>3. enforcing' \in BOOLEAN /\ needs' \in BOOLEAN
    BY <1>0, <1>6 DEF Flag!Enforce, Flag!TypeOK
  <2>4. Flag!ParseFlags(flagFile') \in FlagSets
    BY <1>0, <2>2
  <2> HIDE DEF e
  <2>5. Flag!TypeOK'
    BY <1>0, <2>1, <2>2, <2>3 DEF Flag!TypeOK
  <2>6. QED
    BY <2>1, <2>2, <2>4, <2>5 DEF FlagInv
<1>7. QED
  BY <1>1, <1>2, <1>3, <1>4, <1>5, <1>6

\* Every step keeps the invariant.
LEMMA FlagInvStep == FlagInv /\ [Flag!Next]_flagVars => FlagInv'
<1>1. SUFFICES ASSUME FlagInv, Flag!Next \/ UNCHANGED flagVars PROVE FlagInv'
  OBVIOUS
<1>2. CASE Flag!DirectStep
  BY <1>1, <1>2, DirectKeepsInv
<1>3. CASE Flag!Enter \/ Flag!Make \/ Flag!Replace \/ Flag!Leave \/ Flag!Undo \/ Flag!Enforce
  BY <1>1, <1>3, ContextKeepsInv
<1>4. CASE UNCHANGED flagVars
  <2>1. UNCHANGED <<flagFile, stack, asked, enforcing, needs, flagPhase, writeFailed>>
    BY <1>4 DEF flagVars
  <2>2. Flag!ParseFlags(flagFile') = Flag!ParseFlags(flagFile)
    BY <2>1
  <2>3. Flag!TypeOK'
    BY <1>1, <2>1 DEF FlagInv, Flag!TypeOK
  <2>4. QED
    BY <1>1, <2>1, <2>2, <2>3 DEF FlagInv
<1>5. QED
  BY <1>1, <1>2, <1>3, <1>4 DEF Flag!Next

\* What the invariant says of the flags.
LEMMA FlagInvImplies == FlagInv => Flag!TypeOK /\ Flag!FlagsRestored
BY DEF FlagInv, Flag!FlagsRestored, Flag!Shown

-----------------------------------------------------------------------------
(* Preferences *)

\* From the first command of Commit on the file holds what is committed, unless the application wrote it, and the application that
\* was killed knew nothing newer.
PrefsInv ==
  /\ Prefs!TypeOK
  /\ prefsPhase \in {"context", "kill"} \/ committed = "done" => wrote \/ prefsFile = xml
  /\ committed = "done" => prefsPhase = "out" /\ ~outdated

\* The invariant holds at first.
LEMMA PrefsInvInit == Prefs!Init => PrefsInv
BY DEF Prefs!Init, PrefsInv, Prefs!TypeOK, Prefs!Map, Prefs!Empty, Prefs!Unset

\* The application keeps it.
LEMMA ApplicationKeeps ==
  ASSUME PrefsInv, Prefs!Starts \/ Prefs!Writes
  PROVE  PrefsInv'
<1>1. CASE Prefs!Starts
  BY <1>1 DEF Prefs!Starts, PrefsInv, Prefs!TypeOK
<1>2. CASE Prefs!Writes
  <2>1. PICK k \in Keys, v \in Values : copy' = [copy EXCEPT ![k] = v]
    BY <1>2 DEF Prefs!Writes
  <2>2. copy' \in Prefs!Map
    BY <2>1 DEF PrefsInv, Prefs!TypeOK, Prefs!Map
  <2>3. QED
    BY <1>2, <2>2 DEF Prefs!Writes, PrefsInv, Prefs!TypeOK
<1>3. QED
  BY <1>1, <1>2

\* Loading and changing the preferences keep it.
LEMMA EditingKeeps ==
  ASSUME PrefsInv, Prefs!Load \/ Prefs!Clear \/ Prefs!Exit \/ \E k \in Keys : Prefs!Remove(k) \/ \E v \in Values : Prefs!SetPref(k, v)
  PROVE  PrefsInv'
<1>1. CASE Prefs!Load \/ Prefs!Clear \/ Prefs!Exit
  BY <1>1 DEF Prefs!Load, Prefs!Clear, Prefs!Exit, Prefs!app, PrefsInv, Prefs!TypeOK, Prefs!Map, Prefs!Empty, Prefs!Unset
<1>2. ASSUME NEW k \in Keys, Prefs!Remove(k) PROVE PrefsInv'
  <2>1. xml' \in Prefs!Map
    BY <1>2 DEF Prefs!Remove, PrefsInv, Prefs!TypeOK, Prefs!Map, Prefs!Unset
  <2>2. QED
    BY <1>2, <2>1 DEF Prefs!Remove, Prefs!app, PrefsInv, Prefs!TypeOK
<1>3. ASSUME NEW k \in Keys, NEW v \in Values, Prefs!SetPref(k, v) PROVE PrefsInv'
  <2>1. xml' \in Prefs!Map /\ changed' \in BOOLEAN
    BY <1>3 DEF Prefs!SetPref, PrefsInv, Prefs!TypeOK, Prefs!Map
  <2>2. QED
    BY <1>3, <2>1 DEF Prefs!SetPref, Prefs!app, PrefsInv, Prefs!TypeOK
<1>4. QED
  BY <1>1, <1>2, <1>3

\* Commit keeps it: its Kill comes after its WriteFile.
LEMMA CommitKeeps ==
  ASSUME PrefsInv, Prefs!Commit
  PROVE  PrefsInv'
<1>1. CASE prefsPhase = "write"
  BY <1>1 DEF Prefs!Commit, Prefs!Command, Prefs!WriteFile, Prefs!app, PrefsInv, Prefs!TypeOK
<1>2. CASE prefsPhase = "context"
  BY <1>2 DEF Prefs!Commit, Prefs!Command, Prefs!app, PrefsInv, Prefs!TypeOK
<1>3. CASE prefsPhase = "kill"
  BY <1>3 DEF Prefs!Commit, Prefs!Command, Prefs!Kill, Prefs!app, PrefsInv, Prefs!TypeOK
<1>4. QED
  BY <1>1, <1>2, <1>3 DEF Prefs!Commit

\* Every step of the preferences keeps the invariant.
LEMMA PrefsInvStep == PrefsInv /\ [Prefs!Next]_prefsVars => PrefsInv'
<1>1. SUFFICES ASSUME PrefsInv, Prefs!Next \/ UNCHANGED prefsVars PROVE PrefsInv'
  OBVIOUS
<1>2. CASE UNCHANGED prefsVars
  BY <1>1, <1>2 DEF prefsVars, PrefsInv, Prefs!TypeOK
<1>3. QED
  BY <1>1, <1>2, ApplicationKeeps, EditingKeeps, CommitKeeps DEF Prefs!Next

\* The invariant of the preferences has its properties as parts.
LEMMA PrefsInvImplies == PrefsInv => Prefs!TypeOK /\ Prefs!CommitIsSeen
BY DEF PrefsInv, Prefs!CommitIsSeen

-----------------------------------------------------------------------------
(* CPUs and thermal control *)

Rows == Seq({"root", "stop", "online", "clocks low", "clocks default", "performance", "ondemand", "start", "check", "if root", "if online"})

\* What a mode left on the device is undone by a command that is still to come; without root nothing was ever done.
TuningInv ==
  /\ Tuning!TypeOK
  /\ \A c \in {"start", "stop"} : Occurs(c, row) => hasMpdecision
  /\ Occurs("clocks low", row) => model.clocks
  /\ mpdecision => hasMpdecision
  /\ clocks # "default" => model.clocks
  /\ ~adbRoot => governor = "default" /\ clocks = "default" /\ mpdecision = hasMpdecision
  /\ mode = "default" =>
       /\ \A c \in {"stop", "performance", "clocks low", "root"} : ~Occurs(c, row)
       /\ ~spoilt => /\ governor # "default" => Occurs("ondemand", row)
                     /\ clocks # "default" => Occurs("clocks default", row)
                     /\ mpdecision # hasMpdecision => Occurs("start", row)
  /\ log # <<>> => log[Len(log)] = hot
  /\ log = <<>> /\ ~missed => throttled = hot

\* What occurs in two rows together.
LEMMA OccursInRows ==
  ASSUME NEW s \in Rows, NEW r \in Rows
  PROVE  s \o r \in Rows /\ \A c : Occurs(c, s \o r) <=> Occurs(c, s) \/ Occurs(c, r)
<1>1. PICK T : Rows = Seq(T)
  BY DEF Rows
<1>2. s \in Seq(T) /\ r \in Seq(T)
  BY <1>1
<1>3. ASSUME NEW c PROVE s \o r \in Seq(T) /\ (Occurs(c, s \o r) <=> Occurs(c, s) \/ Occurs(c, r))
  BY <1>2, OccursInBoth
<1>4. QED
  BY <1>1, <1>3

\* The last line of a log is the one just written.
LEMMA LastOfLog ==
  ASSUME NEW s \in Seq(BOOLEAN), NEW b \in BOOLEAN
  PROVE  Append(s, b) # <<>> /\ Append(s, b)[Len(Append(s, b))] = b /\ Append(s, b) \in Seq(BOOLEAN) /\ Len(Append(s, b)) = Len(s) + 1
OBVIOUS

\* The invariant of the modes holds at first: no mode was set.
LEMMA TuningInvInit == Tuning!Init => TuningInv
<1>1. SUFFICES ASSUME Tuning!Init PROVE TuningInv
  OBVIOUS
<1>2. row = <<>> /\ log = <<>> /\ row \in Rows /\ log \in Seq(BOOLEAN) /\ \A c : ~Occurs(c, row)
  BY <1>1 DEF Tuning!Init, Rows, Occurs
<1>a. model \in Models /\ hasMpdecision \in BOOLEAN /\ Len(log) <= MaxLog
  BY <1>1, <1>2, ServicesAssumption DEF Tuning!Init, Tuning!TuningAssumption
<1>3. Tuning!TypeOK
  BY <1>1, <1>2, <1>a DEF Tuning!Init, Tuning!TypeOK, Rows
<1>4. QED
  BY <1>1, <1>2, <1>3 DEF Tuning!Init, TuningInv

\* The rows of the modes.
LEMMA RowsOfModes ==
  ASSUME TuningInv
  PROVE  /\ Tuning!SetHighPerfMode \in Rows /\ Tuning!SetPerfProfilingMode \in Rows /\ Tuning!SetDefaultPerfMode \in Rows
         /\ \A r \in {Tuning!SetHighPerfMode, Tuning!SetPerfProfilingMode, Tuning!SetDefaultPerfMode} :
              /\ \A c \in {"start", "stop"} : Occurs(c, r) => hasMpdecision
              /\ Occurs("clocks low", r) => model.clocks
         /\ \A c \in {"stop", "performance", "clocks low", "root"} : ~Occurs(c, Tuning!SetDefaultPerfMode)
         /\ Occurs("ondemand", Tuning!SetDefaultPerfMode)
         /\ model.clocks => Occurs("clocks default", Tuning!SetDefaultPerfMode)
         /\ hasMpdecision => Occurs("start", Tuning!SetDefaultPerfMode)
<1> DEFINE on == Tuning!ForceAllCpusOnline(TRUE)
           off == Tuning!ForceAllCpusOnline(FALSE)
           forced == IF model.forces THEN on ELSE <<>>
           low == IF model.clocks THEN <<"clocks low">> ELSE <<>>
           back == IF model.clocks THEN <<"if online", "clocks default">> ELSE <<>>
           stops == IF hasMpdecision THEN <<"stop">> ELSE <<>>
<1>b. /\ <<"root">> \in Rows /\ <<"online">> \in Rows /\ <<"performance">> \in Rows /\ <<"performance", "check">> \in Rows
      /\ <<"if root">> \in Rows /\ <<"ondemand">> \in Rows /\ <<"clocks low">> \in Rows /\ <<"if online", "clocks default">> \in Rows
      /\ <<"stop">> \in Rows /\ <<"start">> \in Rows /\ <<>> \in Rows
  BY DEF Rows
<1>1. low \in Rows /\ back \in Rows /\ stops \in Rows /\ off \in Rows
  BY <1>b DEF Tuning!ForceAllCpusOnline
<1>a. \A x, y, c : /\ Occurs(c, <<x>>) <=> c = x
                   /\ Occurs(c, <<x, y>>) <=> c \in {x, y}
                   /\ ~Occurs(c, <<>>)
  <2>1. TAKE x, y, c
  <2>2. Len(<<x>>) = 1 /\ Len(<<x, y>>) = 2 /\ Len(<<>>) = 0
    OBVIOUS
  <2>3. 1..1 = {1} /\ 1..2 = {1, 2} /\ 1..0 = {}
    OBVIOUS
  <2>4. QED
    BY <2>2, <2>3 DEF Occurs
<1>2. /\ \A c : Occurs(c, <<"root">>) <=> c = "root"
      /\ \A c : Occurs(c, <<"online">>) <=> c = "online"
      /\ \A c : Occurs(c, <<"performance">>) <=> c = "performance"
      /\ \A c : Occurs(c, <<"performance", "check">>) <=> c \in {"performance", "check"}
      /\ \A c : Occurs(c, <<"if root">>) <=> c = "if root"
      /\ \A c : Occurs(c, <<"ondemand">>) <=> c = "ondemand"
      /\ \A c : ~Occurs(c, <<>>)
  BY <1>a
<1>d. /\ \A c : Occurs(c, low) <=> c = "clocks low" /\ model.clocks
      /\ \A c : Occurs(c, back) <=> c \in {"if online", "clocks default"} /\ model.clocks
      /\ \A c : Occurs(c, stops) <=> c = "stop" /\ hasMpdecision
      /\ \A c : Occurs(c, off) <=> c = "start" /\ hasMpdecision
  BY <1>a DEF Tuning!ForceAllCpusOnline
<1>c. /\ on = stops \o <<"online">>
      /\ Tuning!SetHighPerfMode = ((<<"root">> \o forced) \o <<"performance">>) \o low
      /\ Tuning!SetPerfProfilingMode = on \o <<"performance", "check">>
      /\ Tuning!SetDefaultPerfMode = ((<<"if root">> \o back) \o <<"ondemand">>) \o off
      /\ forced = on \/ forced = <<>>
  BY DEF Tuning!ForceAllCpusOnline, Tuning!SetHighPerfMode, Tuning!SetPerfProfilingMode, Tuning!SetDefaultPerfMode
<1> HIDE DEF on, off, forced, low, back, stops
<1>3. on \in Rows /\ \A c : Occurs(c, on) <=> c = "online" \/ (c = "stop" /\ hasMpdecision)
  <2>1. /\ stops \o <<"online">> \in Rows
        /\ \A c : Occurs(c, stops \o <<"online">>) <=> Occurs(c, stops) \/ Occurs(c, <<"online">>)
    BY <1>1, <1>b, OccursInRows
  <2>2. QED
    BY <1>2, <1>c, <1>d, <2>1
<1>4. forced \in Rows /\ \A c : Occurs(c, forced) => c = "online" \/ (c = "stop" /\ hasMpdecision)
  BY <1>2, <1>b, <1>c, <1>3
<1>5. Tuning!SetHighPerfMode \in Rows /\ \A c : Occurs(c, Tuning!SetHighPerfMode) =>
        c \in {"root", "performance", "online"} \/ (c = "stop" /\ hasMpdecision) \/ (c = "clocks low" /\ model.clocks)
  <2>2. <<"root">> \o forced \in Rows /\ \A c : Occurs(c, <<"root">> \o forced) <=> c = "root" \/ Occurs(c, forced)
    BY <1>1, <1>2, <1>d, <1>b, <1>4, OccursInRows
  <2>3. /\ (<<"root">> \o forced) \o <<"performance">> \in Rows
        /\ \A c : Occurs(c, (<<"root">> \o forced) \o <<"performance">>) <=>
             Occurs(c, <<"root">> \o forced) \/ Occurs(c, <<"performance">>)
    BY <1>b, <2>2, OccursInRows
  <2>4. /\ ((<<"root">> \o forced) \o <<"performance">>) \o low \in Rows
        /\ \A c : Occurs(c, ((<<"root">> \o forced) \o <<"performance">>) \o low) <=>
             Occurs(c, (<<"root">> \o forced) \o <<"performance">>) \/ Occurs(c, low)
    BY <1>1, <2>3, OccursInRows
  <2>5. QED
    BY <1>2, <1>4, <1>c, <1>d, <2>2, <2>3, <2>4
<1>6. Tuning!SetPerfProfilingMode \in Rows /\ \A c : Occurs(c, Tuning!SetPerfProfilingMode) =>
        c \in {"performance", "check", "online"} \/ (c = "stop" /\ hasMpdecision)
  <2>1. /\ on \o <<"performance", "check">> \in Rows
        /\ \A c : Occurs(c, on \o <<"performance", "check">>) <=> Occurs(c, on) \/ Occurs(c, <<"performance", "check">>)
    BY <1>3, <1>b, OccursInRows
  <2>2. QED
    BY <1>2, <1>3, <1>c, <2>1
<1>7. Tuning!SetDefaultPerfMode \in Rows /\ \A c : Occurs(c, Tuning!SetDefaultPerfMode) <=>
        c \in {"if root", "ondemand"} \/ (c \in {"if online", "clocks default"} /\ model.clocks) \/ (c = "start" /\ hasMpdecision)
  <2>2. <<"if root">> \o back \in Rows /\ \A c : Occurs(c, <<"if root">> \o back) <=> c = "if root" \/ Occurs(c, back)
    BY <1>1, <1>2, <1>d, <1>b, OccursInRows
  <2>3. /\ (<<"if root">> \o back) \o <<"ondemand">> \in Rows
        /\ \A c : Occurs(c, (<<"if root">> \o back) \o <<"ondemand">>) <=>
             Occurs(c, <<"if root">> \o back) \/ Occurs(c, <<"ondemand">>)
    BY <1>b, <2>2, OccursInRows
  <2>4. /\ ((<<"if root">> \o back) \o <<"ondemand">>) \o off \in Rows
        /\ \A c : Occurs(c, ((<<"if root">> \o back) \o <<"ondemand">>) \o off) <=>
             Occurs(c, (<<"if root">> \o back) \o <<"ondemand">>) \/ Occurs(c, off)
    BY <1>1, <2>3, OccursInRows
  <2>5. QED
    BY <1>2, <1>4, <1>c, <1>d, <2>2, <2>3, <2>4
<1>8. QED
  BY <1>5, <1>6, <1>7 DEF Occurs

\* The parts of the invariant of the modes that the log has no part in.
LEMMA TuningStutters ==
  ASSUME TuningInv, UNCHANGED <<model, hasMpdecision, adbRoot, mpdecision, online, governor, clocks, mode, row, spoilt>>
  PROVE  /\ \A c \in {"start", "stop"} : Occurs(c, row') => hasMpdecision'
         /\ Occurs("clocks low", row') => model'.clocks
         /\ mpdecision' => hasMpdecision'
         /\ clocks' # "default" => model'.clocks
         /\ ~adbRoot' => governor' = "default" /\ clocks' = "default" /\ mpdecision' = hasMpdecision'
         /\ mode' = "default" =>
              /\ \A c \in {"stop", "performance", "clocks low", "root"} : ~Occurs(c, row')
              /\ ~spoilt' => /\ governor' # "default" => Occurs("ondemand", row')
                             /\ clocks' # "default" => Occurs("clocks default", row')
                             /\ mpdecision' # hasMpdecision' => Occurs("start", row')
BY DEF TuningInv

\* Choosing a mode keeps the invariant: the row of the default mode undoes everything.
LEMMA ModeSetKeeps ==
  ASSUME TuningInv, NEW m \in {"high", "profiling", "default"}, Tuning!Set(m)
  PROVE  TuningInv'
<1>1. /\ UNCHANGED <<model, hasMpdecision, adbRoot, mpdecision, online, governor, clocks, spoilt, hot, log, throttled, missed>>
      /\ mode' = m /\ row' \in {Tuning!SetHighPerfMode, Tuning!SetPerfProfilingMode, Tuning!SetDefaultPerfMode}
      /\ m = "default" => row' = Tuning!SetDefaultPerfMode
  BY DEF Tuning!Set, Tuning!thermal
<1>2. row' \in Rows
  BY <1>1, RowsOfModes
<1>3. Tuning!TypeOK'
  BY <1>1, <1>2 DEF TuningInv, Tuning!TypeOK, Rows
<1>4. mpdecision \in BOOLEAN /\ hasMpdecision \in BOOLEAN /\ clocks \in {"default", "low"}
  BY DEF TuningInv, Tuning!TypeOK
<1>5. /\ \A c \in {"start", "stop"} : Occurs(c, row') => hasMpdecision
      /\ Occurs("clocks low", row') => model.clocks
  BY <1>1, RowsOfModes
<1>6. m = "default" =>
        /\ \A c \in {"stop", "performance", "clocks low", "root"} : ~Occurs(c, row')
        /\ Occurs("ondemand", row')
        /\ model.clocks => Occurs("clocks default", row')
        /\ hasMpdecision => Occurs("start", row')
  BY <1>1, RowsOfModes
<1>7. QED
  BY <1>1, <1>3, <1>4, <1>5, <1>6 DEF TuningInv

\* A command takes itself from the row, or all of it, or two.
LEMMA ModeCommandKeeps ==
  ASSUME TuningInv, Tuning!Command
  PROVE  TuningInv'
<1>1. UNCHANGED <<model, hasMpdecision, mode, hot, log, throttled, missed>> /\ row # <<>> /\ row \in Rows
  BY DEF Tuning!Command, Tuning!thermal, TuningInv, Tuning!TypeOK, Rows
<1>2. PICK c : c = Head(row)
  OBVIOUS
<1>3. /\ Tuning!Obeys(c)
      /\ row' = CASE c = "if root" /\ ~adbRoot -> <<>>
                  [] c = "if online" /\ ~online -> SubSeq(row, 3, Len(row))
                  [] OTHER -> Tail(row)
      /\ spoilt' = (spoilt \/ (c = "if online" /\ ~online))
  BY <1>2 DEF Tuning!Command
<1>4. /\ Tail(row) \in Rows /\ SubSeq(row, 3, Len(row)) \in Rows /\ <<>> \in Rows
      /\ \A x : Occurs(x, row) <=> c = x \/ Occurs(x, Tail(row))
      /\ \A x : Occurs(x, SubSeq(row, 3, Len(row))) => Occurs(x, row)
      /\ \A x : ~Occurs(x, <<>>)
  <2>1. /\ Tail(row) \in Rows /\ SubSeq(row, 3, Len(row)) \in Rows
        /\ \A x : Occurs(x, row) <=> c = x \/ Occurs(x, Tail(row))
        /\ \A x : Occurs(x, SubSeq(row, 3, Len(row))) => Occurs(x, row)
    BY <1>1, <1>2, OccursInRest DEF Rows
  <2>2. <<>> \in Rows /\ \A x : ~Occurs(x, <<>>)
    BY DEF Rows, Occurs
  <2>3. QED
    BY <2>1, <2>2
<1>5. row' \in Rows /\ \A x : Occurs(x, row') => Occurs(x, row)
  BY <1>3, <1>4
<1>6. /\ adbRoot \in BOOLEAN /\ mpdecision \in BOOLEAN /\ hasMpdecision \in BOOLEAN /\ online \in BOOLEAN /\ spoilt \in BOOLEAN
      /\ governor \in {"default", "performance"} /\ clocks \in {"default", "low"}
  BY DEF TuningInv, Tuning!TypeOK
<1>7. Tuning!TypeOK'
  BY <1>1, <1>3, <1>5, <1>6 DEF Tuning!Obeys, TuningInv, Tuning!TypeOK, Rows
<1>8. /\ \A x \in {"start", "stop"} : Occurs(x, row') => hasMpdecision'
      /\ Occurs("clocks low", row') => model'.clocks
  BY <1>1, <1>5 DEF TuningInv
<1>9. /\ mpdecision' => hasMpdecision'
      /\ clocks' # "default" => model'.clocks
  BY <1>1, <1>3, <1>4, <1>6 DEF Tuning!Obeys, TuningInv
<1>10. ~adbRoot' => governor' = "default" /\ clocks' = "default" /\ mpdecision' = hasMpdecision'
  BY <1>1, <1>3, <1>6 DEF Tuning!Obeys, TuningInv
<1>11. mode' = "default" => \A x \in {"stop", "performance", "clocks low", "root"} : ~Occurs(x, row')
  BY <1>1, <1>5 DEF TuningInv
<1>12. mode' = "default" /\ ~spoilt' =>
         /\ governor' # "default" => Occurs("ondemand", row')
         /\ clocks' # "default" => Occurs("clocks default", row')
         /\ mpdecision' # hasMpdecision' => Occurs("start", row')
  <2>1. SUFFICES ASSUME mode = "default", ~spoilt, ~(c = "if online" /\ ~online)
                 PROVE  /\ governor' # "default" => Occurs("ondemand", row')
                        /\ clocks' # "default" => Occurs("clocks default", row')
                        /\ mpdecision' # hasMpdecision' => Occurs("start", row')
    BY <1>1, <1>3, <1>6
  <2>2. c \notin {"stop", "performance", "clocks low", "root"} /\ (c = "start" => hasMpdecision)
    BY <1>4, <2>1 DEF TuningInv
  <2>3. CASE ~adbRoot
    BY <1>1, <1>3, <2>1, <2>2, <2>3 DEF Tuning!Obeys, TuningInv
  <2>4. CASE adbRoot
    <3>1. row' = Tail(row)
      BY <1>3, <2>1, <2>4
    <3>2. \A x : Occurs(x, row) => c = x \/ Occurs(x, row')
      BY <1>4, <3>1
    <3>3. QED
      BY <1>1, <1>3, <2>1, <2>2, <2>4, <3>2 DEF Tuning!Obeys, TuningInv
  <2>5. QED
    BY <2>3, <2>4
<1>13. QED
  BY <1>1, <1>7, <1>8, <1>9, <1>10, <1>11, <1>12 DEF TuningInv

\* A command that fails, or gives up, ends the row.
LEMMA ModeFailsKeeps ==
  ASSUME TuningInv, Tuning!Fails
  PROVE  TuningInv'
<1>1. /\ UNCHANGED <<model, hasMpdecision, mode, hot, log, throttled, missed>> /\ row # <<>> /\ row \in Rows
      /\ row' = <<>> /\ row' \in Rows /\ \A x : ~Occurs(x, row')
  <2>1. <<>> \in Rows /\ \A x : ~Occurs(x, <<>>)
    BY DEF Rows, Occurs
  <2>2. row \in Rows
    BY DEF TuningInv, Tuning!TypeOK, Rows
  <2>3. QED
    BY <2>1, <2>2 DEF Tuning!Fails, Tuning!thermal
<1>2. PICK c : c = Head(row)
  OBVIOUS
<1>3. /\ UNCHANGED <<adbRoot, mpdecision, online, governor, clocks>> \/ Tuning!Obeys(c)
      /\ spoilt' = (spoilt \/ c # "root")
  BY <1>2 DEF Tuning!Fails
<1>4. Occurs(c, row)
  BY <1>1, <1>2, OccursInRest DEF Rows
<1>5. /\ adbRoot \in BOOLEAN /\ mpdecision \in BOOLEAN /\ hasMpdecision \in BOOLEAN /\ online \in BOOLEAN /\ spoilt \in BOOLEAN
      /\ governor \in {"default", "performance"} /\ clocks \in {"default", "low"}
  BY DEF TuningInv, Tuning!TypeOK
<1>6. Tuning!TypeOK'
  <2>1. /\ adbRoot' \in BOOLEAN /\ mpdecision' \in BOOLEAN /\ online' \in BOOLEAN /\ spoilt' \in BOOLEAN
        /\ governor' \in {"default", "performance"} /\ clocks' \in {"default", "low"}
    BY <1>3, <1>5 DEF Tuning!Obeys
  <2>2. QED
    BY <1>1, <2>1 DEF TuningInv, Tuning!TypeOK, Rows
<1>7. /\ mpdecision' => hasMpdecision'
      /\ clocks' # "default" => model'.clocks
      /\ ~adbRoot' => governor' = "default" /\ clocks' = "default" /\ mpdecision' = hasMpdecision'
  <2>1. (c = "start" => hasMpdecision) /\ (c = "clocks low" => model.clocks)
    BY <1>4 DEF TuningInv
  <2>2. CASE UNCHANGED <<adbRoot, mpdecision, online, governor, clocks>>
    BY <1>1, <2>2 DEF TuningInv
  <2>3. CASE Tuning!Obeys(c)
    BY <1>1, <1>5, <2>1, <2>3 DEF Tuning!Obeys, TuningInv
  <2>4. QED
    BY <1>3, <2>2, <2>3
<1>8. mode' = "default" => spoilt'
  BY <1>1, <1>3, <1>4 DEF TuningInv
<1>9. QED
  BY <1>1, <1>6, <1>7, <1>8 DEF TuningInv

\* What the device does by itself, and the thermal log.
LEMMA ClocksKeep ==
  ASSUME TuningInv, Tuning!Hotplug \/ Tuning!Restart \/ Tuning!Throttles \/ Tuning!IsThrottled \/ Tuning!AnswerLost \/ UNCHANGED tuningVars
  PROVE  TuningInv'
<1>1. CASE Tuning!Hotplug
  <2>1. /\ online' \in BOOLEAN
        /\ UNCHANGED <<model, hasMpdecision, adbRoot, mpdecision, governor, clocks, mode, row, spoilt, hot, log, throttled, missed>>
    BY <1>1 DEF Tuning!Hotplug, Tuning!thermal, TuningInv, Tuning!TypeOK
  <2>2. Tuning!TypeOK'
    BY <2>1 DEF TuningInv, Tuning!TypeOK
  <2>3. QED
    BY <2>1, <2>2 DEF TuningInv
<1>2. CASE Tuning!Restart
  <2>1. row' = <<>> /\ log' = <<>> /\ log' \in Seq(BOOLEAN) /\ Len(log') <= MaxLog /\ \A x : ~Occurs(x, row')
    BY <1>2, ServicesAssumption DEF Tuning!Restart, Tuning!TuningAssumption, Occurs
  <2>2. QED
    BY <1>2, <2>1 DEF Tuning!Restart, TuningInv, Tuning!TypeOK
<1>3. CASE Tuning!Throttles
  <2>1. hot' \in BOOLEAN /\ log \in Seq(BOOLEAN) /\ Len(log) < MaxLog /\ log' = Append(log, hot')
    BY <1>3 DEF Tuning!Throttles, TuningInv, Tuning!TypeOK
  <2>2. log' # <<>> /\ log'[Len(log')] = hot' /\ log' \in Seq(BOOLEAN) /\ Len(log') <= MaxLog
    BY <2>1, LastOfLog, ServicesAssumption DEF Tuning!TuningAssumption
  <2>3. QED
    <3>1. UNCHANGED <<model, hasMpdecision, adbRoot, mpdecision, online, governor, clocks, mode, row, spoilt, throttled, missed>>
      BY <1>3 DEF Tuning!Throttles, Tuning!perf
    <3>2. Tuning!TypeOK'
      BY <2>1, <2>2, <3>1 DEF TuningInv, Tuning!TypeOK
    <3>3. QED
      BY <2>1, <2>2, <3>1, <3>2, TuningStutters DEF TuningInv
<1>4. CASE Tuning!IsThrottled
  <2>1. log' = <<>> /\ log' \in Seq(BOOLEAN) /\ Len(log') <= MaxLog
    BY <1>4, ServicesAssumption DEF Tuning!IsThrottled, Tuning!TuningAssumption
  <2>2. throttled' \in BOOLEAN /\ missed' \in BOOLEAN /\ (~missed' => throttled' = hot)
    BY <1>4 DEF Tuning!IsThrottled, Tuning!ReadLog, TuningInv, Tuning!TypeOK
  <2>3. QED
    <3>1. UNCHANGED <<model, hasMpdecision, adbRoot, mpdecision, online, governor, clocks, mode, row, spoilt, hot>>
      BY <1>4 DEF Tuning!IsThrottled, Tuning!perf
    <3>2. Tuning!TypeOK'
      BY <2>1, <2>2, <3>1 DEF TuningInv, Tuning!TypeOK
    <3>3. QED
      BY <2>1, <2>2, <3>1, <3>2, TuningStutters DEF TuningInv
<1>5. CASE Tuning!AnswerLost
  <2>1. log' = <<>> /\ log' \in Seq(BOOLEAN) /\ Len(log') <= MaxLog
    BY <1>5, ServicesAssumption DEF Tuning!AnswerLost, Tuning!TuningAssumption
  <2>2. QED
    <3>1. /\ UNCHANGED <<model, hasMpdecision, adbRoot, mpdecision, online, governor, clocks, mode, row, spoilt, hot, throttled>>
          /\ missed'
      BY <1>5 DEF Tuning!AnswerLost, Tuning!perf
    <3>2. Tuning!TypeOK'
      BY <2>1, <3>1 DEF TuningInv, Tuning!TypeOK
    <3>3. QED
      BY <2>1, <3>1, <3>2, TuningStutters DEF TuningInv
<1>6. CASE UNCHANGED tuningVars
  <2>1. /\ UNCHANGED <<model, hasMpdecision, adbRoot, mpdecision, online, governor, clocks, mode, row, spoilt>>
        /\ UNCHANGED <<hot, log, throttled, missed>>
    BY <1>6 DEF tuningVars
  <2>2. Tuning!TypeOK'
    BY <2>1 DEF TuningInv, Tuning!TypeOK
  <2>3. QED
    BY <2>1, <2>2, TuningStutters DEF TuningInv
<1>7. QED
  BY <1>1, <1>2, <1>3, <1>4, <1>5, <1>6

\* Every step keeps the invariant.
LEMMA TuningInvStep == TuningInv /\ [Tuning!Next]_tuningVars => TuningInv'
BY ModeSetKeeps, ModeCommandKeeps, ModeFailsKeeps, ClocksKeep DEF Tuning!Next

\* With nothing left to do, the invariant of the modes gives the default back.
LEMMA TuningInvImplies == TuningInv => Tuning!TypeOK /\ Tuning!DefaultIsBack /\ Tuning!ThrottlingIsKnown
<1>1. ASSUME row = <<>> PROVE ~Occurs("ondemand", row) /\ ~Occurs("clocks default", row) /\ ~Occurs("start", row)
  BY <1>1 DEF Occurs
<1>2. QED
  BY <1>1 DEF TuningInv, Tuning!DefaultIsBack, Tuning!ThrottlingIsKnown

-----------------------------------------------------------------------------
(* The log *)

Increasing(s) == \A i \in 1..Len(s) - 1 : s[i] < s[i + 1]

\* Only the thread of the recording runs, and it is past every line that is recorded.
LogcatInv ==
  /\ Logcat!TypeOK
  /\ stopping => current # 0
  /\ current <= begun
  /\ \A t \in Logcat!Threads : at[t] <= lines
  /\ \A t \in Logcat!Threads : begun < t => state[t] = "none"
  /\ clear /\ ~outlived =>
       /\ \A t \in Logcat!Threads : state[t] = "running" => t = current
       /\ Increasing(record) /\ Increasing(given)
       /\ \A i \in 1..Len(record) : record[i] <= lines
       /\ \A t \in Logcat!Threads, i \in 1..Len(record) : state[t] = "running" => record[i] <= at[t]

\* A sequence, and one with an element more.
LEMMA SequenceGrows ==
  ASSUME NEW T, NEW s \in Seq(T)
  PROVE  /\ Len(s) \in Nat /\ <<>> \in Seq(T) /\ \A i \in 1..Len(s) : s[i] \in T
         /\ \A e \in T : /\ Append(s, e) \in Seq(T) /\ Len(Append(s, e)) = Len(s) + 1 /\ Append(s, e)[Len(s) + 1] = e
                          /\ \A i \in 1..Len(s) : Append(s, e)[i] = s[i]
OBVIOUS

\* A line that is later than every recorded one keeps the record increasing.
LEMMA IncreasingAppend ==
  ASSUME NEW s \in Seq(1..MaxLines), NEW l \in 1..MaxLines, Increasing(s), \A i \in 1..Len(s) : s[i] < l
  PROVE  Increasing(Append(s, l)) /\ \A i \in 1..Len(Append(s, l)) : Append(s, l)[i] <= l
<1>1. /\ Len(s) \in Nat /\ Len(Append(s, l)) = Len(s) + 1
      /\ \A i \in 1..Len(s) : Append(s, l)[i] = s[i] /\ s[i] \in 1..MaxLines
      /\ Append(s, l)[Len(s) + 1] = l
  <2>1. PICK T : T = 1..MaxLines
    OBVIOUS
  <2>2. s \in Seq(T) /\ l \in T
    BY <2>1
  <2>3. /\ Len(s) \in Nat /\ \A i \in 1..Len(s) : s[i] \in T
        /\ Len(Append(s, l)) = Len(s) + 1 /\ Append(s, l)[Len(s) + 1] = l
        /\ \A i \in 1..Len(s) : Append(s, l)[i] = s[i]
    BY <2>2, SequenceGrows
  <2>4. QED
    BY <2>1, <2>3
<1>2. ASSUME NEW i \in 1..Len(s) PROVE Append(s, l)[i] < Append(s, l)[i + 1]
  BY <1>1 DEF Increasing
<1>3. Increasing(Append(s, l))
  BY <1>1, <1>2 DEF Increasing
<1>4. ASSUME NEW i \in 1..Len(s) + 1 PROVE Append(s, l)[i] <= l
  <2>1. i \in 1..Len(s) \/ i = Len(s) + 1
    BY <1>1
  <2>2. \A j \in 1..Len(s) : s[j] <= l
    BY <1>1
  <2>3. QED
    BY <1>1, <2>1, <2>2
<1>5. QED
  BY <1>1, <1>3, <1>4

\* The invariant of the monitor holds at first: nothing was recorded.
LEMMA LogcatInvInit == Logcat!Init => LogcatInv
<1>1. SUFFICES ASSUME Logcat!Init PROVE LogcatInv
  OBVIOUS
<1>2. /\ record = <<>> /\ given = <<>> /\ lines = 0 /\ current = 0 /\ begun = 0 /\ stopping = FALSE
      /\ <<>> \in Seq(1..MaxLines) /\ Len(<<>>) = 0
      /\ 0 \in 0..MaxLines /\ 0 \in 0..MaxThreads
  BY <1>1, ServicesAssumption DEF Logcat!Init, Logcat!LogcatAssumption
<1>3. Logcat!TypeOK
  BY <1>1, <1>2 DEF Logcat!Init, Logcat!TypeOK
<1>4. /\ \A t \in Logcat!Threads : at[t] <= lines /\ state[t] = "none"
      /\ Increasing(<<>>)
  BY <1>1, <1>2 DEF Logcat!Init, Increasing
<1>5. QED
  BY <1>2, <1>3, <1>4 DEF LogcatInv

\* A start opens the file anew, or goes on with it when the last stop left it.
LEMMA StartKeeps ==
  ASSUME LogcatInv, Logcat!Start
  PROVE  LogcatInv'
<1>1. /\ opened' = TRUE /\ recordStop' = FALSE /\ record' \in {record, <<>>}
      /\ UNCHANGED <<clear, lines, given, stopping, outlived>> /\ stopping = FALSE
      /\ record' \in Seq(1..MaxLines)
  <2>1. record \in Seq(1..MaxLines) /\ <<>> \in Seq(1..MaxLines) /\ stopping \in BOOLEAN
    BY SequenceGrows DEF LogcatInv, Logcat!TypeOK
  <2>2. QED
    BY <2>1 DEF Logcat!Start
<1>2. CASE Logcat!NeedsThread
  <2>1. /\ begun < MaxThreads /\ begun' = begun + 1 /\ current' = begun' /\ current = 0
        /\ state' = [state EXCEPT ![begun'] = "running"]
        /\ at' = [at EXCEPT ![begun'] = IF clear THEN lines ELSE 0]
    BY <1>2 DEF Logcat!Start, Logcat!NeedsThread
  <2>2. begun' \in Logcat!Threads /\ current' \in 0..MaxThreads /\ begun' \in 0..MaxThreads
    BY <2>1, ServicesAssumption DEF LogcatInv, Logcat!TypeOK, Logcat!Threads, Logcat!LogcatAssumption
  <2>3. Logcat!TypeOK'
    <3>1. lines \in 0..MaxLines /\ 0 \in 0..MaxLines
      BY ServicesAssumption DEF LogcatInv, Logcat!TypeOK, Logcat!LogcatAssumption
    <3>2. /\ state' \in [Logcat!Threads -> {"none", "running", "ended", "raised"}]
          /\ at' \in [Logcat!Threads -> 0..MaxLines]
      BY <2>1, <2>2, <3>1 DEF LogcatInv, Logcat!TypeOK
    <3>3. QED
      BY <1>1, <2>2, <3>2 DEF LogcatInv, Logcat!TypeOK
  <2>4. /\ \A t \in Logcat!Threads : at'[t] <= lines'
        /\ \A t \in Logcat!Threads : begun' < t => state'[t] = "none"
    BY <1>1, <2>1, <2>2 DEF LogcatInv, Logcat!TypeOK, Logcat!Threads
  <2>5. ASSUME clear, ~outlived
        PROVE  /\ \A t \in Logcat!Threads : state'[t] = "running" => t = current'
               /\ Increasing(record') /\ Increasing(given')
               /\ \A i \in 1..Len(record') : record'[i] <= lines'
               /\ \A t \in Logcat!Threads, i \in 1..Len(record') : state'[t] = "running" => record'[i] <= at'[t]
    <3>1. \A t \in Logcat!Threads : state'[t] = "running" => t = current'
      BY <2>1, <2>2, <2>5 DEF LogcatInv, Logcat!TypeOK, Logcat!Threads
    <3>2. Increasing(record') /\ Increasing(given') /\ \A i \in 1..Len(record') : record'[i] <= lines'
      BY <1>1, <2>5 DEF LogcatInv, Logcat!TypeOK, Increasing
    <3>3. at'[current'] = lines'
      BY <1>1, <2>1, <2>2, <2>5 DEF LogcatInv, Logcat!TypeOK
    <3>4. QED
      BY <3>1, <3>2, <3>3
  <2>6. QED
    BY <1>1, <2>1, <2>3, <2>4, <2>5 DEF LogcatInv
<1>3. CASE ~Logcat!NeedsThread
  <2>1. UNCHANGED <<current, begun, state, at>>
    BY <1>3 DEF Logcat!Start, Logcat!threads
  <2>2. Logcat!TypeOK'
    BY <1>1, <2>1 DEF LogcatInv, Logcat!TypeOK
  <2>3. CASE record' = record
    BY <1>1, <2>1, <2>2, <2>3 DEF LogcatInv
  <2>4. CASE record' = <<>>
    BY <1>1, <2>1, <2>2, <2>4 DEF LogcatInv, Increasing
  <2>5. QED
    BY <1>1, <2>3, <2>4
<1>4. QED
  BY <1>2, <1>3

\* A thread that reads on appends a line after those it has read.
LEMMA ReadsKeeps ==
  ASSUME LogcatInv, NEW t \in Logcat!Threads, Logcat!Reads(t)
  PROVE  LogcatInv'
<1>1. /\ UNCHANGED <<clear, lines, opened, given, recordStop, stopping, current, begun, outlived>>
      /\ state[t] = "running" /\ state \in [Logcat!Threads -> {"none", "running", "ended", "raised"}] /\ at \in [Logcat!Threads -> 0..MaxLines]
      /\ lines \in 0..MaxLines /\ begun \in 0..MaxThreads
  BY DEF Logcat!Reads, LogcatInv, Logcat!TypeOK
<1>a. t <= begun
  BY <1>1 DEF LogcatInv, Logcat!Threads
<1>2. CASE state' \in {[state EXCEPT ![t] = "ended"], [state EXCEPT ![t] = "raised"]} /\ UNCHANGED <<record, at>>
  <2>1. /\ state' \in [Logcat!Threads -> {"none", "running", "ended", "raised"}]
        /\ \A u \in Logcat!Threads : state'[u] \in {"none", "running"} => state'[u] = state[u]
        /\ \A u \in Logcat!Threads : u # t => state'[u] = state[u]
    BY <1>1, <1>2
  <2>2. Logcat!TypeOK'
    BY <1>1, <1>2, <2>1 DEF LogcatInv, Logcat!TypeOK
  <2>3. \A u \in Logcat!Threads : begun' < u => state'[u] = "none"
    BY <1>1, <1>a, <2>1 DEF LogcatInv, Logcat!Threads
  <2>4. QED
    BY <1>1, <1>2, <2>1, <2>2, <2>3 DEF LogcatInv
<1>3. CASE /\ at[t] < lines /\ at' = [at EXCEPT ![t] = @ + 1] /\ UNCHANGED state
           /\ record' = IF opened THEN Append(record, at'[t]) ELSE record
  <2>1. /\ at[t] + 1 \in 1..MaxLines /\ at' \in [Logcat!Threads -> 0..MaxLines] /\ at'[t] = at[t] + 1 /\ at'[t] <= lines
        /\ \A u \in Logcat!Threads : u # t => at'[u] = at[u]
    BY <1>1, <1>3, ServicesAssumption DEF Logcat!LogcatAssumption
  <2>2. record' \in {record, Append(record, at[t] + 1)} /\ record' \in Seq(1..MaxLines)
    <3>1. record \in Seq(1..MaxLines) /\ Append(record, at[t] + 1) \in Seq(1..MaxLines)
      BY <2>1, SequenceGrows DEF LogcatInv, Logcat!TypeOK
    <3>2. QED
      BY <1>3, <2>1, <3>1
  <2>3. Logcat!TypeOK'
    BY <1>1, <1>3, <2>1, <2>2 DEF LogcatInv, Logcat!TypeOK
  <2>4. \A u \in Logcat!Threads : at'[u] <= lines'
    BY <1>1, <2>1 DEF LogcatInv
  <2>5. ASSUME clear, ~outlived
        PROVE  /\ t = current /\ Increasing(record')
               /\ \A i \in 1..Len(record') : record'[i] <= at'[t]
    <3>1. t = current /\ Increasing(record) /\ record \in Seq(1..MaxLines) /\ \A i \in 1..Len(record) : record[i] <= at[t]
      BY <1>1, <2>5 DEF LogcatInv, Logcat!TypeOK
    <3>2. \A i \in 1..Len(record) : record[i] \in 1..MaxLines /\ record[i] < at[t] + 1 /\ record[i] <= at'[t]
      <4>1. at[t] \in 0..MaxLines /\ \A i \in 1..Len(record) : record[i] \in 1..MaxLines
        BY <1>1, <3>1, SequenceGrows
      <4>2. QED
        BY <2>1, <3>1, <4>1
    <3>3. CASE record' = record
      BY <3>1, <3>2, <3>3
    <3>4. CASE record' = Append(record, at[t] + 1)
      BY <2>1, <3>1, <3>2, <3>4, IncreasingAppend
    <3>5. QED
      BY <2>2, <3>1, <3>3, <3>4
  <2>6. ASSUME clear, ~outlived
        PROVE  /\ \A u \in Logcat!Threads : state'[u] = "running" => u = current'
               /\ Increasing(record') /\ Increasing(given')
               /\ \A i \in 1..Len(record') : record'[i] <= lines'
               /\ \A u \in Logcat!Threads, i \in 1..Len(record') : state'[u] = "running" => record'[i] <= at'[u]
    <3>1. \A u \in Logcat!Threads : state'[u] = "running" => u = t
      BY <1>1, <1>3, <2>5, <2>6 DEF LogcatInv
    <3>2. \A i \in 1..Len(record') : record'[i] \in 1..MaxLines
      BY <2>2, SequenceGrows
    <3>3. \A i \in 1..Len(record') : record'[i] <= lines'
      BY <1>1, <2>1, <2>5, <2>6, <3>2
    <3>4. QED
      BY <1>1, <1>3, <2>5, <2>6, <3>1, <3>3 DEF LogcatInv
  <2>7. QED
    BY <1>1, <1>3, <2>3, <2>4, <2>6 DEF LogcatInv
<1>4. QED
  BY <1>1, <1>2, <1>3 DEF Logcat!Reads

\* After a join that did not time out no thread is left to write.
LEMMA JoinKeeps ==
  ASSUME LogcatInv, Logcat!Join
  PROVE  LogcatInv'
<1>1. /\ stopping' = FALSE /\ current # 0 /\ UNCHANGED <<clear, lines, opened, record, recordStop, begun, state, at>>
      /\ current' \in {0, current} /\ given' \in {record, given}
      /\ outlived' = (outlived \/ state[current] = "running")
      /\ current' = current \/ (current' = 0 /\ state[current] # "raised")
  BY DEF Logcat!Join, Logcat!threads, LogcatInv
<1>2. Logcat!TypeOK'
  <2>1. /\ current' \in 0..MaxThreads /\ given' \in Seq(1..MaxLines) /\ state[current] \in {"none", "running", "ended", "raised"}
        /\ outlived' \in BOOLEAN
    BY <1>1, ServicesAssumption DEF LogcatInv, Logcat!TypeOK, Logcat!Threads, Logcat!LogcatAssumption
  <2>2. QED
    BY <1>1, <2>1 DEF LogcatInv, Logcat!TypeOK
<1>3. current' <= begun'
  BY <1>1 DEF LogcatInv, Logcat!TypeOK
<1>4. clear /\ ~outlived' => \A t \in Logcat!Threads : state[t] # "running"
  BY <1>1 DEF LogcatInv
<1>5. QED
  BY <1>1, <1>2, <1>3, <1>4 DEF LogcatInv

\* Every step of the monitor keeps its invariant.
LEMMA LogcatInvStep == LogcatInv /\ [Logcat!Next]_logcatVars => LogcatInv'
<1>1. ASSUME LogcatInv, Logcat!DeviceLogs PROVE LogcatInv'
  <2>1. /\ lines' = lines + 1 /\ lines' \in 0..MaxLines /\ lines \in 0..MaxLines
        /\ UNCHANGED <<clear, opened, record, given, recordStop, stopping, current, begun, state, at, outlived>>
    BY <1>1, ServicesAssumption DEF Logcat!DeviceLogs, Logcat!files, Logcat!threads, LogcatInv, Logcat!TypeOK, Logcat!LogcatAssumption
  <2>2. Logcat!TypeOK'
    BY <1>1, <2>1 DEF LogcatInv, Logcat!TypeOK
  <2>3. /\ \A t \in Logcat!Threads : at[t] \in 0..MaxLines
        /\ \A i \in 1..Len(record) : record[i] \in 1..MaxLines
    BY <1>1, SequenceGrows DEF LogcatInv, Logcat!TypeOK
  <2>4. /\ \A t \in Logcat!Threads : at'[t] <= lines'
        /\ (clear /\ ~outlived => \A i \in 1..Len(record') : record'[i] <= lines')
    BY <1>1, <2>1, <2>3, ServicesAssumption DEF LogcatInv, Logcat!LogcatAssumption
  <2>5. QED
    BY <1>1, <2>1, <2>2, <2>4 DEF LogcatInv
<1>2. ASSUME LogcatInv, Logcat!Stop \/ Logcat!Close \/ UNCHANGED logcatVars PROVE LogcatInv'
  <2>1. /\ opened' \in BOOLEAN /\ recordStop' \in BOOLEAN /\ stopping' \in BOOLEAN /\ (stopping' => current # 0)
        /\ UNCHANGED <<clear, lines, record, given, current, begun, state, at, outlived>>
    <3>1. opened \in BOOLEAN /\ recordStop \in BOOLEAN /\ stopping \in BOOLEAN /\ (stopping => current # 0)
      BY <1>2 DEF LogcatInv, Logcat!TypeOK
    <3>2. CASE Logcat!Stop
      BY <3>1, <3>2 DEF Logcat!Stop, Logcat!files, Logcat!threads
    <3>3. CASE Logcat!Close
      BY <3>1, <3>3 DEF Logcat!Close, Logcat!threads
    <3>4. CASE UNCHANGED logcatVars
      BY <3>1, <3>4 DEF logcatVars
    <3>5. QED
      BY <1>2, <3>2, <3>3, <3>4
  <2>2. Logcat!TypeOK'
    BY <1>2, <2>1 DEF LogcatInv, Logcat!TypeOK
  <2>3. QED
    BY <1>2, <2>1, <2>2 DEF LogcatInv
<1>3. QED
  BY <1>1, <1>2, StartKeeps, ReadsKeeps, JoinKeeps DEF Logcat!Next

\* Lines in increasing order are written once.
LEMMA LogcatInvImplies == LogcatInv => Logcat!TypeOK /\ Logcat!NoLineTwice
<1>1. SUFFICES ASSUME LogcatInv, clear, ~outlived, NEW s \in {record, given}, NEW i \in 1..(MaxLines * MaxThreads), i < Len(s)
               PROVE  s[i] < s[i + 1]
  BY DEF LogcatInv, Logcat!NoLineTwice
<1>2. Increasing(s) /\ Len(s) \in Nat
  BY <1>1 DEF LogcatInv, Logcat!TypeOK
<1>3. i \in 1..Len(s) - 1
  BY <1>1, <1>2, ServicesAssumption DEF Logcat!LogcatAssumption
<1>4. QED
  BY <1>2, <1>3 DEF Increasing

-----------------------------------------------------------------------------
(* The frames *)

Items == [kind : {"data", "none", "error"}, ts : Seq(1..MaxFrames)]
Read == IF lastFrame > first THEN lastFrame ELSE first
Alive == thread \in {"looks", "reads"}
FirstFrames(s, n) == \E m \in Int : s = Surface!Between(n, m)

\* While the thread lives and nothing is handed over, it has every frame from Start to the last one it read; what it hands over are the
\* first frames after Start.  It hands over once, and dies or parks with at most one item more.
SurfaceInv ==
  /\ Surface!TypeOK
  /\ timestamps \in Seq(1..MaxFrames) /\ \A i \in 1..Len(timestamps) : timestamps[i] <= frames
  /\ queue \in Seq(Items)
  /\ first <= frames /\ lastFrame <= frames
  /\ Alive => /\ retries < 3 /\ Len(queue) <= 1 /\ caller \in {"on", "stopping", "joining"}
              /\ caller = "on" => ~getData
              /\ caller = "on" \/ getData => queue = <<>>
              /\ getData => caller = "stopping"
              /\ \A i \in 1..Len(queue) : queue[i].kind # "error"
              /\ ~skipped /\ (caller = "on" \/ getData) => timestamps = Surface!Between(first, Read)
  /\ ~skipped => \A i \in 1..Len(queue) : queue[i].kind = "data" => FirstFrames(queue[i].ts, first)
  /\ ~skipped /\ caller = "joining" /\ stats.kind = "data" => FirstFrames(stats.ts, first)

\* A function on the first numbers is a sequence.
LEMMA FunctionIsSeq ==
  ASSUME NEW T, NEW n \in Nat, NEW f \in [1..n -> T]
  PROVE  f \in Seq(T) /\ Len(f) = n
OBVIOUS

\* The frames between two numbers.
LEMMA BetweenIsSeq ==
  ASSUME NEW a \in Nat, NEW b \in Nat, b <= MaxFrames
  PROVE  /\ Surface!Between(a, b) \in Seq(1..MaxFrames) /\ Len(Surface!Between(a, b)) = (IF a <= b THEN b - a ELSE 0)
         /\ \A i \in 1..(b - a) : Surface!Between(a, b)[i] = a + i
<1>1. CASE a <= b
  <2>1. b - a \in Nat /\ \A i \in 1..(b - a) : a + i \in 1..MaxFrames
    BY <1>1, ServicesAssumption DEF Surface!SurfaceAssumption
  <2>2. Surface!Between(a, b) \in [1..(b - a) -> 1..MaxFrames] /\ \A i \in 1..(b - a) : Surface!Between(a, b)[i] = a + i
    BY <2>1 DEF Surface!Between
  <2>3. Surface!Between(a, b) \in Seq(1..MaxFrames) /\ Len(Surface!Between(a, b)) = b - a
    BY <2>1, <2>2, FunctionIsSeq
  <2>4. QED
    BY <1>1, <2>2, <2>3
<1>2. CASE ~(a <= b)
  <2>1. 1..(b - a) = {}
    BY <1>2
  <2>2. Surface!Between(a, b) = <<>>
    BY <2>1 DEF Surface!Between
  <2>3. QED
    BY <1>2, <2>1, <2>2
<1>3. QED
  BY <1>1, <1>2

\* Frames in a row, and those after them.
LEMMA BetweenJoins ==
  ASSUME NEW a \in Nat, NEW b \in Nat, NEW c \in Nat, a <= b, b <= c, c <= MaxFrames
  PROVE  Surface!Between(a, b) \o Surface!Between(b, c) = Surface!Between(a, c)
<1> DEFINE s == Surface!Between(a, b)
           r == Surface!Between(b, c)
           t == Surface!Between(a, c)
<1>1. /\ s \in Seq(1..MaxFrames) /\ Len(s) = b - a /\ \A i \in 1..(b - a) : s[i] = a + i
      /\ r \in Seq(1..MaxFrames) /\ Len(r) = c - b /\ \A i \in 1..(c - b) : r[i] = b + i
      /\ t \in Seq(1..MaxFrames) /\ Len(t) = c - a /\ \A i \in 1..(c - a) : t[i] = a + i
  <2>1. a <= c /\ b <= MaxFrames
    BY ServicesAssumption DEF Surface!SurfaceAssumption
  <2>2. QED
    BY <2>1, BetweenIsSeq
<1> HIDE DEF s, r, t
<1>2. /\ s \o r \in Seq(1..MaxFrames) /\ Len(s \o r) = Len(s) + Len(r)
      /\ \A i \in 1..Len(s) + Len(r) : (s \o r)[i] = IF i <= Len(s) THEN s[i] ELSE r[i - Len(s)]
  BY <1>1, ConcatProperties
<1>3. Len(s \o r) = Len(t) /\ Len(s) + Len(r) = c - a
  BY <1>1, <1>2
<1>4. ASSUME NEW i \in 1..(c - a) PROVE (s \o r)[i] = t[i]
  <2>1. i <= b - a => (s \o r)[i] = a + i
    BY <1>1, <1>2, <1>3
  <2>2. ~(i <= b - a) => i - (b - a) \in 1..(c - b) /\ b + (i - (b - a)) = a + i
    OBVIOUS
  <2>3. ~(i <= b - a) => (s \o r)[i] = r[i - (b - a)]
    BY <1>1, <1>2, <1>3
  <2>4. ~(i <= b - a) => r[i - (b - a)] = a + i
    BY <1>1, <2>2
  <2>5. t[i] = a + i
    BY <1>1
  <2>6. QED
    BY <2>1, <2>3, <2>4, <2>5
<1>5. s \o r = t
  BY <1>1, <1>2, <1>3, <1>4, SeqEqual
<1>6. QED
  BY <1>5 DEF s, r, t

\* One item more in the queue, or one less.
LEMMA QueueGrows ==
  ASSUME NEW T, NEW s \in Seq(T), NEW e \in T
  PROVE  /\ Append(s, e) \in Seq(T) /\ Len(Append(s, e)) = Len(s) + 1 /\ Append(s, e)[Len(s) + 1] = e /\ Len(s) \in Nat
         /\ \A i \in 1..Len(s) : Append(s, e)[i] = s[i]
OBVIOUS

\* The rest of a queue after its first item.
LEMMA QueueShrinks ==
  ASSUME NEW T, NEW s \in Seq(T), s # <<>>
  PROVE  /\ Tail(s) \in Seq(T) /\ Len(Tail(s)) = Len(s) - 1 /\ Head(s) = s[1] /\ Head(s) \in T /\ Len(s) \in Nat \ {0}
         /\ \A i \in 1..Len(s) - 1 : Tail(s)[i] = s[i + 1]
OBVIOUS

\* What TypeOK says of the timestamps.
LEMMA ItemTypes ==
  ASSUME NEW qs \in Seq(Items), NEW ts \in Seq(1..MaxFrames)
  PROVE  \A s \in {ts} \union {qs[j].ts : j \in DOMAIN qs} : \A i \in DOMAIN s : s[i] \in 1..MaxFrames
<1>1. \A j \in DOMAIN qs : qs[j].ts \in Seq(1..MaxFrames)
  <2>1. DOMAIN qs = 1..Len(qs) /\ \A i \in 1..Len(qs) : qs[i] \in Items
    OBVIOUS
  <2>2. QED
    BY <2>1 DEF Items
<1>2. ASSUME NEW s \in Seq(1..MaxFrames) PROVE \A i \in DOMAIN s : s[i] \in 1..MaxFrames
  <2>1. DOMAIN s = 1..Len(s)
    OBVIOUS
  <2>2. QED
    BY <2>1, ElementOfSeq
<1>3. QED
  BY <1>1, <1>2

\* The invariant of the collector holds at first: no frame was shown.
LEMMA SurfaceInvInit == Surface!Init => SurfaceInv
<1>1. SUFFICES ASSUME Surface!Init PROVE SurfaceInv
  OBVIOUS
<1>2. /\ queue = <<>> /\ queue \in Seq(Items) /\ Len(queue) = 0 /\ timestamps = <<>> /\ timestamps \in Seq(1..MaxFrames) /\ Len(timestamps) = 0
      /\ 0 \in 0..MaxFrames /\ 0 \in 0..MaxStarts /\ 0 \in 0..3
  <2>1. 0 \in 0..MaxFrames /\ 0 \in 0..MaxStarts /\ 0 \in 0..3
    BY ServicesAssumption DEF Surface!SurfaceAssumption
  <2>2. QED
    BY <1>1, <2>1, EmptySeq DEF Surface!Init
<1>a. \A s \in {timestamps} \union {queue[j].ts : j \in DOMAIN queue} : \A i \in DOMAIN s : s[i] \in 1..MaxFrames
  BY <1>2, ItemTypes
<1>3. Surface!TypeOK
  <2>1. /\ frames \in 0..MaxFrames /\ starts \in 0..MaxStarts
        /\ caller \in {"out", "on", "stopping", "joining", "raised", "again"} /\ thread \in {"none", "looks", "reads", "parked", "dead"}
        /\ getData \in BOOLEAN /\ stop \in BOOLEAN /\ Len(queue) <= 2
        /\ retries \in 0..3 /\ lastFrame \in 0..MaxFrames /\ first \in 0..MaxFrames
        /\ stats.kind \in {"data", "none"} /\ skipped \in BOOLEAN
    <3>1. stats.kind = "none" /\ 0 <= 2
      BY <1>1 DEF Surface!Init, Surface!NoData
    <3>2. frames = 0 /\ starts = 0 /\ caller = "out" /\ thread = "none" /\ getData = FALSE /\ stop = FALSE /\ retries = 0 /\ lastFrame = 0
          /\ first = 0 /\ skipped = FALSE
      BY <1>1 DEF Surface!Init
    <3>3. QED
      BY <1>2, <3>1, <3>2
  <2>2. QED
    BY <1>a, <2>1 DEF Surface!TypeOK
<1>4. QED
  BY <1>1, <1>2, <1>3 DEF Surface!Init, SurfaceInv, Alive, Surface!NoData

\* Steps that leave the frames, the queue and what was returned alone.
LEMMA QuietSteps ==
  ASSUME SurfaceInv, Surface!Looks \/ Surface!Unparks \/ Surface!Stop \/ Surface!Join \/ UNCHANGED surfaceVars
  PROVE  SurfaceInv'
<1>1. UNCHANGED <<frames, starts, queue, retries, lastFrame, timestamps, stats, first, skipped>>
  BY DEF Surface!Looks, Surface!Unparks, Surface!Stop, Surface!Join, surfaceVars, Surface!shared, Surface!own
<1>2. /\ caller \in {"out", "on", "stopping", "joining", "raised", "again"} /\ thread \in {"none", "looks", "reads", "parked", "dead"}
      /\ getData \in BOOLEAN /\ stop \in BOOLEAN
  BY DEF SurfaceInv, Surface!TypeOK
<1>3. /\ caller' \in {"out", "on", "stopping", "joining", "raised", "again"} /\ thread' \in {"none", "looks", "reads", "parked", "dead"}
      /\ getData' \in BOOLEAN /\ stop' \in BOOLEAN
      /\ Alive' => Alive /\ (UNCHANGED <<caller, getData>> \/ (caller = "on" /\ caller' = "stopping" /\ getData'))
      /\ caller' = "joining" => caller = "joining"
  <2>1. CASE Surface!Looks
    BY <1>2, <2>1 DEF Surface!Looks, Surface!shared, Alive
  <2>2. CASE Surface!Unparks
    BY <1>2, <2>2 DEF Surface!Unparks, Surface!shared, Alive
  <2>3. CASE Surface!Stop
    BY <1>2, <2>3 DEF Surface!Stop, Alive, SurfaceInv
  <2>4. CASE Surface!Join
    BY <1>2, <2>4 DEF Surface!Join, Surface!shared, Alive
  <2>5. CASE UNCHANGED surfaceVars
    BY <1>2, <2>5 DEF surfaceVars, Surface!shared, Alive
  <2>6. QED
    BY <2>1, <2>2, <2>3, <2>4, <2>5
<1>4. Surface!TypeOK'
  BY <1>1, <1>3 DEF SurfaceInv, Surface!TypeOK
<1>5. Read' = Read
  BY <1>1 DEF Read
<1>6. Alive' => /\ retries' < 3 /\ Len(queue') <= 1 /\ caller' \in {"on", "stopping", "joining"}
                /\ caller' = "on" => ~getData'
                /\ caller' = "on" \/ getData' => queue' = <<>>
                /\ getData' => caller' = "stopping"
                /\ \A i \in 1..Len(queue') : queue'[i].kind # "error"
                /\ ~skipped' /\ (caller' = "on" \/ getData') => timestamps' = Surface!Between(first', Read')
  BY <1>1, <1>2, <1>3, <1>5 DEF SurfaceInv
<1>7. QED
  BY <1>1, <1>3, <1>4, <1>5, <1>6 DEF SurfaceInv

\* A new frame is after all that were read.
LEMMA ShowsKeeps ==
  ASSUME SurfaceInv, Surface!Shows
  PROVE  SurfaceInv'
<1>1. /\ frames' = frames + 1 /\ frames < MaxFrames
      /\ UNCHANGED <<caller, starts, getData, stop, queue, thread, retries, lastFrame, timestamps, stats, first, skipped>>
  BY DEF Surface!Shows, Surface!shared, Surface!own
<1>2. frames \in 0..MaxFrames /\ first \in 0..MaxFrames /\ lastFrame \in 0..MaxFrames /\ timestamps \in Seq(1..MaxFrames)
  BY DEF SurfaceInv, Surface!TypeOK
<1>3. frames' \in 0..MaxFrames /\ \A n \in 0..MaxFrames : n <= frames => n <= frames'
  BY <1>1, <1>2, ServicesAssumption DEF Surface!SurfaceAssumption
<1>4. Surface!TypeOK'
  BY <1>1, <1>3 DEF SurfaceInv, Surface!TypeOK
<1>5. \A i \in 1..Len(timestamps') : timestamps'[i] <= frames'
  <2>1. \A i \in 1..Len(timestamps) : timestamps[i] \in 1..MaxFrames
    BY <1>2, ElementOfSeq
  <2>2. QED
    BY <1>1, <1>2, <2>1 DEF SurfaceInv
<1>6. /\ Alive' = Alive /\ Read' = Read
     
  BY <1>1 DEF Alive, Read
<1>7. first' <= frames' /\ lastFrame' <= frames'
  BY <1>1, <1>2, <1>3 DEF SurfaceInv
<1>8. QED
  BY <1>1, <1>4, <1>5, <1>6, <1>7 DEF SurfaceInv

\* A start forgets the frames of the last collection.
LEMMA StartBegins ==
  ASSUME SurfaceInv, Surface!Start
  PROVE  SurfaceInv'
<1>1. /\ caller' = "on" /\ first' = frames /\ getData' = FALSE /\ stop' = FALSE /\ queue' = <<>> /\ starts' = starts + 1 /\ starts < MaxStarts
      /\ thread' = "looks" /\ retries' = 0 /\ lastFrame' = 0 /\ timestamps' = <<>> /\ skipped' = FALSE
      /\ UNCHANGED <<frames, stats>>
  BY DEF Surface!Start
<1>2. /\ frames \in 0..MaxFrames /\ starts' \in 0..MaxStarts /\ stats.kind \in {"data", "none"}
      /\ <<>> \in Seq(Items) /\ Len(<<>>) = 0 /\ <<>> \in Seq(1..MaxFrames) /\ 0 \in 0..MaxFrames
  <2>1. frames \in 0..MaxFrames /\ starts \in 0..MaxStarts /\ stats.kind \in {"data", "none"}
    BY DEF SurfaceInv, Surface!TypeOK
  <2>2. starts' \in 0..MaxStarts /\ 0 \in 0..MaxFrames
    BY <1>1, <2>1, ServicesAssumption DEF Surface!SurfaceAssumption
  <2>3. QED
    BY <2>1, <2>2, EmptySeq
<1>3. \A s \in {timestamps'} \union {queue'[j].ts : j \in DOMAIN queue'} : \A i \in DOMAIN s : s[i] \in 1..MaxFrames
  <2>1. DOMAIN queue' = {}
    BY <1>1
  <2>2. QED
    BY <1>1, <2>1
<1>4. Surface!TypeOK'
  <2>1. /\ frames' \in 0..MaxFrames /\ starts' \in 0..MaxStarts
        /\ caller' \in {"out", "on", "stopping", "joining", "raised", "again"} /\ thread' \in {"none", "looks", "reads", "parked", "dead"}
        /\ getData' \in BOOLEAN /\ stop' \in BOOLEAN /\ Len(queue') <= 2
        /\ retries' \in 0..3 /\ lastFrame' \in 0..MaxFrames /\ first' \in 0..MaxFrames
        /\ stats'.kind \in {"data", "none"} /\ skipped' \in BOOLEAN
    <3>1. stats'.kind \in {"data", "none"} /\ Len(queue') <= 2
      BY <1>1, <1>2
    <3>2. frames' \in 0..MaxFrames /\ starts' \in 0..MaxStarts /\ lastFrame' \in 0..MaxFrames /\ first' \in 0..MaxFrames
      BY <1>1, <1>2
    <3>3. retries' \in 0..3 /\ getData' \in BOOLEAN /\ stop' \in BOOLEAN /\ skipped' \in BOOLEAN /\ caller' = "on" /\ thread' = "looks"
      <4>1. 0 \in 0..3
        OBVIOUS
      <4>2. QED
        BY <1>1, <4>1
    <3>4. QED
      BY <3>1, <3>2, <3>3
  <2>2. QED
    BY <1>3, <2>1 DEF Surface!TypeOK
<1>5. Surface!Between(first', Read') = <<>>
  <2>1. Read' = frames /\ frames \in Nat
    BY <1>1, <1>2 DEF Read
  <2>2. 1..(frames - frames) = {}
    BY <2>1
  <2>3. QED
    BY <1>1, <2>1, <2>2 DEF Surface!Between
<1>6. QED
  BY <1>1, <1>2, <1>4, <1>5 DEF SurfaceInv, Alive

\* The thread parks or dies: one item more at most.
LEMMA ThreadEnds ==
  ASSUME SurfaceInv, Surface!ReadsNothing \/ Surface!ReadFails
  PROVE  SurfaceInv'
<1>1. /\ UNCHANGED <<frames, caller, starts, getData, stop, lastFrame, timestamps, stats, first, skipped>>
      /\ thread = "reads" /\ Alive
  BY DEF Surface!ReadsNothing, Surface!ReadFails, Surface!own, Alive
<1>2. retries \in 0..3 /\ retries < 3 /\ queue \in Seq(Items) /\ Len(queue) <= 1 /\ timestamps \in Seq(1..MaxFrames)
  BY <1>1 DEF SurfaceInv, Surface!TypeOK
<1>3. /\ retries' \in 0..3 /\ thread' \in {"looks", "parked", "dead"}
      /\ \/ thread' = "looks" /\ queue' = queue /\ retries' < 3
         \/ thread' # "looks" /\ (\E e \in {Surface!NoData, Surface!Error} : queue' = Append(queue, e))
  <2>1. CASE Surface!ReadsNothing
    <3>1. retries' = retries + 1 /\ (retries' < 3 \/ retries' = 3) /\ retries' \in 0..3
      BY <1>2, <2>1 DEF Surface!ReadsNothing
    <3>2. QED
      BY <2>1, <3>1 DEF Surface!ReadsNothing
  <2>2. CASE Surface!ReadFails
    BY <1>2, <2>2 DEF Surface!ReadFails, Surface!own
  <2>3. QED
    BY <2>1, <2>2
<1>4. Surface!NoData \in Items /\ Surface!Error \in Items /\ Surface!NoData.kind # "data" /\ Surface!Error.kind # "data"
  BY EmptySeq DEF Surface!NoData, Surface!Error, Items
<1>5. /\ queue' \in Seq(Items) /\ Len(queue') <= 2 /\ (Alive' => queue' = queue)
      /\ \A i \in 1..Len(queue') : queue'[i].kind = "data" => i \in 1..Len(queue) /\ queue'[i] = queue[i]
  <2>1. CASE queue' = queue
    BY <1>2, <2>1
  <2>2. CASE thread' # "looks" /\ \E e \in {Surface!NoData, Surface!Error} : queue' = Append(queue, e)
    <3>1. PICK e \in {Surface!NoData, Surface!Error} : queue' = Append(queue, e)
      BY <2>2
    <3>2. /\ queue' \in Seq(Items) /\ Len(queue') = Len(queue) + 1 /\ queue'[Len(queue) + 1] = e /\ Len(queue) \in Nat
          /\ \A i \in 1..Len(queue) : queue'[i] = queue[i]
      BY <1>2, <1>4, <3>1, QueueGrows
    <3>3. \A i \in 1..Len(queue') : i \in 1..Len(queue) \/ i = Len(queue) + 1
      BY <3>2
    <3>4. e.kind # "data" /\ ~Alive'
      BY <1>3, <1>4, <2>2 DEF Alive
    <3>5. Len(queue') <= 2
      BY <1>2, <3>2
    <3>6. QED
      BY <3>2, <3>3, <3>4, <3>5
  <2>3. QED
    BY <1>3, <2>1, <2>2
<1>6. \A s \in {timestamps'} \union {queue'[j].ts : j \in DOMAIN queue'} : \A i \in DOMAIN s : s[i] \in 1..MaxFrames
  <2>1. timestamps' \in Seq(1..MaxFrames)
    BY <1>1, <1>2
  <2>2. ASSUME NEW qs \in Seq(Items), NEW ts \in Seq(1..MaxFrames)
        PROVE  \A s \in {ts} \union {qs[j].ts : j \in DOMAIN qs} : \A i \in DOMAIN s : s[i] \in 1..MaxFrames
    BY <2>2, ItemTypes
  <2>3. QED
    BY <1>5, <2>1, <2>2
<1>7. Surface!TypeOK'
  BY <1>1, <1>3, <1>5, <1>6 DEF SurfaceInv, Surface!TypeOK
<1>8. Read' = Read
  BY <1>1 DEF Read
<1>9. Alive' => /\ retries' < 3 /\ Len(queue') <= 1 /\ caller' \in {"on", "stopping", "joining"}
                /\ caller' = "on" => ~getData'
                /\ caller' = "on" \/ getData' => queue' = <<>>
                /\ getData' => caller' = "stopping"
                /\ \A i \in 1..Len(queue') : queue'[i].kind # "error"
                /\ ~skipped' /\ (caller' = "on" \/ getData') => timestamps' = Surface!Between(first', Read')
  BY <1>1, <1>3, <1>5, <1>8 DEF SurfaceInv, Alive
<1>10. ~skipped' => \A i \in 1..Len(queue') : queue'[i].kind = "data" => FirstFrames(queue'[i].ts, first)
  BY <1>1, <1>5 DEF SurfaceInv
<1>11. QED
  BY <1>1, <1>5, <1>7, <1>8, <1>9, <1>10 DEF SurfaceInv

\* A reading adds the frames since the last one, or hands all of them over.
LEMMA ReadsDataKeeps ==
  ASSUME SurfaceInv, Surface!ReadsData
  PROVE  SurfaceInv'
<1> DEFINE all == timestamps \o Surface!New
           start == IF lastFrame > Surface!Gone THEN lastFrame ELSE Surface!Gone
<1>1. /\ UNCHANGED <<frames, caller, starts, stop, retries, stats, first>>
      /\ thread = "reads" /\ Alive /\ thread' = "looks" /\ getData' = FALSE
      /\ lastFrame' = (IF all = <<>> THEN lastFrame ELSE all[Len(all)])
      /\ IF getData THEN queue' = Append(queue, Surface!Data(all)) /\ timestamps' = <<>> ELSE timestamps' = all /\ queue' = queue
      /\ skipped' = (skipped \/ (frames > Ring /\ frames - Ring > IF lastFrame > first THEN lastFrame ELSE first))
  BY DEF Surface!ReadsData, Alive
<1>2. /\ frames \in 0..MaxFrames /\ first \in 0..MaxFrames /\ lastFrame \in 0..MaxFrames /\ first <= frames /\ lastFrame <= frames
      /\ getData \in BOOLEAN /\ skipped \in BOOLEAN /\ timestamps \in Seq(1..MaxFrames) /\ queue \in Seq(Items)
      /\ \A i \in 1..Len(timestamps) : timestamps[i] <= frames
  BY DEF SurfaceInv, Surface!TypeOK
<1>3. Surface!Gone \in Nat /\ Surface!Gone <= frames /\ first <= Surface!Gone /\ start \in Nat /\ start <= frames /\ MaxFrames \in Nat
  BY <1>2, ServicesAssumption DEF Surface!Gone, Surface!SurfaceAssumption
<1>4. /\ Surface!New \in Seq(1..MaxFrames) /\ Len(Surface!New) = frames - start
      /\ \A i \in 1..Len(Surface!New) : Surface!New[i] = start + i
  <2>1. Surface!New = Surface!Between(start, frames)
    BY DEF Surface!New
  <2>2. frames \in Nat /\ frames <= MaxFrames
    BY <1>2
  <2> HIDE DEF start
  <2>3. QED
    BY <1>3, <2>1, <2>2, BetweenIsSeq
<1>5. /\ all \in Seq(1..MaxFrames) /\ Len(all) = Len(timestamps) + Len(Surface!New) /\ Len(timestamps) \in Nat
      /\ \A i \in 1..Len(timestamps) + Len(Surface!New) : all[i] = IF i <= Len(timestamps) THEN timestamps[i] ELSE Surface!New[i - Len(timestamps)]
  <2>1. PICK T : T = 1..MaxFrames
    OBVIOUS
  <2>2. timestamps \in Seq(T) /\ Surface!New \in Seq(T)
    BY <1>2, <1>4, <2>1
  <2>3. /\ timestamps \o Surface!New \in Seq(T) /\ Len(timestamps \o Surface!New) = Len(timestamps) + Len(Surface!New) /\ Len(timestamps) \in Nat
        /\ \A i \in 1..Len(timestamps) + Len(Surface!New) :
             (timestamps \o Surface!New)[i] = IF i <= Len(timestamps) THEN timestamps[i] ELSE Surface!New[i - Len(timestamps)]
    BY <2>2, ConcatProperties, LenProperties
  <2>4. QED
    BY <2>1, <2>3
<1> HIDE DEF all, start
<1>6. \A i \in 1..Len(all) : all[i] \in 1..MaxFrames /\ all[i] <= frames
  <2>1. \A i \in 1..Len(all) : all[i] \in 1..MaxFrames
    BY <1>5, ElementOfSeq
  <2>2. ASSUME NEW i \in 1..Len(all) PROVE all[i] <= frames
    <3>1. CASE i <= Len(timestamps)
      BY <1>2, <1>5, <3>1
    <3>2. CASE ~(i <= Len(timestamps))
      <4>1. i - Len(timestamps) \in 1..Len(Surface!New) /\ Len(Surface!New) = frames - start
        BY <1>3, <1>4, <1>5, <3>2
      <4>2. Surface!New[i - Len(timestamps)] = start + (i - Len(timestamps))
        BY <1>4, <4>1
      <4>3. all[i] = start + (i - Len(timestamps))
        BY <1>5, <3>2, <4>2
      <4>4. i \in Nat /\ Len(timestamps) \in Nat /\ i - Len(timestamps) <= frames - start
        BY <1>5, <4>1
      <4>5. frames \in Nat /\ start \in Nat
        BY <1>2, <1>3
      <4>6. QED
        BY <4>3, <4>4, <4>5
    <3>3. QED
      BY <3>1, <3>2
  <2>3. QED
    BY <2>1, <2>2
<1>7. lastFrame' \in 0..MaxFrames /\ lastFrame' <= frames
  <2>1. CASE all = <<>>
    BY <1>1, <1>2, <2>1
  <2>2. CASE all # <<>>
    <3>1. Len(all) \in 1..Len(all)
      BY <1>5, <2>2, EmptySeq
    <3>2. lastFrame' = all[Len(all)]
      BY <1>1, <2>2
    <3>3. QED
      BY <1>6, <3>1, <3>2
  <2>3. QED
    BY <2>1, <2>2
\* Nothing was missed: what is gathered goes on where it ended.
<1>8. ASSUME ~skipped', caller = "on" \/ getData
      PROVE  all = Surface!Between(first, frames) /\ Read' = frames
  <2>1. ~skipped /\ ~(frames > Ring /\ frames - Ring > Read)
    BY <1>1, <1>2, <1>8 DEF Read
  <2>2. timestamps = Surface!Between(first, Read)
    BY <1>1, <1>8, <2>1 DEF SurfaceInv
  <2>3. Read \in Nat /\ first <= Read /\ Read <= frames /\ start = Read
    BY <1>2, <2>1, ServicesAssumption DEF Read, Surface!Gone, Surface!SurfaceAssumption, start
  <2>4. all = Surface!Between(first, frames)
    <3>1. Surface!New = Surface!Between(Read, frames)
      BY <2>3 DEF Surface!New, start
    <3>2. frames \in Nat /\ first \in Nat /\ frames <= MaxFrames
      BY <1>2
    <3>3. QED
      BY <2>2, <2>3, <3>1, <3>2, BetweenJoins DEF all
  <2>5. /\ Len(Surface!Between(first, frames)) = frames - first
        /\ \A i \in 1..(frames - first) : Surface!Between(first, frames)[i] = first + i
    BY <1>2, BetweenIsSeq
  <2>6. Read' = frames
    <3>1. CASE first = frames
      BY <1>1, <1>2, <1>7, <3>1 DEF Read
    <3>2. CASE first # frames
      <4>1. frames - first \in 1..(frames - first) /\ Len(all) = frames - first /\ all # <<>>
        BY <1>2, <2>4, <2>5, <3>2, EmptySeq
      <4>2. lastFrame' = first + (frames - first)
        BY <1>1, <2>4, <2>5, <4>1
      <4>3. lastFrame' = frames
        BY <1>2, <4>2
      <4>4. QED
        BY <1>1, <1>2, <3>2, <4>3 DEF Read
    <3>3. QED
      BY <3>1, <3>2
  <2>7. QED
    BY <2>4, <2>6
<1>9. Surface!Data(all) \in Items /\ Surface!Data(all).ts = all
  BY <1>5 DEF Surface!Data, Items
<1>10. /\ queue' \in Seq(Items) /\ Len(queue') <= 1 /\ (~getData => queue' = queue)
       /\ (getData => caller' # "on" /\ \A i \in 1..Len(queue') : queue'[i] = Surface!Data(all))
  <2>1. CASE getData
    <3>1. queue = <<>> /\ queue' = Append(queue, Surface!Data(all)) /\ caller = "stopping" /\ Len(queue) = 0
      BY <1>1, <2>1, EmptySeq DEF SurfaceInv
    <3>2. queue' \in Seq(Items) /\ Len(queue') = 1 /\ queue'[1] = Surface!Data(all)
      BY <1>2, <1>9, <3>1, QueueGrows
    <3>3. QED
      BY <1>1, <2>1, <3>1, <3>2
  <2>2. CASE ~getData
    BY <1>1, <1>2, <2>2 DEF SurfaceInv
  <2>3. QED
    BY <1>2, <2>1, <2>2
<1>11. timestamps' \in Seq(1..MaxFrames) /\ \A i \in 1..Len(timestamps') : timestamps'[i] <= frames'
  <2>1. <<>> \in Seq(1..MaxFrames) /\ Len(<<>>) = 0
    BY EmptySeq
  <2>2. CASE timestamps' = <<>>
    BY <2>1, <2>2
  <2>3. CASE timestamps' = all
    BY <1>1, <1>5, <1>6, <2>3
  <2>4. QED
    BY <1>1, <2>2, <2>3
<1>12. \A s \in {timestamps'} \union {queue'[j].ts : j \in DOMAIN queue'} : \A i \in DOMAIN s : s[i] \in 1..MaxFrames
  <2>1. ASSUME NEW qs \in Seq(Items), NEW ts \in Seq(1..MaxFrames)
        PROVE  \A s \in {ts} \union {qs[j].ts : j \in DOMAIN qs} : \A i \in DOMAIN s : s[i] \in 1..MaxFrames
    BY <2>1, ItemTypes
  <2>2. QED
    BY <1>10, <1>11, <2>1
<1>13. Surface!TypeOK'
  <2>1. skipped' \in BOOLEAN /\ Len(queue') \in Nat
    BY <1>1, <1>2, <1>10
  <2>2. Len(queue') <= 2
    BY <1>10, <2>1
  <2>3. QED
    BY <1>1, <1>7, <1>12, <2>1, <2>2 DEF SurfaceInv, Surface!TypeOK
<1>15. ~skipped' /\ caller' = "on" => timestamps' = Surface!Between(first', Read')
  <2>1. SUFFICES ASSUME ~skipped', caller = "on" PROVE timestamps' = Surface!Between(first', Read')
    BY <1>1
  <2>2. ~getData
    BY <1>1, <2>1 DEF SurfaceInv
  <2>3. timestamps' = all /\ all = Surface!Between(first, frames) /\ Read' = frames
    BY <1>1, <1>8, <2>1, <2>2
  <2>4. QED
    BY <1>1, <2>3 DEF Surface!Between
<1>16. ~skipped' => \A i \in 1..Len(queue') : queue'[i].kind = "data" => FirstFrames(queue'[i].ts, first)
  <2>1. SUFFICES ASSUME ~skipped' PROVE \A i \in 1..Len(queue') : queue'[i].kind = "data" => FirstFrames(queue'[i].ts, first)
    OBVIOUS
  <2>2. ~skipped
    BY <1>1, <1>2, <2>1
  <2>3. CASE getData
    <3>1. all = Surface!Between(first, frames) /\ frames \in Int
      BY <1>2, <1>8, <2>1, <2>3
    <3>2. FirstFrames(all, first)
      BY <3>1 DEF FirstFrames
    <3>3. QED
      BY <1>9, <1>10, <2>3, <3>2
  <2>4. CASE ~getData
    BY <1>10, <2>2, <2>4 DEF SurfaceInv
  <2>5. QED
    BY <1>2, <2>3, <2>4
<1>17. ~skipped' /\ caller' = "joining" /\ stats'.kind = "data" => FirstFrames(stats'.ts, first)
  BY <1>1, <1>2 DEF SurfaceInv
<1>18. /\ retries' < 3 /\ caller' \in {"on", "stopping", "joining"}
       /\ caller' = "on" => queue' = <<>>
  BY <1>1, <1>10 DEF SurfaceInv
<1>20. \A i \in 1..Len(queue') : queue'[i].kind # "error"
  <2>1. Surface!Data(all).kind # "error"
    BY DEF Surface!Data
  <2>2. CASE getData
    BY <1>10, <2>1, <2>2
  <2>3. CASE ~getData
    BY <1>1, <1>10, <2>3 DEF SurfaceInv
  <2>4. QED
    BY <1>2, <2>2, <2>3
<1>21. Alive' => /\ retries' < 3 /\ Len(queue') <= 1 /\ caller' \in {"on", "stopping", "joining"}
                 /\ caller' = "on" => ~getData'
                 /\ caller' = "on" \/ getData' => queue' = <<>>
                 /\ getData' => caller' = "stopping"
                 /\ \A i \in 1..Len(queue') : queue'[i].kind # "error"
                 /\ ~skipped' /\ (caller' = "on" \/ getData') => timestamps' = Surface!Between(first', Read')
  BY <1>1, <1>10, <1>15, <1>18, <1>20
<1>22. first' <= frames' /\ lastFrame' <= frames'
  BY <1>1, <1>2, <1>7
<1>24. QED
  BY <1>1, <1>10, <1>11, <1>13, <1>16, <1>17, <1>21, <1>22 DEF SurfaceInv

\* The caller takes the first item.
LEMMA GetsKeeps ==
  ASSUME SurfaceInv, Surface!Gets
  PROVE  SurfaceInv'
<1>1. /\ UNCHANGED <<frames, starts, getData, thread, retries, lastFrame, timestamps, first, skipped>>
      /\ caller \in {"stopping", "again"} /\ queue # <<>> /\ queue' = Tail(queue)
      /\ \/ Head(queue).kind = "error" /\ caller' = "raised" /\ UNCHANGED <<stop, stats>>
         \/ Head(queue).kind # "error" /\ caller' = "joining" /\ stop' = TRUE /\ stats' = Head(queue)
  BY DEF Surface!Gets, Surface!own
<1>2. queue \in Seq(Items) /\ Len(queue) <= 2 /\ timestamps \in Seq(1..MaxFrames) /\ stop \in BOOLEAN /\ stats.kind \in {"data", "none"}
  BY DEF SurfaceInv, Surface!TypeOK
<1>3. /\ queue' \in Seq(Items) /\ Len(queue') = Len(queue) - 1 /\ Head(queue) = queue[1] /\ Head(queue) \in Items
      /\ Len(queue) \in Nat \ {0} /\ \A i \in 1..Len(queue) - 1 : queue'[i] = queue[i + 1]
  BY <1>1, <1>2, QueueShrinks
<1>4. \A s \in {timestamps'} \union {queue'[j].ts : j \in DOMAIN queue'} : \A i \in DOMAIN s : s[i] \in 1..MaxFrames
  <2>1. ASSUME NEW qs \in Seq(Items), NEW ts \in Seq(1..MaxFrames)
        PROVE  \A s \in {ts} \union {qs[j].ts : j \in DOMAIN qs} : \A i \in DOMAIN s : s[i] \in 1..MaxFrames
    BY <2>1, ItemTypes
  <2>2. timestamps' \in Seq(1..MaxFrames)
    BY <1>1, <1>2
  <2>3. QED
    BY <1>3, <2>1, <2>2
<1>5. Surface!TypeOK'
  <2>1. Head(queue).kind \in {"data", "none", "error"}
    BY <1>3 DEF Items
  <2>2. stop' \in BOOLEAN /\ stats'.kind \in {"data", "none"} /\ caller' \in {"raised", "joining"} /\ Len(queue') <= 2
    <3>1. stop' \in BOOLEAN /\ caller' \in {"raised", "joining"}
      BY <1>1, <1>2
    <3>a. Len(queue') <= 2
      BY <1>2, <1>3
    <3>2. stats'.kind \in {"data", "none"}
      BY <1>1, <1>2, <2>1
    <3>3. QED
      BY <3>1, <3>2, <3>a
  <2>3. QED
    BY <1>1, <1>4, <2>2 DEF SurfaceInv, Surface!TypeOK
<1>6. Read' = Read /\ Alive' = Alive
  BY <1>1 DEF Read, Alive
<1>7. Alive => caller' = "joining" /\ ~getData /\ Len(queue') <= 1
  <2>1. SUFFICES ASSUME Alive PROVE caller' = "joining" /\ ~getData /\ Len(queue') <= 1
    OBVIOUS
  <2>2. Len(queue) <= 1 /\ ~getData
    BY <1>1, <2>1 DEF SurfaceInv
  <2>3. caller' = "joining"
    <3>1. Head(queue).kind # "error"
      BY <1>3, <2>1 DEF SurfaceInv
    <3>2. QED
      BY <1>1, <3>1
  <2>4. QED
    BY <1>3, <2>2, <2>3
<1>11. Alive => \A i \in 1..Len(queue') : queue'[i].kind # "error"
  <2>1. SUFFICES ASSUME Alive, NEW i \in 1..Len(queue') PROVE queue'[i].kind # "error"
    OBVIOUS
  <2>2. i + 1 \in 1..Len(queue) /\ queue'[i] = queue[i + 1]
    BY <1>3
  <2>3. QED
    BY <2>1, <2>2 DEF SurfaceInv
<1>8. ~skipped => \A i \in 1..Len(queue') : queue'[i].kind = "data" => FirstFrames(queue'[i].ts, first)
  <2>1. SUFFICES ASSUME ~skipped, NEW i \in 1..Len(queue'), queue'[i].kind = "data" PROVE FirstFrames(queue'[i].ts, first)
    OBVIOUS
  <2>2. i + 1 \in 1..Len(queue) /\ queue'[i] = queue[i + 1]
    BY <1>3
  <2>3. QED
    BY <2>1, <2>2 DEF SurfaceInv
<1>9. ~skipped /\ caller' = "joining" /\ stats'.kind = "data" => FirstFrames(stats'.ts, first)
  <2>1. 1 \in 1..Len(queue)
    BY <1>3
  <2>2. QED
    BY <1>1, <1>3, <2>1 DEF SurfaceInv
<1>10. QED
  BY <1>1, <1>3, <1>5, <1>6, <1>7, <1>8, <1>9, <1>11 DEF SurfaceInv

\* Every step of the collector keeps its invariant.
LEMMA SurfaceInvStep == SurfaceInv /\ [Surface!Next]_surfaceVars => SurfaceInv'
BY QuietSteps, ShowsKeeps, StartBegins, ThreadEnds, ReadsDataKeeps, GetsKeeps DEF Surface!Next, Surface!Collector

\* What was handed over is the frames from the first on, without a gap.
LEMMA SurfaceInvImplies == SurfaceInv => Surface!TypeOK /\ Surface!FramesOnce
<1>1. SUFFICES ASSUME SurfaceInv, caller = "joining", stats.kind = "data", ~skipped
               PROVE  stats.ts = [i \in DOMAIN stats.ts |-> first + i]
  BY DEF SurfaceInv, Surface!FramesOnce
<1>2. PICK m \in Int : stats.ts = Surface!Between(first, m)
  BY <1>1 DEF SurfaceInv, FirstFrames
<1>3. QED
  BY <1>2 DEF Surface!Between

-----------------------------------------------------------------------------
(* Ports of test servers *)

\* Only the process that holds the lock is at work, with a port it has read.
OneAtWork ==
  \A t \in Tests :
    /\ portStep[t] # "idle" => lock = t
    /\ portStep[t] = "search" => port[t] > 0
    /\ portStep[t] = "write" => port[t] \in 1..LastPort

\* Every port that was issued lies below the one in the file and below the one that is about to be written.
IssuedLieBelow ==
  \A i \in DOMAIN issued :
    /\ portFile > 0 => issued[i] < portFile
    /\ \A t \in Tests : portStep[t] \in {"search", "write"} => issued[i] < port[t]

PortsInv == Tickets!TypeOK /\ OneAtWork /\ IssuedLieBelow /\ Tickets!PortsAreDistinct

\* The invariant of the ports holds at first: none was given.
LEMMA PortsInit == Tickets!Init => PortsInv
<1> SUFFICES ASSUME Tickets!Init PROVE PortsInv
  OBVIOUS
<1>1. Tickets!TypeOK
  <2>1. issued \in Seq(1..LastPort)
    BY DEF Tickets!Init
  <2>2. taken \subseteq 1..LastPort
    <3>1. taken = {} \/ taken = {2}
      BY DEF Tickets!Init
    <3>2. QED
      BY <3>1, ServicesAssumption DEF Tickets!PortsAssumption
  <2>3. /\ portFile \in 0..LastPort + 1 /\ port \in [Tests -> 0..LastPort + 1]
        /\ resets \in 0..MaxResets /\ allocs \in 0..MaxAllocs
    BY ServicesAssumption DEF Tickets!PortsAssumption, Tickets!Init
  <2>4. lock \in Tests \union {"free"} /\ portStep \in [Tests -> {"idle", "read", "search", "write"}] /\ resetting \in BOOLEAN
    BY DEF Tickets!Init
  <2>5. QED
    BY <2>1, <2>2, <2>3, <2>4 DEF Tickets!TypeOK
<1>2. OneAtWork /\ IssuedLieBelow /\ Tickets!PortsAreDistinct
  BY DEF Tickets!Init, OneAtWork, IssuedLieBelow, Tickets!PortsAreDistinct
<1>3. QED
  BY <1>1, <1>2 DEF PortsInv

\* Every step of a test keeps the invariant of the ports.
LEMMA PortsStep ==
  ASSUME PortsInv, [Tickets!Next]_portVars
  PROVE  PortsInv'
<1> USE ServicesAssumption DEF Tickets!PortsAssumption, PortsInv, Tickets!TypeOK, Tickets!Release
<1>1. ASSUME NEW t \in Tests, Tickets!Acquire(t) PROVE PortsInv'
  BY <1>1 DEF Tickets!Acquire, Tickets!Free, OneAtWork, IssuedLieBelow, Tickets!PortsAreDistinct
<1>2. ASSUME NEW t \in Tests, Tickets!Read(t) PROVE PortsInv'
  <2>1. Tickets!TypeOK'
    BY <1>2 DEF Tickets!Read
  <2>2. OneAtWork'
    BY <1>2 DEF Tickets!Read, OneAtWork
  <2>3. IssuedLieBelow' /\ Tickets!PortsAreDistinct'
    BY <1>2 DEF Tickets!Read, OneAtWork, IssuedLieBelow, Tickets!PortsAreDistinct
  <2>4. QED
    BY <2>1, <2>2, <2>3
<1>3. ASSUME NEW t \in Tests, Tickets!Search(t) PROVE PortsInv'
  <2>1. PICK chosen \in port[t]..LastPort + 2 :
          IF Tickets!Beyond(chosen) THEN port' = [port EXCEPT ![t] = 0] /\ Tickets!Release(t)
          ELSE port' = [port EXCEPT ![t] = chosen] /\ portStep' = [portStep EXCEPT ![t] = "write"] /\ UNCHANGED lock
    BY <1>3 DEF Tickets!Search
  <2>2. /\ portStep[t] = "search" /\ UNCHANGED <<portFile, taken, issued, resetting, resets, allocs>>
        /\ chosen \in Nat /\ port[t] <= chosen
    BY <1>3 DEF Tickets!Search
  <2>3. CASE Tickets!Beyond(chosen)
    <3>1. Tickets!TypeOK'
      BY <2>1, <2>2, <2>3
    <3>2. OneAtWork'
      BY <2>1, <2>2, <2>3 DEF OneAtWork
    <3>3. IssuedLieBelow' /\ Tickets!PortsAreDistinct'
      BY <2>1, <2>2, <2>3 DEF IssuedLieBelow, Tickets!PortsAreDistinct
    <3>4. QED
      BY <3>1, <3>2, <3>3
  <2>4. CASE chosen <= LastPort
    <3>1. /\ port' = [port EXCEPT ![t] = chosen] /\ portStep' = [portStep EXCEPT ![t] = "write"] /\ UNCHANGED lock
          /\ chosen > 0
      BY <2>1, <2>2, <2>4 DEF Tickets!Beyond, OneAtWork
    <3>2. Tickets!TypeOK'
      BY <2>2, <2>4, <3>1
    <3>3. OneAtWork'
      BY <2>2, <2>4, <3>1 DEF OneAtWork
    <3>4. IssuedLieBelow' /\ Tickets!PortsAreDistinct'
      BY <2>2, <3>1 DEF OneAtWork, IssuedLieBelow, Tickets!PortsAreDistinct
    <3>5. QED
      BY <3>2, <3>3, <3>4
  <2>5. QED
    BY <2>2, <2>3, <2>4 DEF Tickets!Beyond
<1>4. ASSUME NEW t \in Tests, Tickets!Write(t) PROVE PortsInv'
  <2> USE <1>4 DEF Tickets!Write, OneAtWork, IssuedLieBelow
  <2>1. Tickets!TypeOK'
    OBVIOUS
  <2>2. \A u \in Tests : portStep'[u] = "idle"
    OBVIOUS
  <2>3. \A i \in DOMAIN issued' : issued'[i] < portFile' 
    OBVIOUS
  <2>4. Tickets!PortsAreDistinct'
    BY DEF Tickets!PortsAreDistinct
  <2>5. QED
    BY <2>1, <2>2, <2>3, <2>4
<1>5. ASSUME NEW t \in Tests, Tickets!WriteFails(t) PROVE PortsInv'
  BY <1>5 DEF Tickets!WriteFails, OneAtWork, IssuedLieBelow, Tickets!PortsAreDistinct
<1>6. CASE Tickets!Truncate
  BY <1>6 DEF Tickets!Truncate, OneAtWork, IssuedLieBelow, Tickets!PortsAreDistinct
<1>7. CASE Tickets!Reset
  <2>1. issued' \in Seq(1..LastPort)
    BY <1>7 DEF Tickets!Reset
  <2>2. IssuedLieBelow' /\ Tickets!PortsAreDistinct'
    BY <1>7 DEF Tickets!Reset, IssuedLieBelow, Tickets!PortsAreDistinct
  <2>3. portFile' \in 0..LastPort + 1
    BY <1>7 DEF Tickets!Reset
  <2>4. Tickets!TypeOK'
    BY <1>7, <2>1, <2>3 DEF Tickets!Reset
  <2>5. OneAtWork'
    BY <1>7 DEF Tickets!Reset, OneAtWork
  <2>6. QED
    BY <2>2, <2>4, <2>5
<1>8. CASE Tickets!Listen
  <2>1. taken' \subseteq 1..LastPort
    <3>1. taken' = {} \/ taken' = {2} \/ taken' = {1, 2}
      BY <1>8 DEF Tickets!Listen
    <3>2. QED
      BY <3>1
  <2>2. UNCHANGED <<portFile, lock, portStep, port, issued, resetting, resets, allocs>>
    BY <1>8 DEF Tickets!Listen
  <2>3. QED
    BY <2>1, <2>2 DEF OneAtWork, IssuedLieBelow, Tickets!PortsAreDistinct
<1>9. UNCHANGED portVars => PortsInv'
  BY DEF portVars, OneAtWork, IssuedLieBelow, Tickets!PortsAreDistinct
<1>10. QED
  BY <1>1, <1>2, <1>3, <1>4, <1>5, <1>6, <1>7, <1>8, <1>9 DEF Tickets!Next
-----------------------------------------------------------------------------
(* The parts together *)

\* A step of the composition is a step of each part or leaves that part alone.
LEMMA PartsStep ==
  ASSUME [Next]_vars
  PROVE  /\ [Battery!Next]_batteryVars
         /\ [Boot!Next]_bootVars
         /\ [Care!Next]_careVars
         /\ [Flag!Next]_flagVars
         /\ [Prefs!Next]_prefsVars
         /\ [Tuning!Next]_tuningVars
         /\ [Logcat!Next]_logcatVars
         /\ [Surface!Next]_surfaceVars
         /\ [Tickets!Next]_portVars
BY DEF Next, vars, restOfBattery, restOfSurface

\* The invariant of the battery holds in every behaviour.
LEMMA BatteryAlways == Spec => []BatteryInv
<1>1. Init => BatteryInv
  <2>1. Init => Battery!Init
    BY DEF Init
  <2>2. QED
    BY <2>1, BatteryInvInit
<1>2. BatteryInv /\ [Next]_vars => BatteryInv'
  BY PartsStep, BatteryInvStep
<1>3. QED
  BY <1>1, <1>2, PTL DEF Spec

\* The invariant of the boot holds in every behaviour.
LEMMA BootAlways == Spec => []BootInv
<1>1. Init => BootInv
  <2>1. Init => Boot!Init
    BY DEF Init
  <2>2. QED
    BY <2>1, BootInvInit
<1>2. BootInv /\ [Next]_vars => BootInv'
  BY PartsStep, BootInvStep
<1>3. QED
  BY <1>1, <1>2, PTL DEF Spec

\* The invariant of the fleet holds in every behaviour.
LEMMA FleetAlways == Spec => []FleetInv
<1>1. Init => FleetInv
  <2>1. Init => Care!Init
    BY DEF Init
  <2>2. QED
    BY <2>1, FleetInvInit
<1>2. FleetInv /\ [Next]_vars => FleetInv'
  BY PartsStep, FleetInvStep
<1>3. QED
  BY <1>1, <1>2, PTL DEF Spec

\* The invariant of SELinux holds in every behaviour.
LEMMA EnforceAlways == Spec => []EnforceInv
<1>1. Init => EnforceInv
  <2>1. Init => Flag!Init
    BY DEF Init
  <2>2. QED
    BY <2>1, EnforceInvInit
<1>2. EnforceInv /\ [Next]_vars => EnforceInv'
  BY PartsStep, EnforceInvStep
<1>3. QED
  BY <1>1, <1>2, PTL DEF Spec

\* The invariant of the stack of flags holds in every behaviour.
LEMMA FlagAlways == Spec => []FlagInv
<1>1. Init => FlagInv
  <2>1. Init => Flag!Init
    BY DEF Init
  <2>2. QED
    BY <2>1, FlagInvInit
<1>2. FlagInv /\ [Next]_vars => FlagInv'
  BY PartsStep, FlagInvStep
<1>3. QED
  BY <1>1, <1>2, PTL DEF Spec

\* The invariant of the preferences holds in every behaviour.
LEMMA PrefsAlways == Spec => []PrefsInv
<1>1. Init => PrefsInv
  <2>1. Init => Prefs!Init
    BY DEF Init
  <2>2. QED
    BY <2>1, PrefsInvInit
<1>2. PrefsInv /\ [Next]_vars => PrefsInv'
  BY PartsStep, PrefsInvStep
<1>3. QED
  BY <1>1, <1>2, PTL DEF Spec

\* The invariant of the CPUs holds in every behaviour.
LEMMA TuningAlways == Spec => []TuningInv
<1>1. Init => TuningInv
  <2>1. Init => Tuning!Init
    BY DEF Init
  <2>2. QED
    BY <2>1, TuningInvInit
<1>2. TuningInv /\ [Next]_vars => TuningInv'
  BY PartsStep, TuningInvStep
<1>3. QED
  BY <1>1, <1>2, PTL DEF Spec

\* The invariant of the log holds in every behaviour.
LEMMA LogcatAlways == Spec => []LogcatInv
<1>1. Init => LogcatInv
  <2>1. Init => Logcat!Init
    BY DEF Init
  <2>2. QED
    BY <2>1, LogcatInvInit
<1>2. LogcatInv /\ [Next]_vars => LogcatInv'
  BY PartsStep, LogcatInvStep
<1>3. QED
  BY <1>1, <1>2, PTL DEF Spec

\* The invariant of the frames holds in every behaviour.
LEMMA SurfaceAlways == Spec => []SurfaceInv
<1>1. Init => SurfaceInv
  <2>1. Init => Surface!Init
    BY DEF Init
  <2>2. QED
    BY <2>1, SurfaceInvInit
<1>2. SurfaceInv /\ [Next]_vars => SurfaceInv'
  BY PartsStep, SurfaceInvStep
<1>3. QED
  BY <1>1, <1>2, PTL DEF Spec

\* The invariant of the ports holds in every behaviour.
LEMMA PortsAlways == Spec => []PortsInv
<1>1. Init => PortsInv
  <2>1. Init => Tickets!Init
    BY DEF Init
  <2>2. QED
    BY <2>1, PortsInit
<1>2. PortsInv /\ [Next]_vars => PortsInv'
  BY PartsStep, PortsStep
<1>3. QED
  BY <1>1, <1>2, PTL DEF Spec

\* A Reboot that returned has restarted the device, commands run without su only while adbd is root, and a flashing leaves the
\* bootloader, but for the troubles that are named: whatever is flashed and however often the device boots, fails or restarts (device_utils.py,
\* fastboot_utils.py).
THEOREM BootStaysSound == Spec => []BootIsSound
<1>1. BootInv => BootIsSound
  BY BootInvImplies DEF BootIsSound
<1>2. QED
  BY <1>1, BootAlways, PTL

\* No thread loses an entry another one made in the blacklist, a device without its framework is on it at the end, and no port is
\* issued twice, for any number of threads, devices and processes (device_blacklist.py, ports.py).
THEOREM LockedFilesStaySound == Spec => []LockedFilesAreSound
<1>1. FleetInv /\ PortsInv => LockedFilesAreSound
  BY FleetInvImplies DEF LockedFilesAreSound, PortsInv
<1>2. QED
  BY <1>1, FleetAlways, PortsAlways, PTL

\* What a context or a mode changed of the device is as before when it is left, whatever fails inside it (battery_utils.py,
\* flag_changer.py, shared_prefs.py, perf_control.py, thermal_throttle.py).
THEOREM ContextsAreUndone == Spec => []ContextsRestore
<1>1. BatteryInv /\ EnforceInv /\ PrefsInv /\ TuningInv => ContextsRestore
  BY BatteryInvImplies, EnforceInvImplies, PrefsInvImplies, TuningInvImplies DEF ContextsRestore
<1>2. QED
  BY <1>1, BatteryAlways, EnforceAlways, PrefsAlways, TuningAlways, PTL

\* No line of the log and no frame is recorded twice or out of order, through restarts of the recording, of the device and of its
\* counters (logcat_monitor.py, surface_stats_collector.py).
THEOREM RecordingsStaySound == Spec => []RecordingsAreSound
<1>1. LogcatInv /\ SurfaceInv => RecordingsAreSound
  BY LogcatInvImplies, SurfaceInvImplies DEF RecordingsAreSound
<1>2. QED
  BY <1>1, LogcatAlways, SurfaceAlways, PTL

\* After every AddFlags, RemoveFlags, ReplaceFlags and Restore the application reads exactly the flags that were asked for, through all
\* quoting: for any flags without a backslash, any file before and any depth of the stack, unless writing failed (flag_changer.py).
THEOREM FlagsComeBack == Spec => []FlagsAreRestored
<1>1. FlagInv => FlagsAreRestored
  BY FlagInvImplies DEF FlagsAreRestored
<1>2. QED
  BY <1>1, FlagAlways, PTL

\* Every variable of the part that runs has its type, for every value of the constants.
THEOREM ServicesTypesHold == Spec => []TypesHold
<1>1. BatteryInv /\ BootInv /\ FleetInv /\ FlagInv /\ PrefsInv /\ TuningInv /\ LogcatInv /\ SurfaceInv /\ PortsInv => TypesHold
  BY BatteryInvImplies, BootInvImplies, FleetInvImplies, FlagInvImplies, PrefsInvImplies, TuningInvImplies, LogcatInvImplies,
     SurfaceInvImplies DEF TypesHold, PortsInv
<1>2. QED
  BY <1>1, BatteryAlways, BootAlways, FleetAlways, FlagAlways, PrefsAlways, TuningAlways, LogcatAlways, SurfaceAlways, PortsAlways, PTL
=============================================================================
