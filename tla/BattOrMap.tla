------------------------------- MODULE BattOrMap -------------------------------
(***************************************************************************)
(* Finding the BattOr of a phone (battor_device_mapping.py over            *)
(* find_usb_devices.py).  What is plugged in is read by several commands,  *)
(* one after the other: lsusb for the kinds of devices, usb-devices for    *)
(* the tree, and ls /dev with udevadm for the serial lines.  Devices may   *)
(* be replugged in between: they then get another number and another tty.  *)
(***************************************************************************)
EXTENDS Naturals, FiniteSets, Functions

CONSTANTS Phones, BattOrs,
          Port,        \* the physical port of each device: a phone's hub and its BattOr's number them alike
          MaxNum,      \* bound on the device numbers
          MaxReplugs   \* bound on what is plugged in or out

MapAssumption == IsFiniteSet(BattOrs) /\ DOMAIN Port = Phones \union BattOrs /\ MaxReplugs \in Nat

VARIABLES num, tty,    \* of the devices that are plugged in: the device number, the serial line
          replugs, moved,  \* whether anything was plugged in or out since the lookup, or the file, was begun
          op, step, phone,
          kinds, tree,     \* what lsusb and usb-devices said: functions of device numbers
          map,         \* the serial map in use: a function of phones
          file, fileMoved,  \* the map file, and whether it was made while something moved
          result       \* a serial line, NoLine or Failed

vars == <<num, tty, replugs, moved, op, step, phone, kinds, tree, map, file, fileMoved, result>>
world == <<num, tty, replugs, moved>>
lookup == <<op, phone, file, fileMoved>>

Device == Phones \union BattOrs
Nothing == [n \in {} |-> 0]
Lines == 1..Cardinality(BattOrs)
NoLine == 0
Failed == Cardinality(BattOrs) + 1

TypeOK ==
  /\ DOMAIN num \subseteq Device /\ \A d \in DOMAIN num : num[d] \in 1..MaxNum
  /\ DOMAIN tty = DOMAIN num \intersect BattOrs /\ \A d \in DOMAIN tty : tty[d] \in Lines
  /\ replugs \in 0..MaxReplugs /\ moved \in BOOLEAN /\ fileMoved \in BOOLEAN
  /\ op \in {"none", "path", "file", "write"} /\ step \in {"idle", "kinds", "tree", "generate", "kinds2", "tree2", "list", "line"}
  /\ phone \in Phones /\ DOMAIN map \subseteq Device /\ DOMAIN file \subseteq Device
  /\ result \in 0..Failed

\* How the devices are numbered at first, and the BattOrs' lines.
Numberings == {f \in [Device -> 1..MaxNum] : IsInjective(f) /\ \A d \in BattOrs : f[d] > Cardinality(Phones)}
Wirings == {f \in [BattOrs -> Lines] : IsInjective(f)}

Init ==
  /\ num \in Numberings /\ tty \in Wirings
  /\ replugs = 0 /\ moved = FALSE /\ op = "none" /\ step = "idle" /\ phone \in Phones
  /\ kinds = Nothing /\ tree = Nothing /\ map = Nothing /\ file = Nothing /\ fileMoved = FALSE /\ result = NoLine

-----------------------------------------------------------------------------
(* Plugs *)

Rest(f, d) == [x \in DOMAIN f \ {d} |-> f[x]]
Plus(f, d, v) == [x \in DOMAIN f \union {d} |-> IF x = d THEN v ELSE f[x]]
Replug(d) ==
  /\ replugs < MaxReplugs /\ replugs' = replugs + 1 /\ moved' = TRUE
  /\ \/ d \in DOMAIN num /\ num' = Rest(num, d) /\ tty' = Rest(tty, d)
     \/ /\ d \notin DOMAIN num
        /\ \E n \in (1..MaxNum) \ Range(num) : num' = Plus(num, d, n)
        /\ IF d \in BattOrs THEN \E t \in Lines \ Range(tty) : tty' = Plus(tty, d, t) ELSE UNCHANGED tty
  /\ UNCHANGED <<step, kinds, tree, map, result, lookup>>

-----------------------------------------------------------------------------
(* The lookup *)

Numbers(set) == [n \in {num[d] : d \in DOMAIN num \intersect set} |-> CHOOSE d \in DOMAIN num : num[d] = n]
\* A node is a BattOr by what lsusb said of its number.
IsBattOr(n) == n \in DOMAIN kinds /\ kinds[n] \in BattOrs
\* A line whose number is not in the tree ends GetBattOrList with an exception.
AllInTree == \A d \in DOMAIN tty : num[d] \in DOMAIN tree
BattOrList == {d \in DOMAIN tty : IsBattOr(num[d])}
Serials == {tree[num[d]] : d \in BattOrList}

Ends(r) == step' = "idle" /\ result' = r
Begin(o, p) ==
  /\ step = "idle" /\ op' = o /\ phone' = p /\ result' = NoLine /\ moved' = FALSE
  /\ step' = (IF o = "file" THEN "kinds2" ELSE "kinds") /\ map' = (IF o = "file" THEN file ELSE Nothing)
  /\ UNCHANGED <<num, tty, replugs, kinds, tree, file, fileMoved>>
ReadKinds ==
  /\ step \in {"kinds", "kinds2"} /\ step' = (IF step = "kinds" THEN "tree" ELSE "tree2") /\ kinds' = Numbers(Device)
  /\ UNCHANGED <<world, tree, map, result, lookup>>
ReadTree ==
  /\ step \in {"tree", "tree2"} /\ step' = (IF step = "tree" THEN "generate" ELSE "list") /\ tree' = Numbers(Device)
  /\ UNCHANGED <<world, kinds, map, result, lookup>>

\* With one BattOr there is no map, and whatever else has a serial number is a phone.
On(q, set) == {d \in Range(tree) \intersect set : Port[d] = q}
AnyPair(b) == [p \in Range(tree) \ b |-> CHOOSE x \in b : TRUE]
Pairs(b) == [p \in Range(tree) \ b |-> CHOOSE x \in b : Port[x] = Port[p]]
Clash(b) == \E q \in Range(Port) : Cardinality(On(q, b)) > 1 \/ Cardinality(On(q, Device \ b)) > 1
                                  \/ (On(q, Device \ b) # {} /\ On(q, b) = {})
GenerateSerialMap ==
  /\ step = "generate"
  /\ IF ~AllInTree \/ (Cardinality(Serials) # 1 /\ Clash(Serials))
     THEN Ends(Failed) /\ UNCHANGED <<map, file, fileMoved>>
     ELSE /\ map' = IF Cardinality(Serials) = 1 THEN Nothing ELSE Pairs(Serials)
          /\ IF op = "write" THEN file' = map' /\ fileMoved' = moved /\ Ends(NoLine)
                             ELSE step' = "kinds2" /\ UNCHANGED <<file, fileMoved, result>>
  /\ UNCHANGED <<world, op, phone, kinds, tree>>

\* The only BattOr is the answer whatever the phone.
ListLines ==
  /\ step = "list"
  /\ \/ ~AllInTree /\ Ends(Failed)
     \/ /\ AllInTree /\ Cardinality(BattOrList) = 1 /\ Ends(tty[CHOOSE d \in BattOrList : TRUE])
     \/ /\ AllInTree /\ Cardinality(BattOrList) # 1
        /\ IF phone \in DOMAIN map /\ map[phone] \in Range(tree) THEN step' = "line" /\ UNCHANGED result ELSE Ends(Failed)
  /\ UNCHANGED <<world, kinds, tree, map, lookup>>
\* _PhoneToPathMap: the line that has the number which the BattOr had in the tree.
FindLine ==
  /\ step = "line"
  /\ LET n == CHOOSE k \in DOMAIN tree : tree[k] = map[phone]
         lines == {d \in DOMAIN tty : num[d] = n}
     IN IF lines = {} \/ ~IsBattOr(n) THEN Ends(Failed) ELSE Ends(tty[CHOOSE d \in lines : TRUE])
  /\ UNCHANGED <<world, kinds, tree, map, lookup>>

Next == \/ \E d \in Device : Replug(d)
        \/ \E o \in {"path", "file", "write"}, p \in Phones : Begin(o, p)
        \/ ReadKinds \/ ReadTree \/ GenerateSerialMap \/ ListLines \/ FindLine

Spec == Init /\ [][Next]_vars

-----------------------------------------------------------------------------
(* Properties *)

\* When nothing moved meanwhile, the line found is a BattOr's, and with several of them that of the phone's port.
LineIsOfPhone ==
  result \in Lines /\ ~moved /\ ~(op = "file" /\ fileMoved) =>
    \E d \in DOMAIN tty : result = tty[d] /\ (Cardinality(DOMAIN tty) > 1 => Port[d] = Port[phone])
=============================================================================
