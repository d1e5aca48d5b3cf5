------------------------------- MODULE DeviceBoot -------------------------------
(***************************************************************************)
(* Restarting, rooting and flashing one device (DeviceUtils of devil, its  *)
(* fastboot_utils.py and the adb and fastboot commands they use).          *)
(*                                                                         *)
(* An operation is a row of commands and conditions to wait for, while the *)
(* device goes through its boot, dies or restarts by itself.  Any command  *)
(* may fail, obeyed or not; a decorated method around it then begins       *)
(* again, or the error reaches the caller.                                 *)
(***************************************************************************)
EXTENDS Naturals, Sequences

CONSTANTS FlashRows,  \* what a set of images asks for: "flash" for each, followed by "again", "fastboot" if the bootloader restarts
          MaxBoots    \* bound: boots of the device

BootAssumption == FlashRows \subseteq Seq({"flash", "again", "fastboot"}) /\ MaxBoots \in Nat

VARIABLES stage,    \* of the device
          next,     \* whether the boot under way ends in the bootloader
          boots,    \* boots so far
          rooted,   \* whether adbd runs as root
          offModeCharge,  \* a setting of the bootloader
          needsSu,  \* _cache['needs_su']
          op, images, pos,  \* the current or last operation, what it flashes, and its place in its row (0: it is over)
          result,   \* of the operation
          before,   \* boots when it began
          trouble   \* what went wrong so far that no operation could have noticed or repaired

vars == <<stage, next, boots, rooted, offModeCharge, needsSu, op, images, pos, result, before, trouble>>
device == <<stage, next, boots, rooted, offModeCharge>>
caller == <<op, images, pos, result, before>>

\* "dying" has been told to restart and still answers as before.
Up == {"adb", "sd", "pm", "up"}
Answers == stage \in Up \union {"dying"}
Operation == {"none", "WaitUntilFullyBooted", "Reboot", "EnableRoot", "FlashDevice", "FlashAndWipe"}

TypeOK ==
  /\ stage \in Up \union {"off", "dying", "fastboot"} /\ next \in BOOLEAN /\ boots \in 0..MaxBoots /\ rooted \in BOOLEAN
  /\ offModeCharge \in BOOLEAN
  /\ needsSu \in {"unknown", "yes", "no"}
  /\ op \in Operation /\ images \in FlashRows /\ pos \in Nat
  /\ result \in {"none", "done", "raised"} /\ before \in 0..MaxBoots
  /\ trouble \subseteq {"hiccup", "restart", "raised"}

Init ==
  /\ stage = "up" /\ next = FALSE /\ boots = 0 /\ rooted = FALSE /\ offModeCharge = TRUE
  /\ needsSu = "unknown"
  /\ op = "none" /\ images \in FlashRows /\ pos = 0 /\ result = "none" /\ before = 0
  /\ trouble = {}

-----------------------------------------------------------------------------
(* The device *)

\* The end of a shutdown, and the stages of a boot.
BootGoesOn ==
  /\ \/ stage = "dying" /\ stage' = "off" /\ UNCHANGED <<next, boots, rooted>>
     \/ /\ stage = "off" /\ boots < MaxBoots
        /\ boots' = boots + 1 /\ rooted' = FALSE /\ next' = FALSE
        /\ stage' = IF next THEN "fastboot" ELSE "adb"
     \/ /\ \/ stage = "adb" /\ stage' = "sd"
           \/ stage = "sd" /\ stage' = "pm"
           \/ stage = "pm" /\ stage' = "up"
        /\ UNCHANGED <<next, boots, rooted>>
  /\ UNCHANGED <<offModeCharge, needsSu, caller, trouble>>

RestartsByItself ==
  /\ stage \in Up /\ stage' = "off" /\ next' = FALSE
  /\ trouble' = trouble \union {"restart"}
  /\ UNCHANGED <<boots, rooted, offModeCharge, needsSu, caller>>

-----------------------------------------------------------------------------
(* The operations as rows. *)

WaitUntilFullyBooted == <<"device", "sd", "pm", "up">>
RebootAtOnce == <<"reboot", "clear">> \o WaitUntilFullyBooted
RebootUncleared == <<"reboot", "offline">> \o WaitUntilFullyBooted
Reboot == <<"reboot", "clear", "offline">> \o WaitUntilFullyBooted
EnableRoot == <<"forget", "root", "rooted">>

\* FastbootMode around the flashing.
EnableFastbootMode == EnableRoot \o <<"bootloader", "fastboot">>
LeaveFastbootUncharged(wipe) == <<"restart">> \o IF wipe THEN <<>> ELSE WaitUntilFullyBooted
LeaveFastboot(wipe) == <<"chargeOn", "restart">> \o IF wipe THEN <<>> ELSE WaitUntilFullyBooted

Flashing == op \in {"FlashDevice", "FlashAndWipe"}
Leave == LeaveFastboot(op = "FlashAndWipe")
Row ==
  CASE op = "WaitUntilFullyBooted" -> WaitUntilFullyBooted
    [] op = "Reboot" -> Reboot
    [] op = "EnableRoot" -> EnableRoot
    [] OTHER -> EnableFastbootMode \o <<"chargeOff">> \o images \o Leave

\* The commands a method that is tried again consists of, named by its first.  fastboot's own flash and reboot are never tried again.
Method(c) ==
  CASE c = "device" -> {"device", "sd", "pm", "up"}
    [] c = "reboot" -> {"reboot", "clear", "offline", "device", "sd", "pm", "up"}
    [] c = "forget" -> {"forget", "root", "rooted", "bootloader", "fastboot"}
    [] c = "again" -> {"again", "fastboot"}
    [] c = "restart" -> {"restart", "device", "sd", "pm", "up"}
    [] c \in {"root", "bootloader", "fastboot", "chargeOff", "chargeOn"} -> {c}
    [] OTHER -> {}
RetryFrom == {q \in 1..pos : \A r \in q..pos : Row[r] \in Method(Row[q])}

-----------------------------------------------------------------------------
(* What a command does. *)

\* When a command can be obeyed, a condition met.
Met(c) ==
  CASE c = "offline" -> ~Answers
    [] c \in {"device", "reboot", "bootloader", "root"} -> Answers
    [] c = "sd" -> stage \in {"sd", "pm", "up", "dying"}
    [] c = "pm" -> stage \in {"pm", "up", "dying"}
    [] c = "up" -> stage \in {"up", "dying"}
    [] c = "rooted" -> Answers /\ rooted
    [] c \in {"fastboot", "flash", "chargeOff", "chargeOn", "again", "restart"} -> stage = "fastboot"
    [] OTHER -> TRUE

Obeys(c) ==
  CASE c \in {"reboot", "bootloader"} ->
         stage' = "dying" /\ next' = (c = "bootloader") /\ UNCHANGED <<boots, rooted, offModeCharge>>
    [] c \in {"again", "restart"} -> stage' = "off" /\ next' = (c = "again") /\ UNCHANGED <<boots, rooted, offModeCharge>>
    [] c = "root" -> rooted' = TRUE /\ UNCHANGED <<stage, next, boots, offModeCharge>>
    [] c \in {"chargeOff", "chargeOn"} -> offModeCharge' = (c = "chargeOn") /\ UNCHANGED <<stage, next, boots, rooted>>
    [] OTHER -> UNCHANGED device

Call(o) ==
  /\ pos = 0
  /\ op' = o /\ pos' = 1 /\ result' = "none" /\ before' = boots
  /\ UNCHANGED <<device, images, needsSu, trouble>>

\* IsOnline takes any error of adb for an absent device.
Step ==
  /\ pos > 0
  /\ LET c == Row[pos] IN
       /\ Met(c) \/ c = "offline"
       /\ trouble' = IF Met(c) THEN trouble ELSE trouble \union {"hiccup"}
       /\ Obeys(c)
       /\ needsSu' = IF c \in {"clear", "forget"} THEN "unknown" ELSE needsSu
  /\ IF pos < Len(Row) THEN pos' = pos + 1 /\ UNCHANGED result
     ELSE pos' = 0 /\ result' = IF result = "none" THEN "done" ELSE result
  /\ UNCHANGED <<op, images, before>>

\* An error or the end of a timeout.  One inside the context leads to its end, and is raised after it.
InContext == Flashing /\ pos > Len(EnableFastbootMode) + 1 /\ pos <= Len(Row) - Len(Leave)
Fails ==
  /\ pos > 0 /\ Row[pos] \notin {"clear", "forget"}
  /\ \/ UNCHANGED device
     \/ Met(Row[pos]) /\ Obeys(Row[pos])
  /\ \/ pos' \in RetryFrom /\ UNCHANGED <<result, trouble>>
     \/ InContext /\ pos' = Len(Row) - Len(Leave) + 1 /\ result' = "raised" /\ UNCHANGED trouble
     \/ ~InContext /\ pos' = 0 /\ result' = "raised" /\ trouble' = trouble \union {"raised"}
  /\ UNCHANGED <<op, images, before, needsSu>>

\* Any command with as_root=True: NeedsSU finds out once whether su is needed.
NeedsSU ==
  /\ pos = 0 /\ Answers /\ needsSu = "unknown"
  /\ needsSu' = IF rooted THEN "no" ELSE "yes"
  /\ UNCHANGED <<device, caller, trouble>>

Next ==
  \/ BootGoesOn \/ RestartsByItself \/ Step \/ Fails \/ NeedsSU
  \/ \E o \in Operation \ {"none"} : Call(o)

Spec == Init /\ [][Next]_vars

-----------------------------------------------------------------------------
(* Properties *)

\* A Reboot that returned has restarted the device, which is what waiting for its absence is for: a device that is shutting down still
\* meets the conditions of a full boot.
RebootIsReal == op = "Reboot" /\ result = "done" => before < boots \/ "hiccup" \in trouble

\* Commands are run without su only while adbd runs as root, through restarts, rooting and flashing, as long as every error was made
\* good by a retry and the device never restarted by itself.
RootIsKnown == pos = 0 /\ needsSu = "no" /\ trouble = {} => rooted

\* However the flashing ended, the device is out of the bootloader and charges in it as before, unless an error came from entering or
\* leaving the mode itself.
BootloaderIsLeft == pos = 0 /\ "raised" \notin trouble => offModeCharge /\ stage # "fastboot" /\ ~next
=============================================================================
