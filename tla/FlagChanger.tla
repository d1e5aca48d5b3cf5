------------------------------ MODULE FlagChanger ------------------------------
(***************************************************************************)
(* Command line flags of an application on a device (devil's               *)
(* flag_changer.py): a stack of flag sets, the topmost of which is in a    *)
(* file of the device, and the context CustomCommandLineFlags around one   *)
(* replacement, which may have to make SELinux permissive.                 *)
(*                                                                         *)
(* A line of the file and a flag are sequences of characters: "a" stands   *)
(* for letters, digits, _ and -, "w" for white space, "q" and "s" for the  *)
(* two quotes, "b" for the backslash.                                      *)
(***************************************************************************)
EXTENDS Naturals, Sequences, SequencesExt

CONSTANTS Flags,    \* flags that callers set
          Lines,    \* what the file may hold beforehand
          MaxDepth  \* bound: levels of the stack

VARIABLES file,       \* the line in the file, <<>> if there is no file
          stack,      \* _state_stack
          asked,      \* the flags each level was to have, the lowest being what was there
          enforcing,  \* of SELinux
          needs,      \* needs_permissive
          phase,
          failed      \* which commands failed since the device was as it should be

vars == <<file, stack, asked, enforcing, needs, phase, failed>>

-----------------------------------------------------------------------------
(* The line *)

Char == {"a", "=", "w", "q", "s", "b"}

Escaped(s) == FlattenSeq([i \in DOMAIN s |-> IF s[i] = "q" THEN <<"b", "q">> ELSE <<s[i]>>])
Quoted(s) == <<"q">> \o Escaped(s) \o <<"q">>
NeedsQuoting(s) == \E i \in DOMAIN s : s[i] # "a"

QuoteUnescaped(flag) == IF flag = <<>> \/ NeedsQuoting(flag) THEN <<"q">> \o flag \o <<"q">> ELSE flag
QuoteFlag(flag) ==
  LET eq == SelectInSeq(flag, LAMBDA c : c = "=")
      key == IF eq = 0 THEN flag ELSE SubSeq(flag, 1, eq - 1)
      value == SubSeq(flag, eq + 1, Len(flag)) IN
  IF flag = <<>> \/ NeedsQuoting(key) THEN Quoted(flag)
  ELSE IF eq = 0 THEN key
  ELSE key \o <<"=">> \o IF NeedsQuoting(value) THEN Quoted(value) ELSE value

SerializeFlags(flags) ==
  IF flags = {} THEN <<>>
  ELSE FlattenSeq(<<<<"a">>>> \o [i \in 1..Len(SetToSeq(flags)) |-> <<"w">> \o QuoteFlag(SetToSeq(flags)[i])])

\* One character: whether it begins or ends a quotation, separates flags or belongs to one.  The name of the program is no flag.
Character(st, c) ==
  IF (st.quote = "none" /\ c \in {"q", "s"}) \/ c = st.quote
  THEN IF st.cur # <<>> /\ Last(st.cur) = "b" THEN [st EXCEPT !.cur = Front(@) \o <<c>>]
       ELSE [st EXCEPT !.quote = IF @ = "none" THEN c ELSE "none"]
  ELSE IF st.quote = "none" /\ c = "w"
  THEN IF st.cur = <<>> THEN st ELSE [st EXCEPT !.flags = Append(@, st.cur), !.cur = <<>>]
  ELSE [st EXCEPT !.cur = Append(@, c)]
Read(begin, line) ==
  LET after[n \in 0..Len(line)] == IF n = 0 THEN begin ELSE Character(after[n - 1], line[n]) IN after[Len(line)]
ParseFlags(line) ==
  LET end == Read([flags |-> <<>>, quote |-> "none", cur |-> <<>>], line)
      all == IF end.cur = <<>> THEN end.flags ELSE Append(end.flags, end.cur) IN
  ToSet(IF all = <<>> THEN <<>> ELSE Tail(all))

Shown == ParseFlags(file)

\* _QuoteFlag escapes quotes and no backslash, so that one at the end of a flag escapes the closing quote; the empty flag is dropped.
\* Every other flag can be read back, backslashes before quotes and blanks included.
Parseable == {flag \in Seq(Char) : flag # <<>> /\ Last(flag) # "b"}
FlagsAssumption ==
  /\ Flags \subseteq Parseable /\ MaxDepth \in Nat \ {0, 1}
  /\ \A line \in Lines : line \in Seq(Char) /\ ParseFlags(line) \subseteq Parseable

-----------------------------------------------------------------------------
(* The stack *)

TypeOK ==
  /\ file \in Seq(Char)
  /\ Len(stack) <= MaxDepth /\ Len(asked) = Len(stack)
  /\ enforcing \in BOOLEAN /\ needs \in BOOLEAN
  /\ phase \in {"out", "construct", "replace", "in", "restore", "enforce", "direct"}
  /\ failed \subseteq {"write", "enforce"}

Init ==
  /\ file \in Lines /\ stack = <<>> /\ asked = <<>>
  /\ enforcing = TRUE /\ needs = FALSE
  /\ phase = "out" /\ failed = {}

\* The file is written or removed; the topmost level becomes what is read back.  A command that fails leaves the level as it was meant.
Update(levels, wanted, next, onError) ==
  LET line == SerializeFlags(Last(levels)) IN
    \/ /\ file' = line /\ stack' = Front(levels) \o <<ParseFlags(line)>> /\ asked' = wanted
       /\ phase' = next /\ UNCHANGED failed
    \/ /\ file' \in {file, line} /\ stack' = levels /\ asked' = wanted
       /\ phase' = onError /\ failed' = failed \union {"write"}

Construct(next) == stack' = <<Shown>> /\ asked' = <<Shown>> /\ phase' = next

ReplaceFlags(flags, next, onError) == Update(Append(stack, flags), Append(asked, flags), next, onError)

Restore(next) == Len(stack) > 1 /\ Update(Front(stack), Front(asked), next, next)

\* A FlagChanger of its own: AddFlags, RemoveFlags and ReplaceFlags.
Direct ==
  \/ /\ phase = "out" /\ Construct("direct") /\ failed' = failed \ {"write"} /\ UNCHANGED file
  \/ /\ phase = "direct" /\ Len(stack) < MaxDepth
     /\ \E f \in Flags : \E flags \in {Last(stack) \union {f}, Last(stack) \ {f}, {f}} : ReplaceFlags(flags, "direct", "direct")
  \/ /\ phase = "direct" /\ Restore("direct")
  \/ /\ phase = "direct" /\ Len(stack) = 1
     /\ stack' = <<>> /\ asked' = <<>> /\ phase' = "out" /\ UNCHANGED <<file, failed>>

\* CustomCommandLineFlags.
Enter ==
  /\ phase = "out" /\ needs' = enforcing
  /\ \/ enforcing' = FALSE /\ phase' = "construct" /\ failed' = failed \ {"write"}
     \/ enforcing /\ enforcing' \in BOOLEAN /\ phase' = "out" /\ failed' = failed \union {"enforce"}
  /\ UNCHANGED <<file, stack, asked>>
Make ==
  /\ phase = "construct"
  /\ \/ Construct("replace")
     \/ phase' = "enforce" /\ UNCHANGED <<stack, asked>>
  /\ UNCHANGED <<file, enforcing, needs, failed>>
Replace == phase = "replace" /\ (\E f \in Flags : ReplaceFlags({f}, "in", "restore")) /\ UNCHANGED <<enforcing, needs>>
Leave == phase = "in" /\ phase' = "restore" /\ UNCHANGED <<file, stack, asked, enforcing, needs, failed>>
Undo == phase = "restore" /\ Restore("enforce") /\ UNCHANGED <<enforcing, needs>>
EnforceForgotten ==
  /\ phase = "enforce" /\ phase' = "out" /\ UNCHANGED failed
  /\ enforcing' = (enforcing \/ (needs /\ "write" \notin failed))
  /\ stack' = <<>> /\ asked' = <<>>
  /\ UNCHANGED <<file, needs>>
Enforce ==
  /\ phase = "enforce" /\ phase' = "out"
  /\ \/ enforcing' = (enforcing \/ needs) /\ UNCHANGED failed
     \/ needs /\ UNCHANGED enforcing /\ failed' = failed \union {"enforce"}
  /\ stack' = <<>> /\ asked' = <<>>
  /\ UNCHANGED <<file, needs>>

DirectStep == Direct /\ UNCHANGED <<enforcing, needs>>
Next == DirectStep \/ Enter \/ Make \/ Replace \/ Leave \/ Undo \/ Enforce

Spec == Init /\ [][Next]_vars

-----------------------------------------------------------------------------
(* Properties *)

\* As long as every write succeeded, the application reads exactly the flags that were asked for, through all quoting, and after a
\* Restore those of the level below.
FlagsRestored == stack # <<>> /\ "write" \notin failed => Shown = Last(asked)

\* SELinux enforces again after the context, however its body and the writes ended, unless the command that sets it failed.
EnforcingRestored == phase = "out" /\ "enforce" \notin failed => enforcing
=============================================================================
