------------------------- MODULE ComplaintDelivery -------------------------
(***************************************************************************)
(* What the application promises for a complaint saved offline, whatever   *)
(* the screens, the network and the process do: it stays queued until the  *)
(* user gives it up or the server has created it at least once, and only   *)
(* what was saved is ever created.  OfflineQueue implements this.          *)
(***************************************************************************)
EXTENDS Naturals

CONSTANT Complaint

VARIABLES
  status,     \* what became of each complaint
  created     \* how many times the server created it

vars == <<status, created>>

Init ==
  /\ status = [c \in Complaint |-> "unsaved"]
  /\ created = [c \in Complaint |-> 0]

Save(c) ==
  /\ status[c] = "unsaved"
  /\ status' = [status EXCEPT ![c] = "queued"]
  /\ UNCHANGED created

\* At least once: a retry may create the complaint again, and one on its way
\* may arrive after the complaint was given up.
Create(c) ==
  /\ status[c] # "unsaved"
  /\ created' = [created EXCEPT ![c] = @ + 1]
  /\ UNCHANGED status

Deliver(c) ==
  /\ status[c] = "queued"
  /\ created[c] > 0
  /\ status' = [status EXCEPT ![c] = "delivered"]
  /\ UNCHANGED created

\* The user cancels one complaint, or logs out and leaves all of them.
Withdraw(S) ==
  /\ \A c \in S : status[c] # "unsaved"
  /\ status' = [c \in Complaint |-> IF c \in S THEN "withdrawn" ELSE status[c]]
  /\ UNCHANGED created

Next ==
  \/ \E c \in Complaint : Save(c) \/ Create(c) \/ Deliver(c)
  \/ \E S \in SUBSET Complaint : Withdraw(S)

Spec == Init /\ [][Next]_vars
=============================================================================
