-------------------------- MODULE OfflineQueueProofs --------------------------
(***************************************************************************)
(* Theorems about OfflineQueue, for any complaints, view holders, calls    *)
(* and bound: type correctness, the uniqueness of the keys that makes the  *)
(* lookup of deleteComplaint safe, that no saved complaint is lost, that   *)
(* the list shows no more copies than the server created, that the queue   *)
(* implements ComplaintDelivery and never posts a deleted complaint, and   *)
(* that the named events are the only ones by which the server gets a      *)
(* complaint twice.                                                        *)
(***************************************************************************)
EXTENDS OfflineQueue, FiniteSetTheorems, TLAPS

\* The keys offered to a new row are positive and larger than every key in use.
LEMMA NextIdsFresh ==
  ASSUME id \in [Complaint -> Nat], NEW n \in NextIds
  PROVE  /\ n \in Nat \ {0}
         /\ \A c \in Complaint : id[c] < n
BY DEF NextIds

\* Deleting a row keeps the table well typed.
LEMMA DeleteTyped ==
  ASSUME id \in [Complaint -> Nat], NEW c, DeleteComplaint(c)
  PROVE  id' \in [Complaint -> Nat]
BY DEF DeleteComplaint

\* The initial state is well typed.
LEMMA InitTyped == Init => TypeOK
<1> SUFFICES ASSUME Init PROVE TypeOK
  OBVIOUS
<1> USE NoComplaintAssumption, MaxAcceptedAssumption DEF Init, TypeOK, Stage
<1>1. running \in BOOLEAN
  OBVIOUS
<1>2. /\ accepted \in [Complaint -> 0..MaxAccepted]
      /\ id \in [Complaint -> Nat] /\ history \in [Complaint -> Nat]
  OBVIOUS
<1>3. QED
  BY <1>1, <1>2

\* Every variable keeps its type, and exactly the calls in progress have a row.
THEOREM TypeCorrect == Spec => []TypeOK
<1>1. Init => TypeOK
  BY InitTyped
<1>2. TypeOK /\ [Next]_vars => TypeOK'
  <2> SUFFICES ASSUME TypeOK, [Next]_vars PROVE TypeOK'
    OBVIOUS
  <2> USE NoComplaintAssumption DEF TypeOK, Stage, stored, ui
  <2>1. ASSUME ProcessDies PROVE TypeOK'
    <3> USE <2>1 DEF ProcessDies, SetAdapter
    <3>1. excused' \in SUBSET Complaint
      BY DEF Outstanding
    <3>2. stage' \in [Call -> Stage] /\ item' \in [Call -> Complaint \cup {NoComplaint}]
      OBVIOUS
    <3>3. \A k \in Call : item'[k] = NoComplaint <=> stage'[k] = "idle"
      OBVIOUS
    <3>4. running' \in BOOLEAN
      OBVIOUS
    <3>5. bound' \in [Holder -> Complaint \cup {NoComplaint}]
      OBVIOUS
    <3>6. QED
      BY <3>1, <3>2, <3>3, <3>4, <3>5
  <2>2. UNCHANGED vars => TypeOK'
    BY DEF vars
  <2>3. ASSUME NEW c \in Complaint, SaveOffline(c) PROVE TypeOK'
    BY <2>3, NextIdsFresh DEF SaveOffline
  <2>4. OnCreateView => TypeOK'
    BY DEF OnCreateView, SetAdapter, Queued
  <2>5. OnChange => TypeOK'
    BY DEF OnChange, SetAdapter, Queued
  <2>6. Logout => TypeOK'
    BY DEF Logout, SetAdapter
  <2>7. ASSUME NEW h \in Holder, CancelClick(h) PROVE TypeOK'
    <3>1. CASE ProcessDies
      BY <3>1, <2>1
    <3>2. CASE DeleteComplaint(bound[h])
      BY <2>7, <3>1, <3>2, DeleteTyped DEF CancelClick
    <3>3. QED
      BY <2>7, <3>1, <3>2 DEF CancelClick
  <2>8. ASSUME NEW h \in Holder, RetryClickOffline(h) PROVE TypeOK'
    BY <2>8 DEF RetryClickOffline
  <2>9. ASSUME NEW h \in Holder, NEW k \in Call, RetryClick(h, k) PROVE TypeOK'
    BY <2>9, <2>1 DEF RetryClick, SetUnclickable
  <2>10. ASSUME NEW h \in Holder, NEW c \in Complaint, OnBindViewHolder(h, c)
         PROVE TypeOK'
    BY <2>10, <2>1 DEF OnBindViewHolder
  <2>11. ASSUME NEW k \in Call, BisagNear(k) PROVE TypeOK'
    BY <2>11 DEF BisagNear, MoveCall, EndCall
  <2>12. ASSUME NEW k \in Call, BisagFarOrFailed(k) PROVE TypeOK'
    BY <2>12 DEF BisagFarOrFailed, EndCall
  <2>13. ASSUME NEW k \in Call, PostReply(k) PROVE TypeOK'
    BY <2>13 DEF PostReply, MoveCall, EndCall
  <2>14. ASSUME NEW k \in Call, PostFailure(k) PROVE TypeOK'
    BY <2>14 DEF PostFailure, MoveCall, EndCall, Outstanding
  <2>15. ASSUME NEW k \in Call, CopyToRealm(k) PROVE TypeOK'
    BY <2>15 DEF CopyToRealm, MoveCall
  <2>16. ASSUME NEW k \in Call, CopySuccess(k) PROVE TypeOK'
    <3>1. CASE ProcessDies
      BY <3>1, <2>1
    <3>2. CASE DeleteComplaint(item[k])
      BY <2>16, <3>1, <3>2, DeleteTyped DEF CopySuccess, EndCall
    <3>3. QED
      BY <2>16, <3>1, <3>2 DEF CopySuccess
  <2>17. ASSUME NEW k \in Call, ServerAccepts(k) PROVE TypeOK'
    BY <2>17, MaxAcceptedAssumption DEF ServerAccepts, MoveCall, EndCall
  <2>18. ASSUME NEW k \in Call, ServerRefuses(k) PROVE TypeOK'
    BY <2>18 DEF ServerRefuses, MoveCall, EndCall
  <2>19. QED
    BY <2>1, <2>2, <2>3, <2>4, <2>5, <2>6, <2>7, <2>8, <2>9, <2>10, <2>11,
       <2>12, <2>13, <2>14, <2>15, <2>16, <2>17, <2>18
    DEF Next, User, Device, Callback, Server, Kill, BisagEmpty
<1>3. QED
  BY <1>1, <1>2, PTL DEF Spec

-----------------------------------------------------------------------------
\* What the callbacks of a retry know of its row. A row exists for saved
\* complaints only; an answer that says "accepted" was given by the server; the
\* onSuccess of the copy runs after the copy, which only a logout undoes.
CallsKnow ==
  /\ Queued \subseteq saved
  /\ \A k \in Call : stage[k] # "idle" => item[k] \in saved
  /\ \A k \in Call :
       stage[k] \in {"accepted", "copying", "copied"} => accepted[item[k]] > 0
  /\ \A k \in Call :
       stage[k] = "copied" => history[item[k]] > 0 \/ item[k] \in withdrawn

\* The inductive invariant: NeverLost needs CallsKnow at the moment CopySuccess
\* deletes, and UniqueIds to know which row it deletes.
DeliveryInv == TypeOK /\ CallsKnow /\ UniqueIds /\ NeverLost

\* With unique keys, deleteComplaint deletes the row it was called for.
LEMMA DeletesOwnRow ==
  ASSUME TypeOK, UniqueIds, NEW c \in Complaint, DeleteComplaint(c)
  PROVE  /\ id' = [id EXCEPT ![c] = 0]
         /\ id[c] # 0
BY DEF DeleteComplaint, UniqueIds, Queued, TypeOK

\* The death of the process loses calls and the screen, nothing that is stored.
LEMMA DeathKeeps ==
  ASSUME DeliveryInv, TypeOK', ProcessDies
  PROVE  DeliveryInv'
<1> USE DEF DeliveryInv, ProcessDies, stored
<1>1. CallsKnow'
  BY DEF CallsKnow, Queued, TypeOK
<1>2. UniqueIds'
  BY DEF UniqueIds, Queued
<1>3. NeverLost'
  BY DEF NeverLost
<1>4. QED
  BY <1>1, <1>2, <1>3

\* Every step of the queue keeps the invariant.
LEMMA DeliveryInvStep ==
  ASSUME DeliveryInv, TypeOK', [Next]_vars
  PROVE  DeliveryInv'
<1> USE NoComplaintAssumption DEF DeliveryInv, stored, ui
<1>1. ASSUME ProcessDies PROVE DeliveryInv'
  BY <1>1, DeathKeeps
<1>2. ASSUME UNCHANGED <<stored, stage, item>> PROVE DeliveryInv'
  BY <1>2 DEF CallsKnow, UniqueIds, NeverLost, Queued
<1>3. ASSUME NEW c \in Complaint, SaveOffline(c) PROVE DeliveryInv'
  <2>1. PICK n \in NextIds : id' = [id EXCEPT ![c] = n]
    BY <1>3 DEF SaveOffline
  <2>2. n \in Nat \ {0} /\ \A d \in Complaint : id[d] < n
    BY NextIdsFresh DEF TypeOK
  <2>3. UNCHANGED <<history, accepted, withdrawn, stage, item>> /\ saved' = saved \cup {c}
    BY <1>3 DEF SaveOffline
  <2>4. CallsKnow'
    BY <2>1, <2>2, <2>3 DEF CallsKnow, Queued, TypeOK
  <2>5. UniqueIds'
    BY <2>1, <2>2 DEF UniqueIds, Queued, TypeOK
  <2>6. NeverLost'
    BY <2>1, <2>2, <2>3 DEF NeverLost, TypeOK
  <2>7. QED
    BY <2>4, <2>5, <2>6
<1>4. ASSUME Logout PROVE DeliveryInv'
  BY <1>4 DEF Logout, CallsKnow, UniqueIds, NeverLost, Queued, TypeOK
<1>5. ASSUME NEW h \in Holder, CancelClick(h) PROVE DeliveryInv'
  <2>1. CASE ProcessDies
    BY <2>1, <1>1
  <2>2. CASE /\ DeleteComplaint(bound[h])
             /\ withdrawn' = withdrawn \cup {bound[h]}
             /\ UNCHANGED <<history, accepted, saved, stage, item>>
    <3>1. bound[h] \in Complaint
      BY <1>5 DEF CancelClick, TypeOK
    <3>2. id' = [id EXCEPT ![bound[h]] = 0]
      BY <2>2, <3>1, DeletesOwnRow
    <3>3. CallsKnow'
      BY <2>2, <3>1, <3>2 DEF CallsKnow, Queued, TypeOK
    <3>4. UniqueIds'
      BY <3>1, <3>2 DEF UniqueIds, Queued, TypeOK
    <3>5. NeverLost'
      BY <2>2, <3>1, <3>2 DEF NeverLost, TypeOK
    <3>6. QED
      BY <3>3, <3>4, <3>5
  <2>3. QED
    BY <1>5, <2>1, <2>2 DEF CancelClick
<1>6. ASSUME NEW k \in Call, CopySuccess(k) PROVE DeliveryInv'
  <2>1. CASE ProcessDies
    BY <2>1, <1>1
  <2>2. CASE /\ DeleteComplaint(item[k])
             /\ EndCall(k)
             /\ UNCHANGED <<history, accepted, saved, withdrawn>>
    <3>1. stage[k] = "copied" /\ item[k] \in Complaint
      BY <1>6 DEF CopySuccess, TypeOK
    <3>2. id' = [id EXCEPT ![item[k]] = 0]
      BY <2>2, <3>1, DeletesOwnRow
    <3>3. CallsKnow'
      BY <2>2, <3>1, <3>2 DEF CallsKnow, Queued, TypeOK, EndCall
    <3>4. UniqueIds'
      BY <3>1, <3>2 DEF UniqueIds, Queued, TypeOK
    <3>5. NeverLost'
      BY <2>2, <3>1, <3>2 DEF NeverLost, TypeOK, CallsKnow
    <3>6. QED
      BY <3>3, <3>4, <3>5
  <2>3. QED
    BY <1>6, <2>1, <2>2 DEF CopySuccess
<1>7. ASSUME NEW k \in Call, UNCHANGED stored,
             \/ EndCall(k)
             \/ MoveCall(k, "orphan")
             \/ MoveCall(k, "sent")
             \/ MoveCall(k, "refused")
             \/ MoveCall(k, "copying") /\ stage[k] = "accepted",
             stage[k] # "idle"
      PROVE DeliveryInv'
  <2>1. CallsKnow'
    BY <1>7 DEF CallsKnow, Queued, TypeOK, EndCall, MoveCall
  <2>2. UniqueIds' /\ NeverLost'
    BY <1>7 DEF UniqueIds, NeverLost, Queued
  <2>3. QED
    BY <2>1, <2>2
<1>8. ASSUME NEW h \in Holder, NEW k \in Call, RetryClick(h, k) PROVE DeliveryInv'
  <2>1. CASE ProcessDies
    BY <2>1, <1>1
  <2>2. CASE /\ id[bound[h]] # 0
             /\ stage' = [stage EXCEPT ![k] = "bisag"]
             /\ item' = [item EXCEPT ![k] = bound[h]]
             /\ UNCHANGED stored
    <3>1. bound[h] \in saved
      BY <1>8, <2>2 DEF RetryClick, CallsKnow, Queued, TypeOK
    <3>2. CallsKnow'
      BY <2>2, <3>1 DEF CallsKnow, Queued, TypeOK
    <3>3. UniqueIds' /\ NeverLost'
      BY <2>2 DEF UniqueIds, NeverLost, Queued
    <3>4. QED
      BY <3>2, <3>3
  <2>3. QED
    BY <1>8, <2>1, <2>2 DEF RetryClick
<1>9. ASSUME NEW k \in Call, CopyToRealm(k) PROVE DeliveryInv'
  <2>1. CallsKnow'
    BY <1>9 DEF CopyToRealm, MoveCall, CallsKnow, Queued, TypeOK
  <2>2. UniqueIds'
    BY <1>9 DEF CopyToRealm, UniqueIds, Queued
  <2>3. NeverLost'
    BY <1>9 DEF CopyToRealm, NeverLost, TypeOK
  <2>4. QED
    BY <2>1, <2>2, <2>3
<1>10. ASSUME NEW k \in Call, ServerAccepts(k) PROVE DeliveryInv'
  <2>1. item[k] \in Complaint
    BY <1>10 DEF ServerAccepts, TypeOK
  <2>2. CallsKnow'
    BY <1>10, <2>1 DEF ServerAccepts, MoveCall, EndCall, CallsKnow, Queued, TypeOK
  <2>3. UniqueIds'
    BY <1>10 DEF ServerAccepts, UniqueIds, Queued
  <2>4. NeverLost'
    BY <1>10, <2>1 DEF ServerAccepts, NeverLost, TypeOK
  <2>5. QED
    BY <2>2, <2>3, <2>4
<1>11. ASSUME NEW k \in Call,
              BisagNear(k) \/ BisagFarOrFailed(k) \/ PostReply(k)
                \/ PostFailure(k) \/ ServerRefuses(k)
       PROVE DeliveryInv'
  <2>1. stage[k] # "idle" /\ UNCHANGED stored
    BY <1>11 DEF BisagNear, BisagFarOrFailed, PostReply, PostFailure, ServerRefuses
  <2>2. \/ EndCall(k)
        \/ MoveCall(k, "orphan")
        \/ MoveCall(k, "sent")
        \/ MoveCall(k, "refused")
        \/ MoveCall(k, "copying") /\ stage[k] = "accepted"
    BY <1>11 DEF BisagNear, BisagFarOrFailed, PostReply, PostFailure, ServerRefuses
  <2>3. QED
    BY <1>7, <2>1, <2>2
<1>12. ASSUME NEW h \in Holder, NEW c \in Complaint, OnBindViewHolder(h, c)
       PROVE DeliveryInv'
  BY <1>1, <1>2, <1>12 DEF OnBindViewHolder
<1>13. OnCreateView \/ OnChange \/ UNCHANGED vars => DeliveryInv'
  BY <1>2 DEF OnCreateView, OnChange, vars
<1>14. ASSUME NEW h \in Holder, RetryClickOffline(h) PROVE DeliveryInv'
  BY <1>2, <1>14 DEF RetryClickOffline
<1>15. QED
  BY <1>1, <1>3, <1>4, <1>5, <1>6, <1>8, <1>9, <1>10, <1>11, <1>12, <1>13, <1>14
  DEF Next, User, Device, Callback, Server, Kill, BisagEmpty

\* Every reachable state satisfies the inductive invariant.
THEOREM DeliveryInvariant == Spec => []DeliveryInv
<1>1. Init => DeliveryInv
  <2> SUFFICES ASSUME Init PROVE DeliveryInv
    OBVIOUS
  <2>1. TypeOK
    BY InitTyped
  <2>2. CallsKnow /\ UniqueIds /\ NeverLost
    BY DEF Init, CallsKnow, UniqueIds, NeverLost, Queued
  <2>3. QED
    BY <2>1, <2>2 DEF DeliveryInv
<1>2. DeliveryInv /\ TypeOK' /\ [Next]_vars => DeliveryInv'
  BY DeliveryInvStep
<1>3. QED
  BY <1>1, <1>2, TypeCorrect, PTL DEF Spec

\* No saved complaint is lost, whatever the interleaving of clicks, callbacks,
\* rebuilds of the list, lost replies and deaths of the process.
THEOREM NeverLostHolds == Spec => []NeverLost
<1>1. DeliveryInv => NeverLost
  BY DEF DeliveryInv
<1>2. QED
  BY <1>1, DeliveryInvariant, PTL

\* The keys max("id") + 1 stay unique, so that deleteComplaint's lookup by id
\* finds the row of its card.
THEOREM UniqueIdsHolds == Spec => []UniqueIds
<1>1. DeliveryInv => UniqueIds
  BY DEF DeliveryInv
<1>2. QED
  BY <1>1, DeliveryInvariant, PTL

-----------------------------------------------------------------------------
\* The retries whose acceptance is still to be copied.
Backing(c) == {k \in Call : item[k] = c /\ stage[k] \in {"accepted", "copying"}}

\* A set of calls without one of them, with one more, and a subset.
LEMMA CountsOfCalls ==
  ASSUME NEW S \in SUBSET Call
  PROVE  /\ Cardinality(S) \in Nat
         /\ \A T \in SUBSET S : Cardinality(T) <= Cardinality(S)
         /\ \A k \in S : Cardinality(S \ {k}) = Cardinality(S) - 1
         /\ \A k \in Call \ S : Cardinality(S \cup {k}) = Cardinality(S) + 1
<1>1. IsFiniteSet(S)
  BY CallAssumption, FS_Subset
<1>2. Cardinality(S) \in Nat
  BY <1>1, FS_CardinalityType
<1>3. ASSUME NEW T \in SUBSET S PROVE Cardinality(T) <= Cardinality(S)
  BY <1>1, FS_Subset
<1>4. ASSUME NEW k \in S PROVE Cardinality(S \ {k}) = Cardinality(S) - 1
  BY <1>1, <1>4, FS_RemoveElement
<1>5. ASSUME NEW k \in Call \ S PROVE Cardinality(S \cup {k}) = Cardinality(S) + 1
  BY <1>1, <1>5, FS_AddElement
<1>6. QED
  BY <1>2, <1>3, <1>4, <1>5

\* A step that writes no copy and leaves no more acceptances to be copied keeps the list backed.
LEMMA FewerAcceptances ==
  ASSUME TypeOK, HistoryIsBacked, TypeOK',
         UNCHANGED <<history, accepted>>,
         \A c \in Complaint : Backing(c)' \subseteq Backing(c)
  PROVE  HistoryIsBacked'
<1> SUFFICES ASSUME NEW c \in Complaint PROVE history'[c] + Cardinality(Backing(c)') <= accepted'[c]
  BY DEF HistoryIsBacked, Backing
<1>1. history[c] + Cardinality(Backing(c)) <= accepted[c] /\ history[c] \in Nat /\ accepted[c] \in Nat
  BY DEF HistoryIsBacked, Backing, TypeOK
<1>2. Backing(c) \in SUBSET Call /\ Backing(c)' \in SUBSET Call
  BY DEF Backing
<1>3. Cardinality(Backing(c)') <= Cardinality(Backing(c)) /\ Cardinality(Backing(c)') \in Nat /\ Cardinality(Backing(c)) \in Nat
  BY <1>2, CountsOfCalls
<1>4. QED
  BY <1>1, <1>3

\* Every step of the queue keeps what the history has of a complaint behind the server's answers.
LEMMA HistoryIsBackedStep ==
  ASSUME TypeOK, HistoryIsBacked, TypeOK', [Next]_vars
  PROVE  HistoryIsBacked'
<1> USE DEF stored, ui
<1>1. ASSUME ProcessDies PROVE HistoryIsBacked'
  <2>1. \A c \in Complaint : Backing(c)' \subseteq Backing(c)
    BY <1>1 DEF ProcessDies, Backing
  <2>2. QED
    BY <1>1, <2>1, FewerAcceptances DEF ProcessDies
<1>2. ASSUME UNCHANGED <<history, accepted, stage, item>> PROVE HistoryIsBacked'
  BY <1>2, FewerAcceptances DEF Backing
<1>3. ASSUME UNCHANGED <<history, accepted>>, NEW k \in Call,
             \/ EndCall(k)
             \/ \E s \in Stage \ {"accepted", "copying"} : MoveCall(k, s)
             \/ stage[k] = "accepted" /\ MoveCall(k, "copying")
      PROVE HistoryIsBacked'
  <2>1. \A c \in Complaint : Backing(c)' \subseteq Backing(c)
    BY <1>3, NoComplaintAssumption DEF EndCall, MoveCall, Backing, TypeOK
  <2>2. QED
    BY <1>3, <2>1, FewerAcceptances
<1>4. ASSUME Logout PROVE HistoryIsBacked'
  <2> SUFFICES ASSUME NEW c \in Complaint PROVE history'[c] + Cardinality(Backing(c)') <= accepted'[c]
    BY DEF HistoryIsBacked, Backing
  <2>1. history'[c] = 0 /\ accepted' = accepted /\ Backing(c)' = Backing(c)
    BY <1>4 DEF Logout, Backing
  <2>2. history[c] + Cardinality(Backing(c)) <= accepted[c] /\ history[c] \in Nat /\ accepted[c] \in Nat
    BY DEF HistoryIsBacked, Backing, TypeOK
  <2>3. Cardinality(Backing(c)) \in Nat
    <3>1. Backing(c) \in SUBSET Call
      BY DEF Backing
    <3>2. QED
      BY <3>1, CountsOfCalls
  <2>4. QED
    BY <2>1, <2>2, <2>3
<1>5. ASSUME NEW h \in Holder, NEW k \in Call, RetryClick(h, k) PROVE HistoryIsBacked'
  <2>1. CASE ProcessDies
    BY <1>1, <2>1
  <2>2. CASE stage[k] = "idle" /\ stage' = [stage EXCEPT ![k] = "bisag"] /\ item' = [item EXCEPT ![k] = bound[h]] /\ UNCHANGED stored
    <3>1. \A c \in Complaint : Backing(c)' \subseteq Backing(c)
      BY <2>2 DEF Backing, TypeOK
    <3>2. QED
      BY <2>2, <3>1, FewerAcceptances
  <2>3. QED
    BY <1>5, <2>1, <2>2 DEF RetryClick
<1>6. ASSUME NEW k \in Call, ServerAccepts(k) PROVE HistoryIsBacked'
  <2>1. item[k] \in Complaint /\ stage[k] \in {"sent", "orphan"} /\ history' = history /\ accepted' = [accepted EXCEPT ![item[k]] = @ + 1]
    BY <1>6 DEF ServerAccepts, TypeOK
  <2> SUFFICES ASSUME NEW c \in Complaint PROVE history'[c] + Cardinality(Backing(c)') <= accepted'[c]
    BY DEF HistoryIsBacked, Backing
  <2>2. history[c] + Cardinality(Backing(c)) <= accepted[c] /\ history[c] \in Nat /\ accepted[c] \in Nat
    BY DEF HistoryIsBacked, Backing, TypeOK
  <2>3. Backing(c)' \subseteq Backing(c) \cup (IF item[k] = c THEN {k} ELSE {})
    BY <1>6, <2>1, NoComplaintAssumption DEF ServerAccepts, MoveCall, EndCall, Backing, TypeOK
  <2>4. k \notin Backing(c) /\ Backing(c) \in SUBSET Call /\ Backing(c) \cup {k} \in SUBSET Call
    BY <2>1 DEF Backing
  <2>5. /\ Cardinality(Backing(c)) \in Nat /\ Cardinality(Backing(c) \cup {k}) = Cardinality(Backing(c)) + 1
        /\ Backing(c)' \subseteq Backing(c) => Cardinality(Backing(c)') <= Cardinality(Backing(c))
        /\ Backing(c)' \subseteq Backing(c) \cup {k} => Cardinality(Backing(c)') <= Cardinality(Backing(c) \cup {k})
        /\ Backing(c)' \subseteq Backing(c) \cup {k} => Cardinality(Backing(c)') \in Nat
    <3>1. Backing(c)' \in SUBSET Call
      BY DEF Backing
    <3>2. QED
      BY <2>4, <3>1, CountsOfCalls
  <2>6. CASE item[k] = c
    <3>1. accepted'[c] = accepted[c] + 1 /\ history'[c] = history[c]
      BY <2>1, <2>6 DEF TypeOK
    <3>2. Cardinality(Backing(c)') <= Cardinality(Backing(c)) + 1 /\ Cardinality(Backing(c)') \in Nat
      BY <2>3, <2>5, <2>6
    <3>3. QED
      BY <2>2, <2>5, <3>1, <3>2
  <2>7. CASE item[k] # c
    <3>1. accepted'[c] = accepted[c] /\ history'[c] = history[c]
      BY <2>1, <2>7 DEF TypeOK
    <3>2. Cardinality(Backing(c)') <= Cardinality(Backing(c)) /\ Cardinality(Backing(c)') \in Nat
      BY <2>3, <2>5, <2>7
    <3>3. QED
      BY <2>2, <2>5, <3>1, <3>2
  <2>8. QED
    BY <2>6, <2>7
<1>7. ASSUME NEW k \in Call, CopyToRealm(k) PROVE HistoryIsBacked'
  <2>1. /\ item[k] \in Complaint /\ stage[k] = "copying" /\ accepted' = accepted /\ history' = [history EXCEPT ![item[k]] = @ + 1]
        /\ stage' = [stage EXCEPT ![k] = "copied"] /\ item' = item
    BY <1>7 DEF CopyToRealm, MoveCall, TypeOK
  <2> SUFFICES ASSUME NEW c \in Complaint PROVE history'[c] + Cardinality(Backing(c)') <= accepted'[c]
    BY DEF HistoryIsBacked, Backing
  <2>2. history[c] + Cardinality(Backing(c)) <= accepted[c] /\ history[c] \in Nat /\ accepted[c] \in Nat
    BY DEF HistoryIsBacked, Backing, TypeOK
  <2>3. Backing(c) \in SUBSET Call
    BY DEF Backing
  <2>4. CASE item[k] = c
    <3>1. history'[c] = history[c] + 1 /\ accepted'[c] = accepted[c]
      BY <2>1, <2>4 DEF TypeOK
    <3>2. k \in Backing(c) /\ Backing(c)' = Backing(c) \ {k}
      BY <2>1, <2>4 DEF Backing, TypeOK
    <3>3. Cardinality(Backing(c)) \in Nat /\ Cardinality(Backing(c)') = Cardinality(Backing(c)) - 1
      BY <2>3, <3>2, CountsOfCalls
    <3>4. QED
      BY <2>2, <3>1, <3>3
  <2>5. CASE item[k] # c
    <3>1. history'[c] = history[c] /\ accepted'[c] = accepted[c]
      BY <2>1, <2>5 DEF TypeOK
    <3>2. Backing(c)' = Backing(c)
      BY <2>1, <2>5 DEF Backing, TypeOK
    <3>3. QED
      BY <2>2, <3>1, <3>2
  <2>6. QED
    BY <2>4, <2>5
<1>8. ASSUME NEW h \in Holder, CancelClick(h) PROVE HistoryIsBacked'
  BY <1>1, <1>2, <1>8 DEF CancelClick
<1>9. ASSUME NEW k \in Call,
             BisagNear(k) \/ BisagFarOrFailed(k) \/ PostReply(k) \/ PostFailure(k) \/ ServerRefuses(k)
      PROVE HistoryIsBacked'
  <2>1. UNCHANGED <<history, accepted>>
    BY <1>9 DEF BisagNear, BisagFarOrFailed, PostReply, PostFailure, ServerRefuses
  <2>2. \/ EndCall(k)
        \/ \E s \in {"orphan", "sent", "refused"} : MoveCall(k, s)
        \/ stage[k] = "accepted" /\ MoveCall(k, "copying")
    BY <1>9 DEF BisagNear, BisagFarOrFailed, PostReply, PostFailure, ServerRefuses
  <2>3. QED
    BY <1>3, <2>1, <2>2 DEF Stage
<1>10. ASSUME NEW k \in Call, CopySuccess(k) PROVE HistoryIsBacked'
  <2>1. ProcessDies \/ (EndCall(k) /\ UNCHANGED <<history, accepted>>)
    BY <1>10 DEF CopySuccess
  <2>2. QED
    BY <1>1, <1>3, <2>1
<1>11. ASSUME NEW c \in Complaint, SaveOffline(c) PROVE HistoryIsBacked'
  BY <1>2, <1>11 DEF SaveOffline
<1>12. ASSUME NEW h \in Holder, NEW c \in Complaint, OnBindViewHolder(h, c) PROVE HistoryIsBacked'
  BY <1>1, <1>2, <1>12 DEF OnBindViewHolder
<1>13. OnCreateView \/ OnChange \/ UNCHANGED vars => HistoryIsBacked'
  BY <1>2 DEF OnCreateView, OnChange, vars
<1>14. ASSUME NEW h \in Holder, RetryClickOffline(h) PROVE HistoryIsBacked'
  BY <1>2, <1>14 DEF RetryClickOffline
<1>15. QED
  BY <1>1, <1>4, <1>5, <1>6, <1>7, <1>8, <1>9, <1>10, <1>11, <1>12, <1>13, <1>14
  DEF Next, User, Device, Callback, Server, Kill, BisagEmpty

\* The list of complaints never shows more copies of a complaint than the server created, the copies still to be written included.
THEOREM HistoryIsBackedHolds == Spec => []HistoryIsBacked
<1>1. Init => HistoryIsBacked
  <2> SUFFICES ASSUME Init, NEW c \in Complaint PROVE history[c] + Cardinality(Backing(c)) <= accepted[c]
    BY DEF HistoryIsBacked, Backing
  <2>1. history[c] = 0 /\ accepted[c] = 0
    BY DEF Init
  <2>2. Backing(c) = {}
    BY DEF Init, Backing
  <2>3. Cardinality(Backing(c)) = 0
    BY <2>2, FS_EmptySet
  <2>4. QED
    BY <2>1, <2>3
<1>2. HistoryIsBacked /\ TypeOK /\ TypeOK' /\ [Next]_vars => HistoryIsBacked'
  BY HistoryIsBackedStep
<1>3. QED
  BY <1>1, <1>2, TypeCorrect, PTL DEF Spec

-----------------------------------------------------------------------------
(* The queue implements ComplaintDelivery. *)

\* The status of a complaint depends on its row, saved and withdrawn only.
LEMMA StatusKept ==
  ASSUME UNCHANGED <<id, saved, withdrawn>>
  PROVE  UNCHANGED [c \in Complaint |-> Status(c)]
BY DEF Status

\* A step that changes neither of them nor the server is a stutter.
LEMMA StutterStep ==
  ASSUME UNCHANGED <<id, saved, withdrawn, accepted>>
  PROVE  UNCHANGED Delivery!vars
BY StatusKept DEF Delivery!vars

\* When the row of one complaint goes, its status changes and no other.
LEMMA StatusOfDeleted ==
  ASSUME TypeOK, NEW c \in Complaint, c \in saved,
         id[c] # 0, id' = [id EXCEPT ![c] = 0], UNCHANGED saved,
         withdrawn' = withdrawn \/ withdrawn' = withdrawn \cup {c}
  PROVE  /\ Status(c) = "queued"
         /\ [d \in Complaint |-> Status(d)]' =
              [[d \in Complaint |-> Status(d)] EXCEPT
                 ![c] = IF c \in withdrawn' THEN "withdrawn" ELSE "delivered"]
<1>1. Status(c) = "queued"
  BY DEF Status
<1>2. Status(c)' = IF c \in withdrawn' THEN "withdrawn" ELSE "delivered"
  BY DEF Status, TypeOK
<1>3. \A d \in Complaint : d # c => Status(d)' = Status(d)
  BY DEF Status, TypeOK
<1>4. QED
  BY <1>1, <1>2, <1>3

\* A row deleted by cancel is Withdraw of its complaint.
LEMMA CancelWithdraws ==
  ASSUME DeliveryInv, NEW c \in Complaint, DeleteComplaint(c),
         withdrawn' = withdrawn \cup {c}, UNCHANGED <<saved, accepted>>
  PROVE  Delivery!Next
<1>1. TypeOK /\ UniqueIds /\ CallsKnow
  BY DEF DeliveryInv
<1>2. id[c] # 0 /\ id' = [id EXCEPT ![c] = 0]
  BY <1>1, DeletesOwnRow
<1>3. c \in saved
  BY <1>1, <1>2 DEF CallsKnow, Queued
<1>4. /\ Status(c) = "queued"
      /\ [d \in Complaint |-> Status(d)]' =
           [[d \in Complaint |-> Status(d)] EXCEPT ![c] = "withdrawn"]
  BY <1>1, <1>2, <1>3, StatusOfDeleted
<1>5. Delivery!Withdraw({c})
  BY <1>4 DEF Delivery!Withdraw
<1>6. QED
  BY <1>5 DEF Delivery!Next

\* A row deleted after its copy is Deliver, or Withdraw if a logout or cancel
\* came first.
LEMMA CopyDelivers ==
  ASSUME DeliveryInv, NEW c \in Complaint, DeleteComplaint(c), accepted[c] > 0,
         UNCHANGED <<saved, withdrawn, accepted>>
  PROVE  Delivery!Next
<1>1. TypeOK /\ UniqueIds /\ CallsKnow
  BY DEF DeliveryInv
<1>2. id[c] # 0 /\ id' = [id EXCEPT ![c] = 0]
  BY <1>1, DeletesOwnRow
<1>3. c \in saved
  BY <1>1, <1>2 DEF CallsKnow, Queued
<1>4. /\ Status(c) = "queued"
      /\ [d \in Complaint |-> Status(d)]' =
           [[d \in Complaint |-> Status(d)] EXCEPT
              ![c] = IF c \in withdrawn' THEN "withdrawn" ELSE "delivered"]
  BY <1>1, <1>2, <1>3, StatusOfDeleted
<1>5. CASE c \in withdrawn'
  <2>1. Delivery!Withdraw({c})
    BY <1>4, <1>5 DEF Delivery!Withdraw
  <2>2. QED
    BY <2>1 DEF Delivery!Next
<1>6. CASE c \notin withdrawn'
  <2>1. Delivery!Deliver(c)
    BY <1>4, <1>6 DEF Delivery!Deliver
  <2>2. QED
    BY <2>1 DEF Delivery!Next
<1>7. QED
  BY <1>5, <1>6

\* Every step of the queue is a step of the promise or a stutter.
LEMMA StepSimulation ==
  ASSUME DeliveryInv, [Next]_vars
  PROVE  [Delivery!Next]_Delivery!vars
<1> USE DEF stored
<1>1. ASSUME ProcessDies PROVE UNCHANGED Delivery!vars
  BY <1>1, StutterStep DEF ProcessDies
<1>2. ASSUME NEW c \in Complaint, SaveOffline(c) PROVE Delivery!Next
  <2>1. PICK n \in NextIds : id' = [id EXCEPT ![c] = n]
    BY <1>2 DEF SaveOffline
  <2>2. n # 0
    BY NextIdsFresh DEF DeliveryInv, TypeOK
  <2>3. Status(c) = "unsaved" /\ Status(c)' = "queued"
    BY <1>2, <2>1, <2>2 DEF SaveOffline, Status, DeliveryInv, TypeOK
  <2>4. \A d \in Complaint : d # c => Status(d)' = Status(d)
    BY <1>2, <2>1 DEF SaveOffline, Status, DeliveryInv, TypeOK
  <2>5. Delivery!Save(c)
    BY <1>2, <2>3, <2>4 DEF SaveOffline, Delivery!Save
  <2>6. QED
    BY <2>5 DEF Delivery!Next
<1>3. ASSUME Logout PROVE Delivery!Next
  <2>1. \A c \in saved : Status(c) # "unsaved" /\ Status(c)' = "withdrawn"
    BY <1>3 DEF Logout, Status, DeliveryInv, TypeOK
  <2>2. \A c \in Complaint \ saved : Status(c)' = Status(c)
    BY <1>3 DEF Logout, Status
  <2>3. Delivery!Withdraw(saved)
    BY <1>3, <2>1, <2>2 DEF Logout, Delivery!Withdraw, DeliveryInv, TypeOK
  <2>4. QED
    BY <2>3 DEF Delivery!Next, DeliveryInv, TypeOK
<1>4. ASSUME NEW h \in Holder, CancelClick(h)
      PROVE  Delivery!Next \/ UNCHANGED Delivery!vars
  <2>1. CASE ProcessDies
    BY <2>1, <1>1
  <2>2. CASE /\ DeleteComplaint(bound[h])
             /\ withdrawn' = withdrawn \cup {bound[h]}
             /\ UNCHANGED <<saved, accepted>>
    <3>1. bound[h] \in Complaint
      BY <1>4 DEF CancelClick, DeliveryInv, TypeOK
    <3>2. QED
      BY <2>2, <3>1, CancelWithdraws
  <2>3. QED
    BY <1>4, <2>1, <2>2 DEF CancelClick
<1>5. ASSUME NEW k \in Call, CopySuccess(k)
      PROVE  Delivery!Next \/ UNCHANGED Delivery!vars
  <2>1. CASE ProcessDies
    BY <2>1, <1>1
  <2>2. CASE /\ DeleteComplaint(item[k])
             /\ UNCHANGED <<saved, withdrawn, accepted>>
    <3>1. item[k] \in Complaint /\ accepted[item[k]] > 0
      BY <1>5, NoComplaintAssumption
      DEF CopySuccess, DeliveryInv, TypeOK, CallsKnow
    <3>2. QED
      BY <2>2, <3>1, CopyDelivers
  <2>3. QED
    BY <1>5, <2>1, <2>2 DEF CopySuccess
<1>6. ASSUME NEW k \in Call, ServerAccepts(k) PROVE Delivery!Next
  <2>1. item[k] \in saved /\ item[k] \in Complaint
    BY <1>6 DEF ServerAccepts, DeliveryInv, TypeOK, CallsKnow
  <2>2. Status(item[k]) # "unsaved"
    BY <2>1 DEF Status
  <2>3. UNCHANGED [c \in Complaint |-> Status(c)]
    BY <1>6, StatusKept DEF ServerAccepts
  <2>4. Delivery!Create(item[k])
    BY <1>6, <2>1, <2>2, <2>3 DEF ServerAccepts, Delivery!Create
  <2>5. QED
    BY <2>1, <2>4 DEF Delivery!Next
<1>7. ASSUME NEW h \in Holder, NEW k \in Call, RetryClick(h, k)
      PROVE  UNCHANGED Delivery!vars
  BY <1>1, <1>7, StutterStep DEF RetryClick
<1>8. ASSUME NEW h \in Holder, NEW c \in Complaint, OnBindViewHolder(h, c)
      PROVE  UNCHANGED Delivery!vars
  BY <1>1, <1>8, StutterStep DEF OnBindViewHolder
<1>9. ASSUME NEW k \in Call,
             \/ BisagNear(k) \/ BisagFarOrFailed(k) \/ PostReply(k)
             \/ PostFailure(k) \/ ServerRefuses(k) \/ CopyToRealm(k)
      PROVE  UNCHANGED Delivery!vars
  BY <1>9, StutterStep
  DEF BisagNear, BisagFarOrFailed, PostReply, PostFailure, ServerRefuses, CopyToRealm
<1>10. ASSUME NEW h \in Holder, RetryClickOffline(h) PROVE UNCHANGED Delivery!vars
  BY <1>10, StutterStep DEF RetryClickOffline
<1>11. OnCreateView \/ OnChange \/ UNCHANGED vars => UNCHANGED Delivery!vars
  BY StutterStep DEF OnCreateView, OnChange, vars
<1>12. QED
  BY <1>1, <1>2, <1>3, <1>4, <1>5, <1>6, <1>7, <1>8, <1>9, <1>10, <1>11
  DEF Next, User, Device, Callback, Server, Kill, BisagEmpty

\* The queue keeps the promise of ComplaintDelivery: created only after it was
\* saved, delivered only after the server created it, queued until then.
THEOREM QueueImplementsDelivery == Spec => ImplementsDelivery
<1>1. Init => Delivery!Init
  BY DEF Init, Delivery!Init, Status
<1>2. DeliveryInv /\ [Next]_vars => [Delivery!Next]_Delivery!vars
  BY StepSimulation
<1>3. QED
  BY <1>1, <1>2, DeliveryInvariant, PTL DEF Spec, ImplementsDelivery, Delivery!Spec

-----------------------------------------------------------------------------
\* A complaint that is off the queue and off the wire stays off the wire: the
\* only way there is BisagNear, which finds that the row cannot be read.
LEMMA DeletedStep ==
  ASSUME TypeOK, [Next]_vars,
         NEW c \in saved, id[c] = 0, OffTheWire(c)
  PROVE  accepted'[c] = accepted[c] /\ OffTheWire(c)'
<1> USE NoComplaintAssumption DEF stored, ui, OffTheWire
<1>1. ASSUME ProcessDies PROVE accepted'[c] = accepted[c] /\ OffTheWire(c)'
  BY <1>1 DEF ProcessDies, TypeOK
<1>2. ASSUME UNCHANGED <<accepted, stage, item>>
      PROVE  accepted'[c] = accepted[c] /\ OffTheWire(c)'
  BY <1>2
<1>3. ASSUME NEW k \in Call, UNCHANGED accepted,
             EndCall(k) \/ \E s \in {"copying", "copied"} : MoveCall(k, s)
      PROVE  accepted'[c] = accepted[c] /\ OffTheWire(c)'
  BY <1>3 DEF EndCall, MoveCall, TypeOK
<1>4. ASSUME NEW k \in Call, BisagNear(k)
      PROVE  accepted'[c] = accepted[c] /\ OffTheWire(c)'
  BY <1>4 DEF BisagNear, RowReadable, MoveCall, EndCall, TypeOK
<1>5. ASSUME NEW k \in Call, PostFailure(k)
      PROVE  accepted'[c] = accepted[c] /\ OffTheWire(c)'
  BY <1>5 DEF PostFailure, MoveCall, EndCall, TypeOK
<1>6. ASSUME NEW k \in Call, ServerAccepts(k)
      PROVE  accepted'[c] = accepted[c] /\ OffTheWire(c)'
  BY <1>6 DEF ServerAccepts, MoveCall, EndCall, TypeOK
<1>7. ASSUME NEW k \in Call, ServerRefuses(k)
      PROVE  accepted'[c] = accepted[c] /\ OffTheWire(c)'
  BY <1>7 DEF ServerRefuses, MoveCall, EndCall, TypeOK
<1>8. ASSUME NEW k \in Call,
             BisagFarOrFailed(k) \/ PostReply(k) \/ CopyToRealm(k)
      PROVE  accepted'[c] = accepted[c] /\ OffTheWire(c)'
  BY <1>3, <1>8 DEF BisagFarOrFailed, PostReply, CopyToRealm
<1>9. ASSUME NEW k \in Call, CopySuccess(k)
      PROVE  accepted'[c] = accepted[c] /\ OffTheWire(c)'
  BY <1>1, <1>3, <1>9 DEF CopySuccess
<1>10. ASSUME NEW h \in Holder, NEW k \in Call, RetryClick(h, k)
       PROVE  accepted'[c] = accepted[c] /\ OffTheWire(c)'
  BY <1>1, <1>10 DEF RetryClick, TypeOK
<1>11. ASSUME NEW h \in Holder, CancelClick(h)
       PROVE  accepted'[c] = accepted[c] /\ OffTheWire(c)'
  BY <1>1, <1>2, <1>11 DEF CancelClick
<1>12. ASSUME NEW h \in Holder, NEW d \in Complaint, OnBindViewHolder(h, d)
       PROVE  accepted'[c] = accepted[c] /\ OffTheWire(c)'
  BY <1>1, <1>2, <1>12 DEF OnBindViewHolder
<1>13. ASSUME NEW h \in Holder, RetryClickOffline(h)
       PROVE  accepted'[c] = accepted[c] /\ OffTheWire(c)'
  BY <1>2, <1>13 DEF RetryClickOffline
<1>14. ASSUME NEW d \in Complaint, SaveOffline(d)
       PROVE  accepted'[c] = accepted[c] /\ OffTheWire(c)'
  BY <1>2, <1>14 DEF SaveOffline
<1>15. OnCreateView \/ OnChange \/ Logout \/ UNCHANGED vars
         => accepted'[c] = accepted[c] /\ OffTheWire(c)'
  BY <1>2 DEF OnCreateView, OnChange, Logout, vars
<1>16. QED
  BY <1>1, <1>4, <1>5, <1>6, <1>7, <1>8, <1>9, <1>10, <1>11, <1>12, <1>13,
     <1>14, <1>15
  DEF Next, User, Device, Callback, Server, Kill, BisagEmpty

\* A complaint that was cancelled, delivered or left by a logout while nothing
\* of it was on its way is never posted by a late answer of the road service.
THEOREM DeletedIsNotPostedHolds == Spec => DeletedIsNotPosted
<1>1. TypeOK /\ [Next]_vars =>
        [\A c \in saved :
           (id[c] = 0 /\ OffTheWire(c))
             => (accepted'[c] = accepted[c] /\ OffTheWire(c)')]_vars
  BY DeletedStep
<1>2. QED
  BY <1>1, TypeCorrect, PTL DEF Spec, DeletedIsNotPosted

-----------------------------------------------------------------------------
(* Duplicates.  The argument follows a complaint none of the named events has befallen ("clean"): it has one card at most, whose *)
(* button is dead while its one retry is in progress, and what that retry knows fits what the server did.                      *)

LiveCall(k) == stage[k] \notin {"idle", "orphan"}

\* The call is about a complaint that none of the named events has befallen.
Clean(k) == item[k] \in Complaint \ excused

\* No row is shown by two cards.
OneCard ==
  \A g, h \in Holder : bound[g] # NoComplaint /\ bound[g] = bound[h] => g = h

\* The button of a clean complaint's card is dead during its retry.
DeadDuringRetry ==
  \A h \in Holder, k \in Call :
    LiveCall(k) /\ Clean(k) /\ bound[h] = item[k] => h \notin retryClickable

\* A clean complaint has one retry at most, and no request the application has
\* given up.
OneRetry ==
  /\ \A j, k \in Call :
       LiveCall(j) /\ LiveCall(k) /\ Clean(k) /\ item[j] = item[k] => j = k
  /\ \A k \in Call : stage[k] = "orphan" => item[k] \in excused

\* The server has not created a clean complaint whose acceptance is not yet on
\* its way back, and it has created one only for a complaint whose row is gone
\* or whose retry has been accepted.
AcceptedKnown ==
  /\ \A k \in Call :
       Clean(k) /\ stage[k] \in {"bisag", "sent", "refused"}
         => accepted[item[k]] = 0
  /\ \A c \in Complaint \ excused :
       /\ accepted[c] <= 1
       /\ accepted[c] = 1 =>
            /\ c \in saved
            /\ \/ id[c] = 0
               \/ \E k \in Call :
                    item[k] = c /\ stage[k] \in {"accepted", "copying", "copied"}

DupInv == OneCard /\ DeadDuringRetry /\ OneRetry /\ AcceptedKnown

\* The death of the process ends every retry, and is itself a named event for
\* those the server may have accepted.
LEMMA DeathKeepsDup ==
  ASSUME TypeOK, DupInv, ProcessDies
  PROVE  DupInv'
<1> USE DEF TypeOK, DupInv, ProcessDies, SetAdapter, stored, LiveCall, Clean
<1>1. OneCard' /\ DeadDuringRetry'
  BY DEF OneCard, DeadDuringRetry
<1>2. OneRetry'
  BY DEF OneRetry, Outstanding
<1>3. AcceptedKnown'
  <2>1. \A k \in Call : stage'[k] \notin {"bisag", "sent", "refused"}
    OBVIOUS
  <2>2. \A k \in Call :
          stage[k] \in {"accepted", "copying", "copied"} => item[k] \in excused'
    BY DEF Outstanding
  <2>3. QED
    BY <2>1, <2>2 DEF AcceptedKnown
<1>4. QED
  BY <1>1, <1>2, <1>3

\* A retry that ends without an acceptance leaves nothing behind.
LEMMA EndKeepsDup ==
  ASSUME TypeOK, DupInv, NEW k \in Call, EndCall(k),
         UNCHANGED <<accepted, bound, retryClickable, saved>>,
         excused \subseteq excused',
         \A c \in Complaint : id[c] = 0 => id'[c] = 0 \/ c \notin saved,
         stage[k] \in {"accepted", "copying", "copied"}
           => item[k] \in excused' \/ id'[item[k]] = 0
  PROVE  DupInv'
<1> USE DEF TypeOK, DupInv, EndCall, LiveCall, Clean
<1>1. OneCard'
  BY DEF OneCard
<1>2. DeadDuringRetry'
  BY DEF DeadDuringRetry
<1>3. OneRetry'
  BY DEF OneRetry
<1>4. AcceptedKnown'
  <2>1. \A j \in Call : j # k => stage'[j] = stage[j] /\ item'[j] = item[j]
    OBVIOUS
  <2>2. stage'[k] = "idle"
    OBVIOUS
  <2>3. \A j \in Call :
          Clean(j)' /\ stage'[j] \in {"bisag", "sent", "refused"}
            => accepted'[item'[j]] = 0
    BY <2>1, <2>2 DEF AcceptedKnown
  <2>4. ASSUME NEW c \in Complaint \ excused'
        PROVE  /\ accepted'[c] <= 1
               /\ accepted'[c] = 1 =>
                    /\ c \in saved'
                    /\ \/ id'[c] = 0
                       \/ \E j \in Call :
                            /\ item'[j] = c
                            /\ stage'[j] \in {"accepted", "copying", "copied"}
    <3> SUFFICES ASSUME accepted[c] = 1
                 PROVE  /\ c \in saved
                        /\ \/ id'[c] = 0
                           \/ \E j \in Call :
                                /\ item'[j] = c
                                /\ stage'[j] \in {"accepted", "copying", "copied"}
      BY DEF AcceptedKnown
    <3>1. /\ c \in saved
          /\ \/ id[c] = 0
             \/ \E j \in Call :
                  item[j] = c /\ stage[j] \in {"accepted", "copying", "copied"}
      BY DEF AcceptedKnown
    <3>2. CASE id[c] = 0
      BY <3>1, <3>2
    <3>3. ASSUME NEW j \in Call, item[j] = c,
                 stage[j] \in {"accepted", "copying", "copied"}
          PROVE  \/ id'[c] = 0
                 \/ \E i \in Call :
                      item'[i] = c /\ stage'[i] \in {"accepted", "copying", "copied"}
      BY <2>1, <3>3
    <3>4. QED
      BY <3>1, <3>2, <3>3
  <2>5. QED
    BY <2>3, <2>4 DEF AcceptedKnown
<1>5. QED
  BY <1>1, <1>2, <1>3, <1>4

\* A retry that goes on keeps its row, and the server's answer is what it
\* knows.
LEMMA MoveKeepsDup ==
  ASSUME TypeOK, DupInv, NEW k \in Call, NEW s, MoveCall(k, s),
         UNCHANGED <<id, accepted, bound, retryClickable, saved, excused>>,
         \/ stage[k] = "bisag" /\ s = "sent"
         \/ stage[k] = "sent" /\ s = "refused"
         \/ stage[k] = "accepted" /\ s = "copying"
         \/ stage[k] = "copying" /\ s = "copied"
  PROVE  DupInv'
<1> USE DEF TypeOK, DupInv, MoveCall, LiveCall, Clean
<1>1. OneCard' /\ DeadDuringRetry'
  BY DEF OneCard, DeadDuringRetry
<1>2. OneRetry'
  BY DEF OneRetry
<1>3. AcceptedKnown'
  BY DEF AcceptedKnown
<1>4. QED
  BY <1>1, <1>2, <1>3

\* The list is rebuilt: a named event for every complaint with a retry.
LEMMA RebuildKeepsDup ==
  ASSUME TypeOK, DupInv, NEW rows, SetAdapter(rows),
         UNCHANGED <<accepted, stage, item, saved>>,
         excused \subseteq excused',
         \A c \in Complaint : id'[c] = id[c] \/ id'[c] = 0
  PROVE  DupInv'
<1> USE DEF TypeOK, DupInv, SetAdapter, LiveCall, Clean
<1>1. OneCard'
  BY DEF OneCard
<1>2. DeadDuringRetry'
  BY NoComplaintAssumption DEF DeadDuringRetry
<1>3. OneRetry'
  BY DEF OneRetry
<1>4. AcceptedKnown'
  BY DEF AcceptedKnown
<1>5. QED
  BY <1>1, <1>2, <1>3, <1>4

\* A step of the queue keeps the invariant.
LEMMA DupInvStep ==
  ASSUME DeliveryInv, TypeOK', DupInv, [Next]_vars
  PROVE  DupInv'
<1>1. TypeOK /\ UniqueIds /\ CallsKnow
  BY DEF DeliveryInv
<1> USE <1>1, NoComplaintAssumption DEF stored, ui
<1>2. ASSUME ProcessDies PROVE DupInv'
  BY <1>2, DeathKeepsDup
<1>3. ASSUME OnCreateView \/ OnChange \/ Logout PROVE DupInv'
  <2>1. /\ \E rows : SetAdapter(rows)
        /\ UNCHANGED <<accepted, stage, item, saved>>
        /\ excused \subseteq excused'
        /\ \A c \in Complaint : id'[c] = id[c] \/ id'[c] = 0
    BY <1>3 DEF OnCreateView, OnChange, Logout
  <2>2. QED
    BY <2>1, RebuildKeepsDup
<1>4. ASSUME NEW c \in Complaint, SaveOffline(c) PROVE DupInv'
  <2>1. \A d \in Complaint : d # c => id'[d] = id[d]
    BY <1>4 DEF SaveOffline, TypeOK
  <2>2. UNCHANGED <<accepted, bound, retryClickable, stage, item, excused>>
    BY <1>4 DEF SaveOffline
  <2>3. saved' = saved \cup {c} /\ c \notin saved
    BY <1>4 DEF SaveOffline
  <2>4. OneCard' /\ DeadDuringRetry' /\ OneRetry'
    BY <2>2 DEF DupInv, OneCard, DeadDuringRetry, OneRetry, LiveCall, Clean
  <2>5. AcceptedKnown'
    BY <2>1, <2>2, <2>3 DEF DupInv, AcceptedKnown, Clean
  <2>6. QED
    BY <2>4, <2>5 DEF DupInv
<1>5. ASSUME NEW h \in Holder, NEW c \in Complaint, OnBindViewHolder(h, c)
      PROVE  DupInv'
  <2>1. CASE ProcessDies
    BY <1>2, <2>1
  <2>2. CASE /\ bound' = [bound EXCEPT ![h] = c]
             /\ excused' = IF Live(c) THEN excused \cup {c} ELSE excused
             /\ UNCHANGED <<id, accepted, saved, retryClickable, stage, item>>
    <3>1. \A g \in Holder : bound[g] # c
      BY <1>5 DEF OnBindViewHolder
    <3>2. OneCard'
      BY <2>2, <3>1 DEF DupInv, OneCard, TypeOK
    <3>3. DeadDuringRetry'
      BY <2>2 DEF DupInv, DeadDuringRetry, LiveCall, Clean, Live, TypeOK
    <3>4. OneRetry' /\ AcceptedKnown'
      BY <2>2 DEF DupInv, OneRetry, AcceptedKnown, LiveCall, Clean
    <3>5. QED
      BY <3>2, <3>3, <3>4 DEF DupInv
  <2>3. QED
    BY <1>5, <2>1, <2>2 DEF OnBindViewHolder
<1>6. ASSUME NEW h \in Holder, CancelClick(h) PROVE DupInv'
  <2>1. CASE ProcessDies
    BY <1>2, <2>1
  <2>2. CASE /\ DeleteComplaint(bound[h])
             /\ UNCHANGED <<accepted, saved, bound, retryClickable, stage, item, excused>>
    <3>1. \A c \in Complaint : id'[c] = id[c] \/ id'[c] = 0
      BY <2>2 DEF DeleteComplaint, TypeOK
    <3>2. QED
      BY <2>2, <3>1
      DEF DupInv, OneCard, DeadDuringRetry, OneRetry, AcceptedKnown, LiveCall, Clean
  <2>3. QED
    BY <1>6, <2>1, <2>2 DEF CancelClick
<1>7. ASSUME NEW h \in Holder, NEW k \in Call, RetryClick(h, k) PROVE DupInv'
  <2>1. CASE ProcessDies
    BY <1>2, <2>1
  <2>2. CASE /\ id[bound[h]] # 0
             /\ stage[k] = "idle"
             /\ retryClickable' = retryClickable \ {h}
             /\ stage' = [stage EXCEPT ![k] = "bisag"]
             /\ item' = [item EXCEPT ![k] = bound[h]]
             /\ UNCHANGED <<id, accepted, saved, bound, excused>>
    <3> DEFINE c == bound[h]
    <3>1. c \in Complaint /\ h \in retryClickable
      BY <1>7 DEF RetryClick, TypeOK
    <3>2. c \notin excused => \A j \in Call : item[j] = c => ~LiveCall(j)
      BY <3>1 DEF DupInv, DeadDuringRetry, Clean
    <3>3. c \notin excused => accepted[c] = 0
      <4> SUFFICES ASSUME c \notin excused PROVE accepted[c] = 0
        OBVIOUS
      <4>1. accepted[c] <= 1 /\ accepted[c] # 1
        BY <2>2, <3>1, <3>2 DEF DupInv, AcceptedKnown, LiveCall
      <4>2. accepted[c] \in Nat
        BY <3>1, MaxAcceptedAssumption DEF TypeOK
      <4>3. QED
        BY <4>1, <4>2
    <3>4. OneCard'
      BY <2>2 DEF DupInv, OneCard
    <3>5. DeadDuringRetry'
      BY <2>2, <3>1 DEF DupInv, OneCard, DeadDuringRetry, LiveCall, Clean, TypeOK
    <3>6. OneRetry'
      BY <2>2, <3>1, <3>2 DEF DupInv, OneRetry, LiveCall, Clean, TypeOK
    <3>7. AcceptedKnown'
      BY <2>2, <3>1, <3>3 DEF DupInv, AcceptedKnown, Clean, TypeOK
    <3>8. QED
      BY <3>4, <3>5, <3>6, <3>7 DEF DupInv
  <2>3. QED
    BY <1>7, <2>1, <2>2 DEF RetryClick, SetUnclickable
<1>8. ASSUME NEW k \in Call, ServerAccepts(k) PROVE DupInv'
  <2>1. item[k] \in Complaint /\ item[k] \in saved
    BY <1>8 DEF ServerAccepts, TypeOK, CallsKnow
  <2>2. CASE stage[k] = "orphan"
    <3>1. item[k] \in excused /\ EndCall(k)
      BY <1>8, <2>2 DEF ServerAccepts, DupInv, OneRetry
    <3>2. \A c \in Complaint \ excused : accepted'[c] = accepted[c]
      BY <1>8, <2>1, <3>1 DEF ServerAccepts, TypeOK
    <3>3. UNCHANGED <<id, saved, bound, retryClickable, excused>>
      BY <1>8 DEF ServerAccepts
    <3>4. OneCard' /\ DeadDuringRetry' /\ OneRetry'
      BY <3>1, <3>3
      DEF DupInv, OneCard, DeadDuringRetry, OneRetry, LiveCall, Clean, EndCall, TypeOK
    <3>5. AcceptedKnown'
      BY <3>1, <3>2, <3>3, <2>2 DEF DupInv, AcceptedKnown, Clean, EndCall, TypeOK
    <3>6. QED
      BY <3>4, <3>5 DEF DupInv
  <2>3. CASE stage[k] = "sent"
    <3>1. MoveCall(k, "accepted")
      BY <1>8, <2>3 DEF ServerAccepts
    <3>2. accepted' = [accepted EXCEPT ![item[k]] = @ + 1]
      BY <1>8 DEF ServerAccepts
    <3>3. UNCHANGED <<id, saved, bound, retryClickable, excused>>
      BY <1>8 DEF ServerAccepts
    <3>4. OneCard' /\ DeadDuringRetry' /\ OneRetry'
      BY <2>3, <3>1, <3>3
      DEF DupInv, OneCard, DeadDuringRetry, OneRetry, LiveCall, Clean, MoveCall, TypeOK
    <3>5. Clean(k) => accepted[item[k]] = 0
      BY <2>3 DEF DupInv, AcceptedKnown
    <3>6. \A j \in Call : j # k /\ Clean(k) /\ item[j] = item[k] => ~LiveCall(j)
      BY <2>3 DEF DupInv, OneRetry, LiveCall, Clean
    <3>7. AcceptedKnown'
      <4>1. \A j \in Call :
              Clean(j)' /\ stage'[j] \in {"bisag", "sent", "refused"}
                => accepted'[item'[j]] = 0
        BY <2>1, <3>1, <3>2, <3>3, <3>6
        DEF DupInv, AcceptedKnown, LiveCall, Clean, MoveCall, TypeOK
      <4>2. ASSUME NEW c \in Complaint \ excused'
            PROVE  /\ accepted'[c] <= 1
                   /\ accepted'[c] = 1 =>
                        /\ c \in saved'
                        /\ \/ id'[c] = 0
                           \/ \E j \in Call :
                                /\ item'[j] = c
                                /\ stage'[j] \in {"accepted", "copying", "copied"}
        <5>1. CASE c = item[k]
          <6>1. accepted'[c] = 1
            BY <2>1, <3>2, <3>3, <3>5, <4>2, <5>1 DEF Clean, TypeOK
          <6>2. item'[k] = c /\ stage'[k] = "accepted"
            BY <3>1, <5>1 DEF MoveCall, TypeOK
          <6>3. c \in saved'
            BY <2>1, <3>3, <5>1
          <6>4. QED
            BY <6>1, <6>2, <6>3
        <5>2. CASE c # item[k]
          <6>1. accepted'[c] = accepted[c] /\ id'[c] = id[c] /\ saved' = saved
            BY <3>2, <3>3, <5>2 DEF TypeOK
          <6>2. \A j \in Call :
                  item[j] = c => item'[j] = c /\ stage'[j] = stage[j]
            BY <3>1, <5>2 DEF MoveCall, TypeOK
          <6>3. QED
            BY <3>3, <4>2, <6>1, <6>2 DEF DupInv, AcceptedKnown
        <5>3. QED
          BY <5>1, <5>2
      <4>3. QED
        BY <4>1, <4>2 DEF AcceptedKnown
    <3>8. QED
      BY <3>4, <3>7 DEF DupInv
  <2>4. QED
    BY <1>8, <2>2, <2>3 DEF ServerAccepts
<1>9. ASSUME NEW k \in Call, ServerRefuses(k) PROVE DupInv'
  BY <1>9, MoveKeepsDup, EndKeepsDup DEF ServerRefuses
<1>10. ASSUME NEW k \in Call, BisagNear(k) \/ BisagFarOrFailed(k) PROVE DupInv'
  BY <1>10, MoveKeepsDup, EndKeepsDup DEF BisagNear, BisagFarOrFailed
<1>11. ASSUME NEW k \in Call, PostReply(k) \/ CopyToRealm(k) PROVE DupInv'
  BY <1>11, MoveKeepsDup, EndKeepsDup DEF PostReply, CopyToRealm
<1>12. ASSUME NEW k \in Call, PostFailure(k) PROVE DupInv'
  <2>1. UNCHANGED <<id, accepted, bound, retryClickable, saved>>
    BY <1>12 DEF PostFailure
  <2>2. excused \subseteq excused'
    BY <1>12 DEF PostFailure
  <2>3. stage[k] \in {"sent", "accepted"} => item[k] \in excused'
    BY <1>12 DEF PostFailure, Outstanding
  <2>4. CASE stage[k] \in {"accepted", "refused"}
    BY <1>12, <2>1, <2>2, <2>3, <2>4, EndKeepsDup DEF PostFailure
  <2>5. CASE stage[k] = "sent"
    <3>1. MoveCall(k, "orphan")
      BY <1>12, <2>5 DEF PostFailure
    <3>2. OneCard' /\ DeadDuringRetry' /\ OneRetry'
      BY <2>1, <2>2, <2>3, <2>5, <3>1
      DEF DupInv, OneCard, DeadDuringRetry, OneRetry, LiveCall, Clean, MoveCall, TypeOK
    <3>3. AcceptedKnown'
      BY <2>1, <2>2, <2>3, <2>5, <3>1
      DEF DupInv, AcceptedKnown, Clean, MoveCall, TypeOK
    <3>4. QED
      BY <3>2, <3>3 DEF DupInv
  <2>6. QED
    BY <1>12, <2>4, <2>5 DEF PostFailure
<1>13. ASSUME NEW k \in Call, CopySuccess(k) PROVE DupInv'
  <2>1. CASE ProcessDies
    BY <1>2, <2>1
  <2>2. CASE /\ DeleteComplaint(item[k])
             /\ EndCall(k)
             /\ UNCHANGED <<accepted, saved, bound, retryClickable, excused>>
    <3>1. item[k] \in Complaint
      BY <1>13 DEF CopySuccess, TypeOK
    <3>2. id' = [id EXCEPT ![item[k]] = 0]
      BY <2>2, <3>1, DeletesOwnRow
    <3>3. id'[item[k]] = 0 /\ \A c \in Complaint : id[c] = 0 => id'[c] = 0
      BY <3>1, <3>2 DEF TypeOK
    <3>4. QED
      BY <2>2, <3>3, EndKeepsDup
  <2>3. QED
    BY <1>13, <2>1, <2>2 DEF CopySuccess
<1>14. ASSUME \/ \E h \in Holder : RetryClickOffline(h)
              \/ UNCHANGED vars
       PROVE  DupInv'
  <2>1. UNCHANGED <<id, accepted, saved, bound, retryClickable, stage, item, excused>>
    BY <1>14 DEF RetryClickOffline, vars
  <2>2. QED
    BY <2>1
    DEF DupInv, OneCard, DeadDuringRetry, OneRetry, AcceptedKnown, LiveCall, Clean
<1>15. QED
  BY <1>2, <1>3, <1>4, <1>5, <1>6, <1>7, <1>8, <1>9, <1>10, <1>11, <1>12,
     <1>13, <1>14
  DEF Next, User, Device, Callback, Server, Kill, BisagEmpty

\* A complaint the server created twice had its reply lost, its process ended
\* or its list rebuilt or scrolled during a retry.
THEOREM DuplicatesAreExplainedHolds == Spec => []DuplicatesAreExplained
<1>1. Init => DupInv
  BY NoComplaintAssumption
  DEF Init, DupInv, OneCard, DeadDuringRetry, OneRetry, AcceptedKnown, LiveCall, Clean
<1>2. DeliveryInv /\ TypeOK' /\ DupInv /\ [Next]_vars => DupInv'
  BY DupInvStep
<1>3. TypeOK /\ DupInv => DuplicatesAreExplained
  BY MaxAcceptedAssumption DEF TypeOK, DupInv, AcceptedKnown, DuplicatesAreExplained
<1>4. QED
  BY <1>1, <1>2, <1>3, TypeCorrect, DeliveryInvariant, PTL DEF Spec
=============================================================================
