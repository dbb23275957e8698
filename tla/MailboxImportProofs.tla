-------------------------- MODULE MailboxImportProofs --------------------------
(***************************************************************************)
(* Theorems about MailboxImport, for any mailbox, any number of attempts   *)
(* and of runs, and any number of lost replies, failed flushes and crashes.*)
(***************************************************************************)
EXTENDS MailboxImport, FiniteSetTheorems, TLAPS

-----------------------------------------------------------------------------
(* Types.                                                                  *)

LEMMA TypeInit == Init => TypeOK
<1> SUFFICES ASSUME Init PROVE TypeOK
  OBVIOUS
<1> USE AttemptAssumption DEF Init
<1>1. srcVer \in [Dav -> Nat \ {0}] /\ startVer \in [Dav -> Nat \ {0}]
  OBVIOUS
<1>2. counts \in [Counters -> Nat]
  OBVIOUS
<1>3. copies \in [Mail -> Nat] /\ davVer \in [Dav -> Nat]
  OBVIOUS
<1>4. row \in [Items -> {"none", "done", "failed"}] /\ rowVer \in [Items -> Nat]
  OBVIOUS
<1>5. /\ attempt \in 0..MaxAttempts /\ ver \in Nat
      /\ lost \in Nat /\ dbFaults \in Nat /\ crashes \in Nat /\ runs \in Nat
  OBVIOUS
<1>6. listed \subseteq Items /\ todo \subseteq Items /\ item \in Items
  OBVIOUS
<1>7. outcome = "none" /\ pc = "idle" /\ was = "none" /\ session = "ok" /\ tally = "none"
  OBVIOUS
<1>8. dry \in BOOLEAN
  OBVIOUS
<1> HIDE DEF Init
<1> QED
  BY <1>1, <1>2, <1>3, <1>4, <1>5, <1>6, <1>7, <1>8 DEF TypeOK

LEMMA TypeStep == TypeOK /\ [Next]_vars => TypeOK'
<1> SUFFICES ASSUME TypeOK, [Next]_vars PROVE TypeOK'
  OBVIOUS
<1> USE AttemptAssumption
<1> USE DEF TypeOK, Items, Counters, rowVars, jobVars, itemVars, faultVars, DbFault
<1>1. CASE Begin
  BY <1>1 DEF Begin
<1>2. CASE Resume
  BY <1>2 DEF Resume
<1>3. CASE Complete \/ Stop
  BY <1>3 DEF Complete, Stop, Finish
<1>4. ASSUME NEW i \in Items, Pick(i) PROVE TypeOK'
  BY <1>4 DEF Pick, SuccessCounter
<1>5. CASE Deliver
  BY <1>5 DEF Deliver, Store
<1>6. CASE DeliverFails
  BY <1>6 DEF DeliverFails
<1>7. CASE DeliverLost
  BY <1>7 DEF DeliverLost, Store
<1>8. CASE RecordSuccess
  BY <1>8 DEF RecordSuccess, SuccessCounter
<1>9. CASE RecordFails
  BY <1>9 DEF RecordFails
<1>10. CASE Retry
  BY <1>10 DEF Retry
<1>11. CASE RecordFailure
  BY <1>11 DEF RecordFailure
<1>12. CASE ItemFailsJob
  BY <1>12 DEF ItemFailsJob, Finish
<1>13. CASE CommitCounts
  BY <1>13 DEF CommitCounts
<1>14. CASE CommitFault
  BY <1>14 DEF CommitFault
<1>15. CASE Crash
  BY <1>15 DEF Crash
<1>16. ASSUME NEW i \in Dav, Edit(i) PROVE TypeOK'
  BY <1>16 DEF Edit
<1>17. CASE Quiet \/ UNCHANGED vars
  BY <1>17 DEF Quiet, vars
<1> QED
  BY <1>1, <1>2, <1>3, <1>4, <1>5, <1>6, <1>7, <1>8, <1>9, <1>10, <1>11, <1>12,
     <1>13, <1>14, <1>15, <1>16, <1>17 DEF Next, Run

\* Every variable keeps its type.
THEOREM TypeCorrect == Spec => []TypeOK
  BY TypeInit, TypeStep, PTL DEF Spec

-----------------------------------------------------------------------------
(* What is recorded as done has been delivered.                            *)

Processing == {"deliver", "record", "caught"}

\* Versions only move forward: recorded, then in hand, then in Exchange.
\* What is in hand when its row is about to be written has been delivered.
DeliveryInv ==
    /\ DoneIsDelivered
    /\ \A i \in Dav :
         rowVer[i] <= srcVer[i] /\ (row[i] = "done" => rowVer[i] > 0)
    /\ pc \in Processing /\ item \in Dav =>
         0 < ver /\ rowVer[item] <= ver /\ ver <= srcVer[item]
    /\ pc = "record" => IF item \in Mail THEN copies[item] >= 1 ELSE davVer[item] = ver

LEMMA DeliveryInit == Init => DeliveryInv
  BY DEF Init, DeliveryInv, DoneIsDelivered, Processing, Items

LEMMA DeliveryStep == TypeOK /\ DeliveryInv /\ [Next]_vars => DeliveryInv'
<1> SUFFICES ASSUME TypeOK, DeliveryInv, [Next]_vars PROVE DeliveryInv'
  OBVIOUS
<1> USE ItemAssumption
<1> USE DEF TypeOK, Items, rowVars, jobVars, itemVars, faultVars, DbFault,
            DeliveryInv, DoneIsDelivered, Processing
<1>1. CASE Begin
  BY <1>1 DEF Begin
<1>2. CASE Resume
  BY <1>2 DEF Resume
<1>3. CASE Complete \/ Stop
  BY <1>3 DEF Complete, Stop, Finish
<1>4. ASSUME NEW i \in Items, Pick(i) PROVE DeliveryInv'
  BY <1>4 DEF Pick
<1>5. CASE Deliver
  BY <1>5 DEF Deliver, Store
<1>6. CASE DeliverFails
  BY <1>6 DEF DeliverFails
<1>7. CASE DeliverLost
  BY <1>7 DEF DeliverLost, Store
<1>8. CASE RecordSuccess
  BY <1>8 DEF RecordSuccess
<1>9. CASE RecordFails
  BY <1>9 DEF RecordFails
<1>10. CASE Retry
  BY <1>10 DEF Retry
<1>11. CASE RecordFailure
  BY <1>11 DEF RecordFailure
<1>12. CASE ItemFailsJob
  BY <1>12 DEF ItemFailsJob, Finish
<1>13. CASE CommitCounts
  BY <1>13 DEF CommitCounts
<1>14. CASE CommitFault
  BY <1>14 DEF CommitFault
<1>15. CASE Crash
  BY <1>15 DEF Crash
<1>16. ASSUME NEW i \in Dav, Edit(i) PROVE DeliveryInv'
  BY <1>16 DEF Edit
<1>17. CASE Quiet \/ UNCHANGED vars
  BY <1>17 DEF Quiet, vars
<1> QED
  BY <1>1, <1>2, <1>3, <1>4, <1>5, <1>6, <1>7, <1>8, <1>9, <1>10, <1>11, <1>12,
     <1>13, <1>14, <1>15, <1>16, <1>17 DEF Next, Run

LEMMA DeliveryCorrect == Spec => [](TypeOK /\ DeliveryInv)
  BY TypeCorrect, DeliveryInit, DeliveryStep, PTL DEF Spec

\* A row that says "done" never lies: the message is in the mailbox, the
\* event or contact is stored in the version recorded or a later one.
THEOREM DoneRowsAreDelivered == Spec => []DoneIsDelivered
<1>1. DeliveryInv => DoneIsDelivered
  BY DEF DeliveryInv
<1> QED
  BY <1>1, DeliveryCorrect, PTL

\* A run leaves out nothing that mailcow does not have.
THEOREM SkippedItemsAreThere == Spec => SkippedIsThere
<1>1. TypeOK /\ DeliveryInv /\ [Next]_vars =>
        [pc = "list" /\ tally' = "skipped" =>
           IF item' \in Mail THEN copies[item'] >= 1 ELSE davVer[item'] >= ver']_vars
  <2> SUFFICES ASSUME TypeOK, DeliveryInv, Next, pc = "list", tally' = "skipped"
               PROVE  IF item' \in Mail THEN copies[item'] >= 1 ELSE davVer[item'] >= ver'
    OBVIOUS
  <2> USE ItemAssumption DEF TypeOK, Items
  <2>1. tally = "none"
    OBVIOUS
  <2>2. PICK i \in Items : Pick(i)
    <3>1. ~Begin /\ ~Complete /\ ~Stop /\ ~Crash /\ ~Quiet
      BY <2>1 DEF Begin, Complete, Stop, Finish, Crash, Quiet, vars
    <3>2. ~(\E i \in Dav : Edit(i))
      BY <2>1 DEF Edit
    <3>3. ~Resume /\ ~Deliver /\ ~DeliverFails /\ ~RecordSuccess /\ ~RecordFails
            /\ ~Retry /\ ~RecordFailure /\ ~ItemFailsJob /\ ~CommitCounts
            /\ ~DeliverLost /\ ~CommitFault
      BY DEF Resume, Deliver, DeliverFails, RecordSuccess, RecordFails, Retry,
             RecordFailure, ItemFailsJob, CommitCounts, DeliverLost, CommitFault
    <3> QED
      BY <3>1, <3>2, <3>3 DEF Next, Run
  <2>3. /\ item' = i /\ ver' = (IF i \in Dav THEN srcVer[i] ELSE 0)
        /\ ~NeedsImport(i, ver') /\ UNCHANGED <<copies, davVer>>
    BY <2>1, <2>2 DEF Pick, SuccessCounter
  <2>4. row[i] = "done" /\ (i \in Dav => rowVer[i] = 0 \/ srcVer[i] <= rowVer[i])
    BY <2>3 DEF NeedsImport
  <2> QED
    BY <2>3, <2>4 DEF DeliveryInv, DoneIsDelivered
<1> QED
  BY <1>1, DeliveryCorrect, PTL DEF Spec, SkippedIsThere

-----------------------------------------------------------------------------
(* Duplicates.                                                             *)

\* Every copy of a message is paid for: by the row that says "done", by the
\* record about to be written, or by something that went wrong.  With a
\* broken session no message is sent at all.
CopyInv ==
    /\ \A i \in Mail :
         copies[i] <= lost + dbFaults + crashes
                        + (IF row[i] = "done" \/ (pc = "record" /\ item = i) THEN 1 ELSE 0)
    /\ pc = "record" /\ item \in Mail => session = "ok"
    /\ pc \in Processing /\ item \in Mail => row[item] # "done"

LEMMA CopyInit == Init => CopyInv
  BY DEF Init, CopyInv, Processing, Items

LEMMA CopyStep == TypeOK /\ CopyInv /\ [Next]_vars => CopyInv'
<1> SUFFICES ASSUME TypeOK, CopyInv, [Next]_vars PROVE CopyInv'
  OBVIOUS
<1> USE ItemAssumption
<1> USE DEF TypeOK, Items, rowVars, jobVars, itemVars, faultVars, DbFault,
            CopyInv, Processing
<1>1. CASE Begin
  BY <1>1 DEF Begin
<1>2. CASE Resume
  BY <1>2 DEF Resume
<1>3. CASE Complete \/ Stop
  BY <1>3 DEF Complete, Stop, Finish
<1>4. ASSUME NEW i \in Items, Pick(i) PROVE CopyInv'
  BY <1>4 DEF Pick, NeedsImport
<1>5. CASE Deliver
  BY <1>5 DEF Deliver, Store, CanSend
<1>6. CASE DeliverFails
  BY <1>6 DEF DeliverFails
<1>7. CASE DeliverLost
  BY <1>7 DEF DeliverLost, Store
<1>8. CASE RecordSuccess
  BY <1>8 DEF RecordSuccess
<1>9. CASE RecordFails
  BY <1>9 DEF RecordFails
<1>10. CASE Retry
  BY <1>10 DEF Retry
<1>11. CASE RecordFailure
  BY <1>11 DEF RecordFailure
<1>12. CASE ItemFailsJob
  BY <1>12 DEF ItemFailsJob, Finish
<1>13. CASE CommitCounts
  BY <1>13 DEF CommitCounts
<1>14. CASE CommitFault
  BY <1>14 DEF CommitFault
<1>15. CASE Crash
  BY <1>15 DEF Crash
<1>16. ASSUME NEW i \in Dav, Edit(i) PROVE CopyInv'
  BY <1>16 DEF Edit
<1>17. CASE Quiet \/ UNCHANGED vars
  BY <1>17 DEF Quiet, vars
<1> QED
  BY <1>1, <1>2, <1>3, <1>4, <1>5, <1>6, <1>7, <1>8, <1>9, <1>10, <1>11, <1>12,
     <1>13, <1>14, <1>15, <1>16, <1>17 DEF Next, Run

\* There are at most as many surplus copies of a message as there were lost
\* replies, failed flushes and crashes.
THEOREM DuplicatesAreExplained == Spec => []DuplicatesBounded
<1>1. TypeOK /\ CopyInv => DuplicatesBounded
  BY DEF TypeOK, CopyInv, DuplicatesBounded
<1> QED
  BY <1>1, TypeCorrect, CopyInit, CopyStep, PTL DEF Spec

-----------------------------------------------------------------------------
(* What a completed job has achieved.                                      *)

\* An item a run has dealt with: reported as failed, or in mailcow and at
\* least as new as when the run began.
DealtWith(i) ==
    \/ row[i] = "failed"
    \/ i \in Mail /\ copies[i] >= 1
    \/ i \in Dav /\ davVer[i] >= startVer[i]

InHand(i) == pc \in Processing /\ item = i

\* All items a run has reached are dealt with but the one in hand; a crash
\* makes the run start over, with a new listing.
CurrentInv ==
    /\ outcome = "running" <=> pc # "idle"
    /\ todo \subseteq listed
    /\ \A i \in Dav : startVer[i] <= srcVer[i]
    /\ pc \in Processing /\ item \in Dav => startVer[item] <= ver
    /\ pc \in Processing => ~dry /\ item \in listed \ todo
    /\ pc \notin {"idle", "crashed"} /\ ~dry =>
         \A i \in listed \ todo : DealtWith(i) \/ InHand(i)
    /\ CompletedIsCurrent

LEMMA CurrentInit == Init => CurrentInv
  BY DEF Init, CurrentInv, CompletedIsCurrent, Processing

LEMMA DoneRowsAreDealtWith ==
    ASSUME TypeOK, DeliveryInv, CurrentInv, NEW i \in Items, row[i] = "done",
           i \in Dav => srcVer[i] <= rowVer[i] \/ rowVer[i] = 0
    PROVE  DealtWith(i)
<1> USE DEF TypeOK, Items, DeliveryInv, CurrentInv, DealtWith
<1>1. CASE i \in Mail
  <2>1. copies[i] >= 1
    BY <1>1 DEF DoneIsDelivered
  <2> QED
    BY <1>1, <2>1
<1>2. CASE i \in Dav
  <2>1. i \notin Mail
    BY <1>2, ItemAssumption
  <2>2. davVer[i] >= rowVer[i] /\ rowVer[i] > 0
    BY <1>2, <2>1 DEF DoneIsDelivered
  <2>3. rowVer[i] >= srcVer[i] /\ srcVer[i] >= startVer[i]
    BY <1>2, <2>2
  <2>4. /\ davVer[i] \in Nat /\ rowVer[i] \in Nat /\ srcVer[i] \in Nat
        /\ startVer[i] \in Nat
    BY <1>2
  <2>5. davVer[i] >= startVer[i]
    BY <2>2, <2>3, <2>4
  <2> QED
    BY <1>2, <2>5
<1> QED
  BY <1>1, <1>2

LEMMA DeliveredIsDealtWith ==
    ASSUME TypeOK, DeliveryInv, CurrentInv, pc = "record"
    PROVE  \/ item \in Mail /\ copies[item] >= 1
           \/ item \in Dav /\ davVer[item] >= startVer[item]
<1> USE DEF TypeOK, Items, DeliveryInv, CurrentInv, Processing
<1>1. CASE item \in Mail
  BY <1>1
<1>2. CASE item \notin Mail
  <2>1. item \in Dav /\ davVer[item] = ver /\ startVer[item] <= ver
    BY <1>2
  <2>2. davVer[item] \in Nat /\ startVer[item] \in Nat
    BY <2>1
  <2> QED
    BY <2>1, <2>2
<1> QED
  BY <1>1, <1>2

LEMMA CurrentStep == TypeOK /\ DeliveryInv /\ CurrentInv /\ [Next]_vars => CurrentInv'
<1> SUFFICES ASSUME TypeOK, DeliveryInv, CurrentInv, [Next]_vars PROVE CurrentInv'
  OBVIOUS
<1> USE ItemAssumption
<1> USE DEF TypeOK, Items, rowVars, jobVars, itemVars, faultVars, DbFault,
            CurrentInv, CompletedIsCurrent, DealtWith, InHand, Processing
<1>1. CASE Begin
  BY <1>1 DEF Begin
<1>2. CASE Resume
  BY <1>2 DEF Resume
<1>3. CASE Complete \/ Stop
  BY <1>3 DEF Complete, Stop, Finish
<1>4. ASSUME NEW i \in Items, Pick(i) PROVE CurrentInv'
  <2>1. /\ pc = "list" /\ i \in todo /\ todo' = todo \ {i} /\ item' = i
        /\ ver' = (IF i \in Dav THEN srcVer[i] ELSE 0)
        /\ UNCHANGED <<srcVer, copies, davVer, row, rowVer, outcome, dry, listed, startVer>>
    BY <1>4 DEF Pick
  <2>2. \/ pc' = "commit" /\ (dry \/ ~NeedsImport(i, ver'))
        \/ pc' = "deliver" /\ ~dry
    BY <1>4, <2>1 DEF Pick
  <2>3. ~NeedsImport(i, ver') => DealtWith(i)
    BY <2>1, DoneRowsAreDealtWith DEF NeedsImport
  <2>4. \A k \in listed \ todo : dry \/ DealtWith(k)
    BY <2>1
  <2>5. ~dry => \A k \in listed \ todo' : DealtWith(k) \/ (pc' = "deliver" /\ k = i)
    BY <2>1, <2>2, <2>3, <2>4
  <2> QED
    BY <2>1, <2>2, <2>5
<1>5. CASE Deliver
  BY <1>5 DEF Deliver, Store
<1>6. CASE DeliverFails
  BY <1>6 DEF DeliverFails
<1>7. CASE DeliverLost
  BY <1>7 DEF DeliverLost, Store
<1>8. CASE RecordSuccess
  <2>1. /\ pc = "record" /\ pc' = "commit" /\ ~dry
        /\ \A k \in Items \ {item} : row'[k] = row[k]
        /\ UNCHANGED <<srcVer, copies, davVer, jobVars, todo, itemVars>>
    BY <1>8 DEF RecordSuccess
  <2>2. \/ item \in Mail /\ copies[item] >= 1
        \/ item \in Dav /\ davVer[item] >= startVer[item]
    BY <2>1, DeliveredIsDealtWith
  <2>3. \A k \in listed \ todo : DealtWith(k) \/ k = item
    BY <2>1
  <2>4. ASSUME NEW k \in listed \ todo PROVE DealtWith(k)'
    <3>1. CASE k = item
      BY <2>1, <2>2, <3>1
    <3>2. CASE k # item
      <4>1. row'[k] = row[k] /\ DealtWith(k)
        BY <2>1, <2>3, <3>2
      <4> QED
        BY <2>1, <4>1
    <3> QED
      BY <3>1, <3>2
  <2> QED
    BY <2>1, <2>4
<1>9. CASE RecordFails
  BY <1>9 DEF RecordFails
<1>10. CASE Retry
  BY <1>10 DEF Retry
<1>11. CASE RecordFailure
  BY <1>11 DEF RecordFailure
<1>12. CASE ItemFailsJob
  BY <1>12 DEF ItemFailsJob, Finish
<1>13. CASE CommitCounts
  BY <1>13 DEF CommitCounts
<1>14. CASE CommitFault
  BY <1>14 DEF CommitFault
<1>15. CASE Crash
  BY <1>15 DEF Crash
<1>16. ASSUME NEW i \in Dav, Edit(i) PROVE CurrentInv'
  BY <1>16 DEF Edit
<1>17. CASE Quiet \/ UNCHANGED vars
  BY <1>17 DEF Quiet, vars
<1> QED
  BY <1>1, <1>2, <1>3, <1>4, <1>5, <1>6, <1>7, <1>8, <1>9, <1>10, <1>11, <1>12,
     <1>13, <1>14, <1>15, <1>16, <1>17 DEF Next, Run

\* When a job completes, nothing it listed is missing in mailcow or older
\* there than when the job began, unless the report names it.
THEOREM CompletedJobsAreCurrent == Spec => []CompletedIsCurrent
<1>1. CurrentInv => CompletedIsCurrent
  BY DEF CurrentInv
<1> QED
  BY <1>1, DeliveryCorrect, CurrentInit, CurrentStep, PTL DEF Spec

-----------------------------------------------------------------------------
(* The counters.                                                           *)

\* Without a failed flush or a crash the counters lag behind the items a run
\* has reached by the one that is in hand or about to be committed.
CountInv ==
    /\ IsFiniteSet(listed \ todo)
    /\ pc = "crashed" => crashes > 0
    /\ outcome = "running" /\ dbFaults = 0 /\ crashes = 0 =>
         Cardinality(listed \ todo) = Total + (IF pc = "list" THEN 0 ELSE 1)

\* The steps that deal with an item in hand, or with none.
LEMMA CountFrame ==
    ASSUME TypeOK, CountInv, UNCHANGED <<listed, todo, counts>>,
           dbFaults' \in Nat, crashes' \in Nat,
           dbFaults' = 0 => dbFaults = 0, crashes' = 0 => crashes = 0,
           pc' = "crashed" => crashes' > 0,
           outcome' = "running" /\ dbFaults' = 0 /\ crashes' = 0 =>
             outcome = "running" /\ ((pc' = "list") <=> (pc = "list"))
    PROVE  CountInv'
<1>1. Total' = Total /\ (listed \ todo)' = listed \ todo
  BY DEF Total
<1> HIDE DEF Total
<1> QED
  BY <1>1 DEF CountInv

LEMMA CountInit == Init => CountInv
  BY FS_EmptySet DEF Init, CountInv

LEMMA CountStep == TypeOK /\ CurrentInv /\ CountInv /\ [Next]_vars => CountInv'
<1> SUFFICES ASSUME TypeOK, CurrentInv, CountInv, [Next]_vars PROVE CountInv'
  OBVIOUS
<1> USE DEF TypeOK, rowVars, jobVars, itemVars, faultVars, DbFault
<1>1. CASE Begin
  <2>1. listed' \ todo' = {} /\ Total' = 0 /\ pc' = "list"
    BY <1>1 DEF Begin, Total, Counters
  <2> QED
    BY ONLY <2>1, FS_EmptySet DEF CountInv
<1>2. CASE Resume
  <2>1. listed' \ todo' = {} /\ crashes' # 0 /\ pc' = "list"
    BY <1>2 DEF Resume, CountInv
  <2> QED
    BY <2>1, FS_EmptySet DEF CountInv
<1>3. ASSUME NEW i \in Items, Pick(i) PROVE CountInv'
  <2>1. /\ i \in todo /\ todo' = todo \ {i} /\ listed' = listed /\ counts' = counts
        /\ pc = "list" /\ pc' \in {"commit", "deliver"}
        /\ UNCHANGED <<outcome, dbFaults, crashes>>
    BY <1>3 DEF Pick
  <2>2. listed' \ todo' = (listed \ todo) \cup {i} /\ i \notin listed \ todo
    BY <2>1 DEF CurrentInv
  <2>3. /\ IsFiniteSet(listed' \ todo')
        /\ Cardinality(listed' \ todo') = Cardinality(listed \ todo) + 1
    <3> DEFINE S == listed \ todo
    <3>1. IsFiniteSet(S) /\ listed' \ todo' = S \cup {i} /\ i \notin S
      BY <2>2 DEF CountInv
    <3> QED
      BY ONLY <3>1, FS_AddElement
  <2>4. Total' = Total
    BY <2>1 DEF Total
  <2>5. Total \in Nat
    BY DEF Total, Counters
  <2> QED
    BY <2>1, <2>3, <2>4, <2>5 DEF CountInv
<1>4. CASE CommitCounts
  <2>1. /\ counts' = [counts EXCEPT ![tally] = @ + 1] /\ tally \in Counters
        /\ pc = "commit" /\ pc' = "list"
        /\ UNCHANGED <<listed, todo, outcome, dbFaults, crashes>>
    BY <1>4 DEF CommitCounts
  <2>2. Total' = Total + 1
    BY <2>1 DEF Total, Counters
  <2>3. Total \in Nat
    BY DEF Total, Counters
  <2> QED
    BY <2>1, <2>2, <2>3 DEF CountInv
<1>5. CASE Complete \/ Stop \/ ItemFailsJob
  BY <1>5, CountFrame DEF Complete, Stop, ItemFailsJob, Finish
<1>6. CASE Deliver \/ DeliverFails \/ DeliverLost
  BY <1>6, CountFrame DEF Deliver, DeliverFails, DeliverLost
<1>7. CASE RecordSuccess \/ RecordFails \/ Retry \/ RecordFailure
  BY <1>7, CountFrame DEF RecordSuccess, RecordFails, Retry, RecordFailure
<1>8. CASE Crash \/ CommitFault
  BY <1>8, CountFrame DEF Crash, CommitFault
<1>9. CASE \E i \in Dav : Edit(i)
  BY <1>9, CountFrame DEF Edit, CountInv
<1>10. CASE Quiet \/ UNCHANGED vars
  BY <1>10, CountFrame DEF Quiet, vars, CountInv
<1> QED
  BY <1>1, <1>2, <1>3, <1>4, <1>5, <1>6, <1>7, <1>8, <1>9, <1>10 DEF Next, Run

LEMMA CountCorrect == Spec => [](TypeOK /\ CurrentInv /\ CountInv)
<1>1. Spec => []CurrentInv
  BY DeliveryCorrect, CurrentInit, CurrentStep, PTL DEF Spec
<1>2. Spec => []CountInv
  BY <1>1, TypeCorrect, CountInit, CountStep, PTL DEF Spec
<1> QED
  BY <1>1, <1>2, TypeCorrect, PTL

\* While nothing goes wrong with the database or the container, the four
\* counters of a job add up to the items it has gone through, none counted
\* twice and none left out, however many of them fail.
THEOREM CountersAreComplete == Spec => []CountersComplete
<1>1. TypeOK /\ CurrentInv /\ CountInv => CountersComplete
  BY DEF TypeOK, CurrentInv, CountInv, CountersComplete, Total, Counters
<1> QED
  BY <1>1, CountCorrect, PTL

-----------------------------------------------------------------------------
(* The report.                                                             *)

\* The items of this run that are recorded as failed, but for the one in
\* hand, whose row may say so from an earlier run.
FailedSoFar == {i \in listed \ todo : row[i] = "failed" /\ ~InHand(i)}

\* Each failure counted, or about to be, is of another item.
ReportInv ==
    /\ IsFiniteSet(FailedItems)
    /\ outcome = "running" /\ crashes = 0 =>
         counts["failed"] + (IF tally = "failed" THEN 1 ELSE 0) <= Cardinality(FailedSoFar)
    /\ ReportNamesFailures
LEMMA ReportInit == Init => ReportInv
  BY FS_EmptySet DEF Init, ReportInv, FailedItems, ReportNamesFailures

\* A job has no more failures than the report lists, if it has no more than
\* there are among the items of this run.
LEMMA ReportBound ==
    ASSUME TypeOK, CountInv, IsFiniteSet(FailedItems)
    PROVE  /\ IsFiniteSet(FailedSoFar) /\ Cardinality(FailedSoFar) \in Nat
           /\ Cardinality(FailedItems) \in Nat
           /\ Cardinality(FailedSoFar) <= Cardinality(FailedItems)
<1>1. FailedSoFar \subseteq FailedItems
  BY DEF FailedSoFar, FailedItems, TypeOK
<1> QED
  BY <1>1, FS_Subset, FS_CardinalityType

\* Steps that take no failure back and count none.
LEMMA ReportFrame ==
    ASSUME TypeOK, CurrentInv, CountInv, ReportInv, UNCHANGED <<row, counts>>,
           crashes' = 0 => crashes = 0,
           outcome' = "running" => outcome = "running" /\ FailedSoFar' = FailedSoFar,
           crashes' = 0 /\ outcome' = "running" /\ tally' = "failed" => tally = "failed",
           outcome' = "completed" => outcome = "completed" \/ pc = "list"
    PROVE  ReportInv'
<1>1. FailedItems' = FailedItems /\ counts' = counts
  BY DEF FailedItems
<1>2. IsFiniteSet(FailedItems)
  BY DEF ReportInv
<1>3. counts["failed"] \in Nat
  BY DEF TypeOK, Counters
<1>4. crashes' = 0 /\ outcome' = "running" =>
        counts["failed"] + (IF tally' = "failed" THEN 1 ELSE 0) <= Cardinality(FailedSoFar)'
  BY <1>2, <1>3, ReportBound DEF ReportInv
<1>5. crashes' = 0 /\ outcome' = "completed" => counts["failed"] <= Cardinality(FailedItems)
  <2>1. CASE outcome = "completed"
    BY <2>1 DEF ReportInv, ReportNamesFailures
  <2>2. CASE pc = "list"
    <3>1. outcome = "running"
      BY <2>2 DEF CurrentInv
    <3>2. tally # "failed"
      BY <2>2 DEF TypeOK
    <3> QED
      BY <1>2, <1>3, <3>1, <3>2, ReportBound DEF ReportInv
  <2> QED
    BY <2>1, <2>2
<1> QED
  BY <1>1, <1>2, <1>4, <1>5 DEF ReportInv, ReportNamesFailures

LEMMA ReportStep == TypeOK /\ CurrentInv /\ CountInv /\ ReportInv /\ [Next]_vars => ReportInv'
<1> SUFFICES ASSUME TypeOK, CurrentInv, CountInv, ReportInv, [Next]_vars PROVE ReportInv'
  OBVIOUS
<1> USE DEF rowVars, jobVars, itemVars, faultVars, DbFault
<1>0. /\ IsFiniteSet(FailedItems) /\ counts["failed"] \in Nat
      /\ IsFiniteSet(FailedSoFar) /\ Cardinality(FailedSoFar) \in Nat
  BY ReportBound DEF ReportInv, TypeOK, Counters
<1>1. CASE Begin
  <2>1. /\ FailedSoFar' = {} /\ FailedItems' = FailedItems /\ counts'["failed"] = 0
        /\ outcome' = "running" /\ tally' = "none"
    BY <1>1 DEF Begin, FailedSoFar, FailedItems, Counters, TypeOK
  <2> QED
    BY <1>0, <2>1, FS_EmptySet DEF ReportInv, ReportNamesFailures
<1>2. CASE Resume \/ Crash
  <2>1. FailedItems' = FailedItems /\ crashes' # 0 /\ outcome' # "completed"
    BY <1>2 DEF Resume, Crash, FailedItems, CurrentInv, CountInv, TypeOK
  <2> QED
    BY <1>0, <2>1 DEF ReportInv, ReportNamesFailures
<1>3. ASSUME NEW i \in Items, Pick(i) PROVE ReportInv'
  <2>1. /\ i \in todo /\ todo' = todo \ {i} /\ pc = "list" /\ pc' \in {"commit", "deliver"}
        /\ item' = i /\ tally' # "failed"
        /\ UNCHANGED <<listed, counts, row, outcome, crashes>>
    BY <1>3 DEF Pick, SuccessCounter, TypeOK
  <2>2. FailedItems' = FailedItems /\ outcome' = "running"
    BY <2>1 DEF FailedItems, CurrentInv
  <2>3. FailedSoFar \subseteq FailedSoFar' /\ FailedSoFar' \subseteq FailedItems
    BY <2>1 DEF FailedSoFar, FailedItems, InHand, Processing, TypeOK
  <2>4. /\ Cardinality(FailedSoFar') \in Nat
        /\ Cardinality(FailedSoFar) <= Cardinality(FailedSoFar')
    BY <1>0, <2>3, FS_Subset, FS_CardinalityType
  <2> QED
    BY <1>0, <2>1, <2>2, <2>4 DEF ReportInv, ReportNamesFailures
<1>4. CASE Deliver \/ DeliverFails \/ DeliverLost \/ RecordFails \/ Retry
  <2>1. /\ pc \in Processing /\ pc' \in Processing
        /\ UNCHANGED <<row, counts, crashes, outcome, listed, todo, item, tally>>
    BY <1>4 DEF Deliver, DeliverFails, DeliverLost, RecordFails, Retry, Processing
  <2>2. FailedSoFar' = FailedSoFar
    BY <2>1 DEF FailedSoFar, InHand
  <2> QED
    BY <2>1, <2>2, ReportFrame DEF CurrentInv, Processing
<1>5. CASE RecordSuccess
  <2>1. /\ pc \in Processing /\ pc' \notin Processing /\ tally' # "failed"
        /\ row' = [row EXCEPT ![item] = "done"]
        /\ UNCHANGED <<counts, crashes, outcome, listed, todo, item>>
    BY <1>5 DEF RecordSuccess, SuccessCounter, Processing
  <2>2. FailedSoFar' = FailedSoFar /\ FailedItems' \subseteq FailedItems
    BY <2>1 DEF FailedSoFar, FailedItems, InHand, TypeOK
  <2>3. IsFiniteSet(FailedItems') /\ outcome' = "running"
    BY <1>0, <2>1, <2>2, FS_Subset DEF CurrentInv, Processing
  <2> QED
    BY <1>0, <2>1, <2>2, <2>3 DEF ReportInv, ReportNamesFailures
<1>6. CASE RecordFailure
  <2>1. /\ pc \in Processing /\ pc' \notin Processing /\ tally' = "failed"
        /\ row' = [row EXCEPT ![item] = "failed"] /\ item \in listed \ todo /\ item \in Items
        /\ UNCHANGED <<counts, crashes, outcome, listed, todo, item>>
    BY <1>6 DEF RecordFailure, Processing, CurrentInv, TypeOK
  <2>2. FailedSoFar' = FailedSoFar \cup {item} /\ item \notin FailedSoFar
    BY <2>1 DEF FailedSoFar, InHand, TypeOK
  <2>3. Cardinality(FailedSoFar') = Cardinality(FailedSoFar) + 1
    BY <1>0, <2>2, FS_AddElement
  <2>4. IsFiniteSet(FailedItems') /\ outcome' = "running"
    <3>1. FailedItems' = FailedItems \cup {item}
      BY <2>1 DEF FailedItems, TypeOK
    <3> QED
      BY <1>0, <2>1, <3>1, FS_AddElement DEF CurrentInv, Processing
  <2>5. tally # "failed"
    BY <2>1 DEF TypeOK, Processing
  <2> QED
    BY <1>0, <2>1, <2>3, <2>4, <2>5 DEF ReportInv, ReportNamesFailures
<1>7. CASE CommitCounts
  <2>1. /\ pc = "commit" /\ pc' = "list" /\ tally' = "none" /\ tally \in Counters
        /\ counts' = [counts EXCEPT ![tally] = @ + 1]
        /\ UNCHANGED <<row, crashes, outcome, listed, todo, item>>
    BY <1>7 DEF CommitCounts, TypeOK
  <2>2. /\ FailedSoFar' = FailedSoFar /\ FailedItems' = FailedItems
        /\ counts'["failed"] = counts["failed"] + (IF tally = "failed" THEN 1 ELSE 0)
    BY <2>1 DEF FailedSoFar, FailedItems, InHand, Processing, Counters, TypeOK
  <2>3. outcome' = "running"
    BY <2>1 DEF CurrentInv
  <2> QED
    BY <1>0, <2>1, <2>2, <2>3 DEF ReportInv, ReportNamesFailures
<1>8. CASE CommitFault
  <2>1. FailedSoFar' = FailedSoFar /\ UNCHANGED <<row, counts, crashes, outcome>>
          /\ outcome = "running" /\ tally' = "none"
    BY <1>8 DEF CommitFault, FailedSoFar, InHand, Processing, CurrentInv
  <2> QED
    BY <2>1, ReportFrame
<1>9. CASE Complete \/ Stop \/ ItemFailsJob
  BY <1>9, ReportFrame DEF Complete, Stop, ItemFailsJob, Finish, TypeOK
<1>10. CASE (\E i \in Dav : Edit(i)) \/ Quiet \/ UNCHANGED vars
  <2>1. UNCHANGED <<row, counts, crashes, outcome, listed, todo, item, pc, tally>>
    BY <1>10 DEF Edit, Quiet, vars
  <2>2. FailedSoFar' = FailedSoFar
    BY <2>1 DEF FailedSoFar, InHand
  <2> QED
    BY <2>1, <2>2, ReportFrame
<1> QED
  BY <1>1, <1>2, <1>3, <1>4, <1>5, <1>6, <1>7, <1>8, <1>9, <1>10 DEF Next, Run

\* In a container that stays up, a completed job has counted no more failures
\* than there are items its report names.
THEOREM ReportsNameFailures == Spec => []ReportNamesFailures
<1>1. ReportInv => ReportNamesFailures
  BY DEF ReportInv
<1> QED
  BY <1>1, CountCorrect, ReportInit, ReportStep, PTL DEF Spec
=============================================================================
