------------------------- MODULE OverlappingRunsProofs -------------------------
(***************************************************************************)
(* Theorems about OverlappingRuns, for any number of items, versions,      *)
(* attempts and jobs.                                                      *)
(*                                                                         *)
(* Everything rests on ThreadInv: of the runs that were not created side   *)
(* by side one is active at most, and any other thread that has an item in *)
(* hand is astray with it: cancelled then, or created next to another run. *)
(***************************************************************************)
EXTENDS OverlappingRuns, FiniteSetTheorems, TLAPS

-----------------------------------------------------------------------------
(* Types, and what the session holds of a row.                             *)

Holding == InHand \ {"pick"}

\* A row has a status as soon as it exists, and a session that has seen it
\* is right that it does.
RowInv ==
    /\ \A i \in Items : row[i].status = "none" => row[i] = NoRow
    /\ \A r \in Runs :
         /\ hand[r].seen.status = "none" => hand[r].seen = NoRow
         /\ pc[r] \in Holding /\ hand[r].seen # NoRow => row[hand[r].item] # NoRow

TypeInv == TypeOK /\ RowInv

LEMMA EmptyIsHand == Empty \in Hands /\ NoRow \in Rows
  BY ItemAssumption, BoundsAssumption DEF Empty, Hands, Rows, NoRow

Seeing(h, t) == [h EXCEPT !.seen = t]
Again(h) == [h EXCEPT !.attempt = @ + 1]
GivenUp(h) == [h EXCEPT !.goal = "failed"]

SameItem(g, h) == g.item = h.item /\ g.ver = h.ver

\* What each step of the thread changes in its hand.
LEMMA HandSeeing ==
    ASSUME NEW h \in Hands, NEW t \in Rows, NEW g, g = Seeing(h, t)
    PROVE  g \in Hands /\ SameItem(g, h) /\ g.seen = t /\ g.goal = h.goal
  BY DEF Seeing, Hands, SameItem

LEMMA HandAgain ==
    ASSUME NEW h \in Hands, h.attempt < MaxAttempts, NEW g, g = Again(h)
    PROVE  g \in Hands /\ SameItem(g, h) /\ g.seen = h.seen /\ g.goal = h.goal
<1>1. h.attempt + 1 \in 0..MaxAttempts
  BY BoundsAssumption DEF Hands
<1> QED
  BY <1>1 DEF Again, Hands, SameItem

LEMMA HandGivenUp ==
    ASSUME NEW h \in Hands, NEW g, g = GivenUp(h)
    PROVE  g \in Hands /\ SameItem(g, h) /\ g.seen = h.seen /\ g.goal = "failed"
  BY DEF GivenUp, Hands, SameItem

\* A step of r leaves it the item it has in hand, with this row seen and this
\* goal.
Turns(r, seen, goal) ==
    /\ hand' \in [Runs -> Hands]
    /\ \A s \in Runs \ {r} : hand'[s] = hand[s]
    /\ SameItem(hand'[r], hand[r])
    /\ hand'[r].seen = seen /\ hand'[r].goal = goal

LEMMA PickTurns ==
    ASSUME TypeOK, NEW r \in Runs, Pick(r), pc'[r] # "list"
    PROVE  Turns(r, row[hand[r].item], hand[r].goal) /\ Goto(r, "deliver")
<1>1. hand[r] \in Hands /\ row[hand[r].item] \in Rows
  BY DEF TypeOK, Hands
<1>2. hand' = [hand EXCEPT ![r] = Seeing(hand[r], row[hand[r].item])] /\ Goto(r, "deliver")
  BY DEF Pick, LetGo, Goto, Seeing, TypeOK
<1> QED
  BY <1>1, <1>2, HandSeeing DEF Turns, TypeOK

LEMMA RetryTurns ==
    ASSUME TypeOK, NEW r \in Runs, Retry(r)
    PROVE  Turns(r, hand[r].seen, hand[r].goal)
<1>1. hand[r] \in Hands /\ hand[r].attempt < MaxAttempts
  BY DEF TypeOK, Retry
<1>2. hand' = [hand EXCEPT ![r] = Again(hand[r])]
  BY DEF Retry, Again
<1> QED
  BY <1>1, <1>2, HandAgain DEF Turns, TypeOK

LEMMA GiveUpTurns ==
    ASSUME TypeOK, NEW r \in Runs, GiveUp(r)
    PROVE  Turns(r, hand[r].seen, "failed")
<1>1. hand[r] \in Hands
  BY DEF TypeOK
<1>2. hand' = [hand EXCEPT ![r] = GivenUp(hand[r])]
  BY DEF GiveUp, GivenUp
<1> QED
  BY <1>1, <1>2, HandGivenUp DEF Turns, TypeOK

\* What the session holds of the row once it has looked it up.
Seen(r) == IF hand[r].seen = NoRow THEN row[hand[r].item] ELSE hand[r].seen

LEMMA LookupTurns ==
    ASSUME TypeOK, NEW r \in Runs, Lookup(r)
    PROVE  Turns(r, Seen(r), hand[r].goal)
<1>1. hand[r] \in Hands /\ row[hand[r].item] \in Rows /\ hand[r].seen \in Rows
  BY DEF TypeOK, Hands
<1>2. Seen(r) \in Rows
  BY <1>1 DEF Seen
<1>3. hand' = [hand EXCEPT ![r] = Seeing(hand[r], Seen(r))]
  BY DEF Lookup, Seeing, Seen
<1> QED
  BY <1>1, <1>2, <1>3, HandSeeing DEF Turns, TypeOK

\* What the steps of a thread do to its hand, short of taking an item up or
\* letting it go.
LEMMA HandTurns ==
    ASSUME TypeOK, NEW r \in Runs
    PROVE  /\ Pick(r) /\ pc'[r] # "list" => Turns(r, row[hand[r].item], hand[r].goal)
           /\ Pick(r) /\ pc'[r] # "list" => Goto(r, "deliver")
           /\ Retry(r) => Turns(r, hand[r].seen, hand[r].goal)
           /\ GiveUp(r) => Turns(r, hand[r].seen, "failed")
           /\ Lookup(r) => Turns(r, Seen(r), hand[r].goal)
  BY PickTurns, RetryTurns, GiveUpTurns, LookupTurns

LEMMA TakenUp ==
    ASSUME NEW i, NEW v
    PROVE  LET h == Fresh(i, v) IN
           h.item = i /\ h.ver = v /\ h.seen = NoRow /\ h.goal = "done"
  BY DEF Fresh

LEMMA TypeInit == Init => TypeInv
<1> SUFFICES ASSUME Init PROVE TypeInv
  OBVIOUS
<1> USE BoundsAssumption DEF Init
<1>1. srcVer \in [Dav -> 1..MaxVersion] /\ davVer \in [Dav -> 0..MaxVersion]
  OBVIOUS
<1>2. row \in [Items -> Rows] /\ hand \in [Runs -> Hands]
  BY EmptyIsHand
<1>3. TypeOK
  BY <1>1, <1>2 DEF TypeOK, InHand
<1>4. RowInv
  BY DEF RowInv, Holding, InHand, Empty, NoRow
<1> QED
  BY <1>3, <1>4 DEF TypeInv

LEMMA TypeStep == TypeInv /\ [Next]_vars => TypeInv'
<1> SUFFICES ASSUME TypeOK, RowInv, [Next]_vars
             PROVE  TypeOK' /\ RowInv'
  BY DEF TypeInv
<1> USE BoundsAssumption, EmptyIsHand
<1>5. ASSUME NEW r \in Runs, Pick(r) PROVE TypeOK' /\ RowInv'
  <2>1. CASE pc'[r] = "list"
    <3>1. LetGo(r)
      BY <1>5, <2>1 DEF Pick, Goto, TypeOK
    <3> QED
      BY <1>5, <3>1
      DEF Pick, LetGo, Empty, TypeOK, RowInv, NoRow, Holding, InHand, Goto, mailcow,
          threadVars
  <2>2. CASE pc'[r] # "list"
    <3>1. Turns(r, row[hand[r].item], hand[r].goal) /\ hand[r].item \in Items
      BY HandTurns, <1>5, <2>2 DEF TypeOK, Hands
    <3>2. TypeOK'
      BY <1>5, <3>1 DEF Pick, LetGo, Turns, TypeOK, InHand, Goto, mailcow, threadVars
    <3>3. RowInv'
      BY <1>5, <3>1
      DEF Pick, LetGo, Turns, SameItem, TypeOK, RowInv, Holding, InHand, Goto, mailcow,
          threadVars
    <3> QED
      BY <3>2, <3>3
  <2> QED
    BY <2>1, <2>2
<1>8. ASSUME NEW r \in Runs, Retry(r) PROVE TypeOK' /\ RowInv'
  <2>1. Turns(r, hand[r].seen, hand[r].goal) /\ hand[r].item \in Items
    BY HandTurns, <1>8 DEF TypeOK, Hands
  <2>2. TypeOK'
    BY <1>8, <2>1 DEF Retry, Turns, TypeOK, InHand, Goto, mailcow, threadVars
  <2>3. RowInv'
    BY <1>8, <2>1
    DEF Retry, Turns, SameItem, TypeOK, RowInv, Holding, InHand, Goto, mailcow, threadVars
  <2> QED
    BY <2>2, <2>3
<1>9. ASSUME NEW r \in Runs, GiveUp(r) PROVE TypeOK' /\ RowInv'
  <2>1. Turns(r, hand[r].seen, "failed") /\ hand[r].item \in Items
    BY HandTurns, <1>9 DEF TypeOK, Hands
  <2>2. TypeOK'
    BY <1>9, <2>1 DEF GiveUp, Turns, TypeOK, InHand, Goto, mailcow, threadVars
  <2>3. RowInv'
    BY <1>9, <2>1
    DEF GiveUp, Turns, SameItem, TypeOK, RowInv, Holding, InHand, Goto, mailcow, threadVars
  <2> QED
    BY <2>2, <2>3
<1>10. ASSUME NEW r \in Runs, Lookup(r) PROVE TypeOK' /\ RowInv'
  <2>1. Turns(r, Seen(r), hand[r].goal) /\ hand[r].item \in Items
    BY HandTurns, <1>10 DEF TypeOK, Hands
  <2>2. TypeOK'
    BY <1>10, <2>1 DEF Lookup, Turns, TypeOK, InHand, Goto, mailcow, threadVars
  <2>3. RowInv'
    BY <1>10, <2>1
    DEF Lookup, Turns, SameItem, TypeOK, RowInv, Holding, InHand, Goto, mailcow, threadVars,
        Seen
  <2> QED
    BY <2>2, <2>3
<1> USE DEF TypeOK, RowInv, Rows, NoRow, Holding, InHand, mailcow, threadVars,
            Goto, LetGo, Return
<1>1. ASSUME NEW i \in Dav, Edit(i) PROVE TypeOK' /\ RowInv'
  BY <1>1 DEF Edit
<1>2. ASSUME NEW r \in Runs, Start(r) PROVE TypeOK' /\ RowInv'
  BY <1>2 DEF Start, Listings
<1>3. ASSUME NEW r \in Runs, Cancel(r) PROVE TypeOK' /\ RowInv'
  <2>1. CASE pc[r] \in InHand
    BY <1>3, <2>1 DEF Cancel, Hands
  <2>2. CASE pc[r] \notin InHand
    BY <1>3, <2>2 DEF Cancel
  <2> QED
    BY <2>1, <2>2
<1>4. ASSUME NEW r \in Runs, NEW i \in Items, NextItem(r, i) PROVE TypeOK' /\ RowInv'
  <2>1. PICK v \in 0..MaxVersion : hand' = [hand EXCEPT ![r] = Fresh(i, v)]
    <3>1. i \in Dav => startVer[r][i] \in 1..MaxVersion /\ srcVer[i] \in 1..MaxVersion
      OBVIOUS
    <3>2. \A v \in IF i \in Dav THEN startVer[r][i]..srcVer[i] ELSE {0} : v \in 0..MaxVersion
      BY <3>1
    <3> QED
      BY <1>4, <3>2 DEF NextItem
  <2>2. Fresh(i, v) \in Hands
    BY DEF Fresh, Hands
  <2>3. TypeOK'
    BY <1>4, <2>1, <2>2 DEF NextItem
  <2>4. RowInv'
    BY <1>4, <2>1 DEF NextItem, Fresh, Hands
  <2> QED
    BY <2>3, <2>4
<1>6. ASSUME NEW r \in Runs, Deliver(r) PROVE TypeOK' /\ RowInv'
  <2> DEFINE i == hand[r].item
  <2>1. i \in Items /\ hand[r].ver \in 0..MaxVersion
    BY DEF Hands
  <2>2. CASE i \in Mail /\ copies' = [copies EXCEPT ![i] = @ + 1] /\ UNCHANGED davVer
    BY <1>6, <2>2 DEF Deliver
  <2>3. CASE i \in Dav /\ davVer' = [davVer EXCEPT ![i] = hand[r].ver] /\ UNCHANGED copies
    BY <1>6, <2>1, <2>3 DEF Deliver
  <2> QED
    BY <1>6, <2>2, <2>3 DEF Deliver
<1>7. ASSUME NEW r \in Runs, DeliverFails(r) PROVE TypeOK' /\ RowInv'
  BY <1>7 DEF DeliverFails
<1>11. ASSUME NEW r \in Runs, Write(r) PROVE TypeOK' /\ RowInv'
  BY <1>11 DEF Write, Hands, Empty
<1>12. ASSUME NEW r \in Runs, Conflict(r) PROVE TypeOK' /\ RowInv'
  BY <1>12 DEF Conflict
<1>13. ASSUME NEW r \in Runs, RecordRaises(r) PROVE TypeOK' /\ RowInv'
  BY <1>13 DEF RecordRaises
<1>14. ASSUME NEW r \in Runs, ItemFailsJob(r) PROVE TypeOK' /\ RowInv'
  BY <1>14 DEF ItemFailsJob
<1>15. ASSUME NEW r \in Runs, End(r) PROVE TypeOK' /\ RowInv'
  BY <1>15 DEF End
<1>18. ASSUME NEW r \in Runs, Check(r) PROVE TypeOK' /\ RowInv'
  BY <1>18 DEF Check, InTurn
<1>19. ASSUME NEW r \in Runs, Commit(r) PROVE TypeOK' /\ RowInv'
  BY <1>19 DEF Commit
<1>16. CASE UNCHANGED vars
  BY <1>16 DEF vars
<1> QED
  BY <1>1, <1>2, <1>3, <1>4, <1>5, <1>6, <1>7, <1>8, <1>9, <1>10, <1>11, <1>12,
     <1>13, <1>14, <1>15, <1>16, <1>18, <1>19 DEF Next, Run, Quiet

LEMMA TypeInvariant == Spec => []TypeInv
  BY TypeInit, TypeStep, PTL DEF Spec

\* Every variable keeps its type.
THEOREM TypeCorrect == Spec => []TypeOK
<1>1. TypeInv => TypeOK
  BY DEF TypeInv
<1> QED
  BY <1>1, TypeInvariant, PTL

-----------------------------------------------------------------------------
(* Threads.                                                                *)

Active(r) == job[r] \in {"pending", "running"}

\* Whoever has checked sees no job committed since, unless it is among raced:
\* of the others one is active at most.
RequestInv ==
    \A r \in Runs \ raced :
        /\ job[r] = "checked" => \A s \in Runs : ~Active(s)
        /\ Active(r) => \A s \in Runs \ raced : Active(s) => s = r

LEMMA RequestInit == Init => RequestInv
  BY DEF Init, RequestInv, Active

LEMMA RequestStep == TypeInv /\ RequestInv /\ [Next]_vars => RequestInv'
<1> SUFFICES ASSUME TypeOK, RequestInv, [Next]_vars
             PROVE  RequestInv'
  BY DEF TypeInv
<1> USE DEF RequestInv, Active
<1>1. ASSUME NEW r \in Runs, Check(r) PROVE RequestInv'
  BY <1>1 DEF Check, HasActiveJob, InTurn, TypeOK
<1>2. ASSUME NEW r \in Runs, Commit(r) PROVE RequestInv'
  BY <1>2 DEF Commit, TypeOK
<1>3. ASSUME NEW r \in Runs, Start(r) PROVE RequestInv'
  BY <1>3 DEF Start, TypeOK
<1>4. ASSUME NEW r \in Runs, UNCHANGED raced,
             \/ UNCHANGED job
             \/ \E st \in {"cancelled", "completed", "failed", job[r]} :
                  job' = [job EXCEPT ![r] = st]
      PROVE  RequestInv'
  BY <1>4 DEF TypeOK
<1>5. CASE UNCHANGED <<raced, job>>
  BY <1>5
<1> QED
  BY <1>1, <1>2, <1>3, <1>4, <1>5
  DEF Next, Run, Quiet, vars, Edit, Cancel, NextItem, Pick, Deliver, DeliverFails, Retry,
      GiveUp, Lookup, Write, Conflict, RecordRaises, ItemFailsJob, End

LEMMA RequestCorrect == Spec => []RequestInv
  BY RequestInit, RequestStep, TypeInvariant, PTL DEF Spec

\* A running job that was not created next to another.
Sole(r) == job[r] = "running" /\ r \notin raced

\* A thread that has an item in hand is the sole one, or astray with it.
ThreadInv ==
    /\ \A r, s \in Runs : Sole(r) /\ Sole(s) => r = s
    /\ \A r \in Runs :
         /\ job[r] \in {"completed", "failed"} => pc[r] = "over"
         /\ job[r] = "running" => pc[r] \notin {"none", "over"}
         /\ job[r] \in {"none", "checked", "pending"} => pc[r] = "none"
         /\ pc[r] \in InHand =>
              /\ hand[r].item \notin todo[r]
              /\ Sole(r) \/ <<r, hand[r].item>> \in astray
         /\ \A i \in Items :
              <<r, i>> \in astray =>
                  /\ job[r] = "cancelled" \/ r \in raced
                  /\ pc[r] # "none" /\ i \notin todo[r]
         /\ session[r] = "broken" => pc[r] \in {"deliver", "caught", "lookup"}

LEMMA ThreadInit == Init => ThreadInv
  BY DEF Init, ThreadInv, Sole, InHand

LEMMA ThreadStep == TypeInv /\ RequestInv /\ ThreadInv /\ [Next]_vars => ThreadInv'
<1> SUFFICES ASSUME TypeOK, RowInv, RequestInv, ThreadInv, [Next]_vars
             PROVE  ThreadInv'
  BY DEF TypeInv
<1>0. \A r, s \in Runs : Sole(r)' /\ Sole(s)' => r = s
  <2>1. RequestInv'
    BY RequestStep DEF TypeInv
  <2> QED
    BY <2>1 DEF RequestInv, Active, Sole
<1> USE DEF ThreadInv, Sole, InHand, mailcow, threadVars, Goto, LetGo, Return
<1>1. ASSUME NEW i \in Dav, Edit(i) PROVE ThreadInv'
  BY <1>0, <1>1 DEF Edit, TypeOK
<1>2. ASSUME NEW r \in Runs, Start(r) PROVE ThreadInv'
  BY <1>0, <1>2 DEF Start, TypeOK
<1>3. ASSUME NEW r \in Runs, Cancel(r) PROVE ThreadInv'
  <2>1. CASE pc[r] \in InHand
    BY <1>0, <1>3, <2>1 DEF Cancel, TypeOK, Hands
  <2>2. CASE pc[r] \notin InHand
    BY <1>0, <1>3, <2>2 DEF Cancel, TypeOK
  <2> QED
    BY <2>1, <2>2
<1>4. ASSUME NEW r \in Runs, NEW i \in Items, NextItem(r, i) PROVE ThreadInv'
  BY <1>0, <1>4 DEF NextItem, TypeOK, Fresh
<1>5. ASSUME NEW r \in Runs, Pick(r) PROVE ThreadInv'
  <2>1. CASE pc'[r] = "list"
    BY <1>0, <1>5, <2>1 DEF Pick, TypeOK
  <2>2. CASE pc'[r] # "list"
    <3>1. Turns(r, row[hand[r].item], hand[r].goal) /\ pc' = [pc EXCEPT ![r] = "deliver"]
      BY <1>5, <2>2, HandTurns
    <3>2. UNCHANGED <<todo, job, session, raced, astray>> /\ pc[r] = "pick"
      BY <1>0, <1>5 DEF Pick
    <3> QED
      BY <1>0, <3>1, <3>2 DEF Turns, SameItem, TypeOK
  <2> QED
    BY <2>1, <2>2
<1>6. ASSUME NEW r \in Runs, Deliver(r) PROVE ThreadInv'
  BY <1>0, <1>6 DEF Deliver, TypeOK
<1>7. ASSUME NEW r \in Runs, DeliverFails(r) PROVE ThreadInv'
  BY <1>0, <1>7 DEF DeliverFails, TypeOK
<1>8. ASSUME NEW r \in Runs, Retry(r) PROVE ThreadInv'
  BY <1>0, <1>8, HandTurns DEF Retry, Turns, SameItem, TypeOK
<1>9. ASSUME NEW r \in Runs, GiveUp(r) PROVE ThreadInv'
  BY <1>0, <1>9, HandTurns DEF GiveUp, Turns, SameItem, TypeOK
<1>10. ASSUME NEW r \in Runs, Lookup(r) PROVE ThreadInv'
  BY <1>0, <1>10, HandTurns DEF Lookup, Turns, SameItem, TypeOK
<1>11. ASSUME NEW r \in Runs, Write(r) PROVE ThreadInv'
  BY <1>0, <1>11 DEF Write, TypeOK
<1>12. ASSUME NEW r \in Runs, Conflict(r) PROVE ThreadInv'
  BY <1>0, <1>12 DEF Conflict, TypeOK
<1>13. ASSUME NEW r \in Runs, RecordRaises(r) PROVE ThreadInv'
  BY <1>0, <1>13 DEF RecordRaises, TypeOK
<1>14. ASSUME NEW r \in Runs, ItemFailsJob(r) PROVE ThreadInv'
  BY <1>0, <1>14 DEF ItemFailsJob, TypeOK
<1>15. ASSUME NEW r \in Runs, End(r) PROVE ThreadInv'
  BY <1>0, <1>15 DEF End, TypeOK
<1>18. ASSUME NEW r \in Runs, Check(r) PROVE ThreadInv'
  BY <1>0, <1>18 DEF Check, InTurn, TypeOK
<1>19. ASSUME NEW r \in Runs, Commit(r) PROVE ThreadInv'
  BY <1>0, <1>19 DEF Commit, TypeOK
<1>16. CASE UNCHANGED vars
  BY <1>0, <1>16 DEF vars
<1> QED
  BY <1>1, <1>2, <1>3, <1>4, <1>5, <1>6, <1>7, <1>8, <1>9, <1>10, <1>11, <1>12,
     <1>13, <1>14, <1>15, <1>16, <1>18, <1>19 DEF Next, Run, Quiet

LEMMA ThreadCorrect == Spec => []ThreadInv
  BY ThreadInit, ThreadStep, TypeInvariant, RequestCorrect, PTL DEF Spec

-----------------------------------------------------------------------------
(* What is recorded as done is in mailcow.                                 *)

\* No run has been astray with i.
Clear(i) == \A r \in Runs : <<r, i>> \notin astray

\* Versions are those Exchange has had.  As long as nobody was astray with an
\* event, its recorded version is no newer than one a run still
\* meets, and mailcow has what is about to be recorded.
VersionInv ==
    \A i \in Dav :
        /\ row[i].ver <= srcVer[i]
        /\ \A r \in Runs :
             /\ startVer[r][i] <= srcVer[i]
             /\ Clear(i) /\ Sole(r) /\ i \in todo[r] =>
                  row[i].ver <= startVer[r][i]
             /\ pc[r] \in InHand /\ hand[r].item = i =>
                  /\ hand[r].ver \in 1..srcVer[i]
                  /\ Clear(i) => row[i].ver <= hand[r].ver
                  /\ Clear(i) /\ pc[r] \in {"lookup", "write"} /\ hand[r].goal = "done" =>
                       davVer[i] = hand[r].ver

\* What is about to be recorded has been delivered.
HandInv ==
    \A r \in Runs :
        pc[r] \in {"lookup", "write"} /\ hand[r].goal = "done" =>
            LET i == hand[r].item
            IN  IF i \in Mail THEN copies[i] >= 1 ELSE davVer[i] >= 1

\* DoneIsDelivered, with Clear.
DoneInv ==
    \A i \in Items :
        row[i].status = "done" =>
            IF i \in Mail THEN copies[i] >= 1
            ELSE davVer[i] >= 1 /\ (Clear(i) => davVer[i] >= row[i].ver)

DeliveryInv == VersionInv /\ HandInv /\ DoneInv

LEMMA DeliveryInit == Init => DeliveryInv
  BY ItemAssumption, BoundsAssumption
  DEF Init, DeliveryInv, VersionInv, Sole, HandInv, DoneInv, InHand, NoRow, Items

\* The numbers among the types.
LEMMA Numbers ==
    ASSUME TypeOK
    PROVE  /\ \A i \in Items : row[i].ver \in Nat /\ row[i] \in Rows
           /\ \A i \in Dav : srcVer[i] \in Nat \ {0} /\ davVer[i] \in Nat
           /\ \A i \in Mail : copies[i] \in Nat
           /\ \A r \in Runs : /\ \A i \in Dav : startVer[r][i] \in Nat \ {0}
                              /\ hand[r].ver \in Nat /\ hand[r].item \in Items
                              /\ hand[r].seen.ver \in Nat
  BY BoundsAssumption DEF TypeOK, Items, Rows, Hands

\* A commit changes a column or leaves it to whoever wrote it last.
LEMMA WriteEffect ==
    ASSUME TypeOK, RowInv, NEW r \in Runs, Write(r)
    PROVE  LET i == hand[r].item IN
           /\ i \in Items /\ hand[r].goal \in {"done", "failed"}
           /\ \A j \in Items \ {i} : row'[j] = row[j]
           /\ row'[i] # NoRow
           /\ row'[i].ver = row[i].ver
                \/ (hand[r].goal = "done" /\ row'[i].ver = hand[r].ver)
           /\ row'[i].status = hand[r].goal
                \/ (row'[i].status = row[i].status /\ hand[r].seen.status = hand[r].goal)
           /\ row'[i].status = "done" =>
                hand[r].goal = "done" \/ (row[i].status = "done" /\ row'[i].ver = row[i].ver)
<1> DEFINE i    == hand[r].item
           seen == hand[r].seen
           ver  == IF hand[r].goal = "done" THEN hand[r].ver ELSE seen.ver
           col1 == IF seen.status # hand[r].goal THEN hand[r].goal ELSE row[i].status
           col2 == IF seen.ver # ver THEN ver ELSE row[i].ver
<1>1. i \in Items /\ hand[r].goal \in {"done", "failed"}
  BY DEF TypeOK, Hands
<1>2. row' = [row EXCEPT ![i] = [status |-> col1, ver |-> col2]]
  BY DEF Write
<1>3. row'[i].status = col1 /\ row'[i].ver = col2
  BY <1>1, <1>2 DEF TypeOK
<1>4. \A j \in Items \ {i} : row'[j] = row[j]
  BY <1>1, <1>2 DEF TypeOK
<1>5. row'[i] # NoRow
  <2>1. CASE seen.status # hand[r].goal
    BY <1>1, <1>3, <2>1 DEF NoRow
  <2>2. CASE seen.status = hand[r].goal
    <3>1. row[i] # NoRow /\ pc[r] = "write"
      BY <1>1, <2>2 DEF Write, RowInv, Holding, InHand, NoRow
    <3>2. row[i].status # "none"
      BY <1>1, <3>1 DEF RowInv
    <3> QED
      BY <1>3, <2>2, <3>2 DEF NoRow
  <2> QED
    BY <2>1, <2>2
<1>6. CASE hand[r].goal = "done"
  BY <1>1, <1>3, <1>4, <1>5, <1>6
<1>7. CASE hand[r].goal = "failed"
  <2>1. row'[i].ver = row[i].ver
    BY <1>3, <1>7
  <2> QED
    BY <1>1, <1>3, <1>4, <1>5, <1>7, <2>1
<1> QED
  BY <1>1, <1>6, <1>7

\* A step that leaves the item in hand, the rows, mailcow and Exchange alone.
LEMMA DeliveryTurn ==
    ASSUME TypeOK, ThreadInv, DeliveryInv, NEW r \in Runs, NEW goal, NEW to \in InHand,
           NEW seen, Turns(r, seen, goal), Goto(r, to), pc[r] \in InHand,
           UNCHANGED <<srcVer, mailcow, row, job, threadVars, raced, astray>>,
           to \in {"lookup", "write"} /\ goal = "done" =>
               pc[r] \in {"lookup", "write"} /\ hand[r].goal = "done"
    PROVE  DeliveryInv'
<1> USE DEF DeliveryInv, Turns, SameItem, Goto, mailcow, threadVars
<1>1. VersionInv'
  <2>1. \A q \in Runs : hand'[q].item = hand[q].item /\ hand'[q].ver = hand[q].ver
    OBVIOUS
  <2>2. \A q \in Runs \ {r} : hand'[q] = hand[q] /\ pc'[q] = pc[q]
    BY DEF TypeOK
  <2>3. pc'[r] = to /\ hand'[r].goal = goal
    BY DEF TypeOK
  <2>4. ASSUME NEW i \in Dav, NEW q \in Runs, pc'[q] \in InHand, hand'[q].item = i
        PROVE  /\ hand'[q].ver \in 1..srcVer[i]
               /\ Clear(i) => row[i].ver <= hand'[q].ver
               /\ Clear(i) /\ pc'[q] \in {"lookup", "write"} /\ hand'[q].goal = "done" =>
                    davVer[i] = hand'[q].ver
    BY <2>1, <2>2, <2>3, <2>4 DEF VersionInv
  <2> QED
    BY <2>4 DEF VersionInv, Sole, Clear
<1>2. HandInv'
  BY DEF HandInv, TypeOK
<1>3. DoneInv'
  BY DEF DoneInv, Clear
<1> QED
  BY <1>1, <1>2, <1>3

LEMMA DeliveryStep == TypeInv /\ ThreadInv /\ DeliveryInv /\ [Next]_vars => DeliveryInv'
<1> SUFFICES ASSUME TypeOK, RowInv, ThreadInv, DeliveryInv, [Next]_vars
             PROVE  DeliveryInv'
  BY DEF TypeInv
<1>5. ASSUME NEW r \in Runs, Pick(r), pc'[r] # "list" PROVE DeliveryInv'
  BY <1>5, HandTurns, DeliveryTurn DEF Pick, InHand
<1>8. ASSUME NEW r \in Runs, Retry(r) PROVE DeliveryInv'
  BY <1>8, HandTurns, DeliveryTurn DEF Retry, InHand
<1>9. ASSUME NEW r \in Runs, GiveUp(r) PROVE DeliveryInv'
  BY <1>9, HandTurns, DeliveryTurn DEF GiveUp, InHand
<1>10. ASSUME NEW r \in Runs, Lookup(r) PROVE DeliveryInv'
  BY <1>10, HandTurns, DeliveryTurn DEF Lookup, InHand
<1> USE Numbers DEF DeliveryInv, mailcow, threadVars, Goto, LetGo, Return
<1>1. ASSUME NEW i \in Dav, Edit(i) PROVE DeliveryInv'
  <2>1. VersionInv'
    <3>1. \A k \in Dav : srcVer'[k] \in Nat /\ srcVer'[k] >= srcVer[k]
      BY <1>1 DEF Edit, TypeOK
    <3>2. UNCHANGED <<davVer, row, job, pc, threadVars, hand, raced, astray>>
      BY <1>1 DEF Edit
    <3>3. ASSUME NEW k \in Dav
          PROVE  /\ row[k].ver <= srcVer'[k]
                 /\ \A r \in Runs :
                      /\ startVer[r][k] <= srcVer'[k]
                      /\ pc[r] \in InHand /\ hand[r].item = k => hand[r].ver \in 1..srcVer'[k]
      BY <3>1, ItemAssumption DEF VersionInv, Sole, Items
    <3> QED
      BY <3>2, <3>3 DEF VersionInv, Sole, Clear
  <2>2. HandInv'
    BY <1>1 DEF Edit, HandInv, VersionInv, Sole, InHand, TypeOK
  <2>3. DoneInv'
    BY <1>1 DEF Edit, DoneInv, Clear, TypeOK
  <2> QED
    BY <2>1, <2>2, <2>3
<1>2. ASSUME NEW r \in Runs, Start(r) PROVE DeliveryInv'
  <2>1. VersionInv'
    BY <1>2 DEF Start, VersionInv, Sole, Clear, ThreadInv, InHand, TypeOK
  <2>2. HandInv'
    BY <1>2 DEF Start, HandInv, VersionInv, Sole, InHand, TypeOK
  <2>3. DoneInv'
    BY <1>2 DEF Start, DoneInv, Clear, TypeOK
  <2> QED
    BY <2>1, <2>2, <2>3
<1>3. ASSUME NEW r \in Runs, Cancel(r) PROVE DeliveryInv'
  <2>1. VersionInv'
    BY <1>3 DEF Cancel, VersionInv, Sole, Clear, ThreadInv, InHand, TypeOK
  <2>2. HandInv'
    BY <1>3 DEF Cancel, HandInv, VersionInv, Sole, InHand, TypeOK
  <2>3. DoneInv'
    BY <1>3 DEF Cancel, DoneInv, Clear, TypeOK
  <2> QED
    BY <2>1, <2>2, <2>3
<1>4. ASSUME NEW r \in Runs, NEW i \in Items, NextItem(r, i) PROVE DeliveryInv'
  <2>1. VersionInv'
    <3>1. astray \subseteq astray' /\ (r \in raced => <<r, i>> \in astray')
      BY <1>4 DEF NextItem
    <3>2. \A k \in Dav : Clear(k)' => Clear(k)
      BY <3>1 DEF Clear
    <3>3. \A q \in Runs : Sole(q)' <=> Sole(q)
      BY <1>4 DEF NextItem, Sole
    <3>4. PICK v : /\ hand' = [hand EXCEPT ![r] = Fresh(i, v)]
                   /\ i \in Dav => v \in startVer[r][i]..srcVer[i]
      BY <1>4 DEF NextItem
    <3>5. /\ UNCHANGED <<srcVer, davVer, row, startVer>> /\ job[r] = "running"
          /\ todo' = [todo EXCEPT ![r] = @ \ {i}] /\ i \in todo[r]
          /\ pc' = [pc EXCEPT ![r] = "pick"]
      BY <1>4 DEF NextItem
    <3>6. ASSUME NEW k \in Dav, NEW q \in Runs
          PROVE  /\ startVer[q][k] <= srcVer[k]
                 /\ Clear(k)' /\ Sole(q)' /\ k \in todo'[q] => row[k].ver <= startVer[q][k]
      BY <3>2, <3>3, <3>5 DEF VersionInv, TypeOK
    <3>7. ASSUME NEW k \in Dav, NEW q \in Runs, pc'[q] \in InHand, hand'[q].item = k
          PROVE  /\ hand'[q].ver \in 1..srcVer[k]
                 /\ Clear(k)' => row[k].ver <= hand'[q].ver
                 /\ Clear(k)' /\ pc'[q] \in {"lookup", "write"} /\ hand'[q].goal = "done" =>
                      davVer[k] = hand'[q].ver
      <4>1. CASE q # r
        BY <3>2, <3>4, <3>5, <3>7, <4>1 DEF VersionInv, TypeOK
      <4>2. CASE q = r
        <5>1. k = i /\ hand'[q].ver = v /\ pc'[q] = "pick"
          BY <3>4, <3>5, <3>7, <4>2, TakenUp DEF TypeOK
        <5>2. Clear(i)' => Sole(r)
          BY <3>1, <3>5 DEF Clear, Sole
        <5>3. startVer[r][i] <= v /\ v \in 1..srcVer[i]
          BY <3>4, <5>1
        <5> QED
          BY <3>2, <3>5, <4>2, <5>1, <5>2, <5>3, ItemAssumption DEF VersionInv, Items
      <4> QED
        BY <4>1, <4>2
    <3> QED
      BY <3>5, <3>6, <3>7 DEF VersionInv
  <2>2. HandInv'
    BY <1>4 DEF NextItem, HandInv, VersionInv, Sole, InHand, TypeOK, Fresh
  <2>3. DoneInv'
    BY <1>4 DEF NextItem, DoneInv, Clear, TypeOK, Fresh
  <2> QED
    BY <2>1, <2>2, <2>3
<1>6. ASSUME NEW r \in Runs, Deliver(r) PROVE DeliveryInv'
  <2> DEFINE i == hand[r].item
  <2>1. UNCHANGED <<srcVer, row, job, threadVars, hand, raced, astray>>
          /\ pc[r] = "deliver" /\ pc' = [pc EXCEPT ![r] = "lookup"]
    BY <1>6 DEF Deliver
  <2>2. /\ \A k \in Mail : copies'[k] \in Nat /\ copies'[k] >= copies[k]
        /\ i \in Mail => copies'[i] >= 1
    <3>1. CASE i \in Mail /\ copies' = [copies EXCEPT ![i] = @ + 1]
      BY <3>1 DEF TypeOK
    <3>2. CASE i \in Dav /\ UNCHANGED copies
      BY <3>2, ItemAssumption
    <3> QED
      BY <1>6, <3>1, <3>2 DEF Deliver
  <2>3. /\ \A k \in Dav \ {i} : davVer'[k] = davVer[k]
        /\ i \in Dav => davVer'[i] = hand[r].ver
    BY <1>6, ItemAssumption DEF Deliver, TypeOK
  <2>4. i \in Dav => davVer'[i] >= 1 /\ (Clear(i) => davVer'[i] >= row[i].ver)
    BY <2>1, <2>3 DEF VersionInv, Sole, InHand
  <2>5. VersionInv'
    <3> SUFFICES ASSUME NEW k \in Dav, NEW q \in Runs, Clear(k), hand[q].item = k,
                        pc'[q] \in {"lookup", "write"}, hand[q].goal = "done"
                 PROVE  davVer'[k] = hand[q].ver
      BY <2>1 DEF VersionInv, Sole, Clear, TypeOK, InHand
    <3>1. CASE q = r
      BY <2>3, <3>1
    <3>2. CASE q # r
      <4>1. pc[q] \in {"lookup", "write"}
        BY <2>1, <3>2 DEF TypeOK
      <4>2. k # i
        BY <2>1, <3>2, <4>1 DEF ThreadInv, Sole, InHand, Clear
      <4> QED
        BY <2>3, <4>1, <4>2 DEF VersionInv, Sole, InHand
    <3> QED
      BY <3>1, <3>2
  <2>6. HandInv'
    <3> SUFFICES ASSUME NEW q \in Runs, pc'[q] \in {"lookup", "write"}, hand[q].goal = "done"
                 PROVE  IF hand[q].item \in Mail THEN copies'[hand[q].item] >= 1
                        ELSE davVer'[hand[q].item] >= 1
      BY <2>1 DEF HandInv
    <3>1. CASE hand[q].item = i
      BY <2>2, <2>4, <3>1 DEF Items
    <3>2. CASE hand[q].item # i
      <4>1. q # r /\ pc[q] \in {"lookup", "write"}
        BY <2>1, <3>2 DEF TypeOK
      <4> QED
        BY <2>2, <2>3, <3>2, <4>1 DEF HandInv, Items
    <3> QED
      BY <3>1, <3>2
  <2>7. DoneInv'
    <3> SUFFICES ASSUME NEW k \in Items, row[k].status = "done"
                 PROVE  IF k \in Mail THEN copies'[k] >= 1
                        ELSE davVer'[k] >= 1 /\ (Clear(k) => davVer'[k] >= row[k].ver)
      BY <2>1 DEF DoneInv, Clear
    <3>1. CASE k = i
      BY <2>2, <2>4, <3>1 DEF Items
    <3>2. CASE k # i
      BY <2>2, <2>3, <3>2 DEF DoneInv, Items
    <3> QED
      BY <3>1, <3>2
  <2> QED
    BY <2>5, <2>6, <2>7
<1>7. ASSUME NEW r \in Runs, DeliverFails(r) PROVE DeliveryInv'
  <2>1. VersionInv'
    BY <1>7 DEF DeliverFails, VersionInv, Sole, Clear, ThreadInv, InHand, TypeOK
  <2>2. HandInv'
    BY <1>7 DEF DeliverFails, HandInv, VersionInv, Sole, InHand, TypeOK
  <2>3. DoneInv'
    BY <1>7 DEF DeliverFails, DoneInv, Clear, TypeOK
  <2> QED
    BY <2>1, <2>2, <2>3
<1>11. ASSUME NEW r \in Runs, Write(r) PROVE DeliveryInv'
  <2> DEFINE i == hand[r].item
  <2>1. /\ UNCHANGED <<srcVer, copies, davVer, job, threadVars, raced, astray>>
        /\ pc[r] = "write" /\ pc' = [pc EXCEPT ![r] = "list"]
        /\ \A q \in Runs \ {r} : hand'[q] = hand[q]
    BY <1>11 DEF Write, TypeOK
  <2>2. i \in Items /\ \A k \in Items \ {i} : row'[k] = row[k]
    BY <1>11 DEF Write, TypeOK
  <2>3. /\ row'[i].ver = row[i].ver
             \/ (hand[r].goal = "done" /\ row'[i].ver = hand[r].ver)
        /\ row'[i].status = "done" =>
             hand[r].goal = "done" \/ (row[i].status = "done" /\ row'[i].ver = row[i].ver)
    BY <1>11, WriteEffect
  <2>4. VersionInv'
    <3>1. \A k \in Dav : row'[k].ver <= srcVer[k]
      BY <2>1, <2>2, <2>3 DEF VersionInv, Sole, InHand, Items
    <3>2. ASSUME NEW k \in Dav, NEW q \in Runs, Clear(k), Sole(q), k \in todo[q]
          PROVE  row'[k].ver <= startVer[q][k]
      <4>1. k # i
        BY <2>1, <3>2 DEF ThreadInv, Sole, InHand, Clear
      <4> QED
        BY <2>2, <3>2, <4>1 DEF VersionInv, Sole, Items
    <3>3. ASSUME NEW k \in Dav, NEW q \in Runs, pc'[q] \in InHand, hand'[q].item = k
          PROVE  /\ pc[q] \in InHand /\ pc'[q] = pc[q]
                 /\ hand[q].item = k /\ hand'[q] = hand[q]
                 /\ Clear(k) => row'[k] = row[k]
      <4>1. q # r
        BY <2>1, <3>3 DEF TypeOK, InHand
      <4>2. pc[q] = pc'[q] /\ hand'[q] = hand[q]
        BY <2>1, <4>1 DEF TypeOK
      <4>3. Clear(k) => k # i
        BY <2>1, <3>3, <4>1, <4>2 DEF ThreadInv, Sole, InHand, Clear
      <4> QED
        BY <2>2, <3>3, <4>2, <4>3 DEF Items
    <3> QED
      BY <2>1, <3>1, <3>2, <3>3 DEF VersionInv, Sole, Clear
  <2>5. HandInv'
    BY <1>11 DEF Write, HandInv, VersionInv, Sole, InHand, TypeOK
  <2>6. DoneInv'
    <3> SUFFICES ASSUME NEW k \in Items, row'[k].status = "done"
                 PROVE  IF k \in Mail THEN copies[k] >= 1
                        ELSE davVer[k] >= 1 /\ (Clear(k) => davVer[k] >= row'[k].ver)
      BY <2>1 DEF DoneInv, Clear
    <3>1. CASE k = i /\ hand[r].goal = "done"
      <4>1. CASE i \in Mail
        BY <2>1, <3>1, <4>1 DEF HandInv
      <4>2. CASE i \in Dav
        <5>1. davVer[i] >= 1
          BY <2>1, <3>1, <4>2, ItemAssumption DEF HandInv
        <5>2. Clear(i) => davVer[i] = hand[r].ver /\ row[i].ver <= hand[r].ver
          BY <2>1, <3>1, <4>2 DEF VersionInv, Sole, InHand
        <5> QED
          BY <2>3, <3>1, <4>2, <5>1, <5>2, ItemAssumption
      <4> QED
        BY <2>2, <4>1, <4>2 DEF Items
    <3>2. CASE ~(k = i /\ hand[r].goal = "done")
      BY <2>2, <2>3, <3>2 DEF DoneInv
    <3> QED
      BY <3>1, <3>2
  <2> QED
    BY <2>4, <2>5, <2>6
<1>12. ASSUME NEW r \in Runs, Conflict(r) PROVE DeliveryInv'
  <2>1. VersionInv'
    BY <1>12 DEF Conflict, VersionInv, Sole, Clear, ThreadInv, InHand, TypeOK
  <2>2. HandInv'
    BY <1>12 DEF Conflict, HandInv, VersionInv, Sole, InHand, TypeOK
  <2>3. DoneInv'
    BY <1>12 DEF Conflict, DoneInv, Clear, TypeOK
  <2> QED
    BY <2>1, <2>2, <2>3
<1>13. ASSUME NEW r \in Runs, RecordRaises(r) PROVE DeliveryInv'
  <2>1. VersionInv'
    BY <1>13 DEF RecordRaises, VersionInv, Sole, Clear, ThreadInv, InHand, TypeOK
  <2>2. HandInv'
    BY <1>13 DEF RecordRaises, HandInv, VersionInv, Sole, InHand, TypeOK
  <2>3. DoneInv'
    BY <1>13 DEF RecordRaises, DoneInv, Clear, TypeOK
  <2> QED
    BY <2>1, <2>2, <2>3
<1>14. ASSUME NEW r \in Runs, ItemFailsJob(r) PROVE DeliveryInv'
  <2>1. VersionInv'
    BY <1>14 DEF ItemFailsJob, VersionInv, Sole, Clear, ThreadInv, InHand, TypeOK
  <2>2. HandInv'
    BY <1>14 DEF ItemFailsJob, HandInv, VersionInv, Sole, InHand, TypeOK
  <2>3. DoneInv'
    BY <1>14 DEF ItemFailsJob, DoneInv, Clear, TypeOK
  <2> QED
    BY <2>1, <2>2, <2>3
<1>15. ASSUME NEW r \in Runs, End(r) PROVE DeliveryInv'
  <2>1. VersionInv'
    BY <1>15 DEF End, VersionInv, Sole, Clear, ThreadInv, InHand, TypeOK
  <2>2. HandInv'
    BY <1>15 DEF End, HandInv, VersionInv, Sole, InHand, TypeOK
  <2>3. DoneInv'
    BY <1>15 DEF End, DoneInv, Clear, TypeOK
  <2> QED
    BY <2>1, <2>2, <2>3
<1>17. ASSUME NEW r \in Runs, Pick(r), pc'[r] = "list" PROVE DeliveryInv'
  <2>1. VersionInv'
    <3>1. \A q \in Runs : pc'[q] \in InHand => pc'[q] = pc[q] /\ hand'[q] = hand[q]
      BY <1>17 DEF Pick, TypeOK, InHand
    <3>2. UNCHANGED <<srcVer, davVer, row, job, todo, startVer, raced, astray>>
      BY <1>17 DEF Pick
    <3> QED
      BY <3>1, <3>2 DEF VersionInv, Sole, Clear
  <2>2. HandInv'
    BY <1>17 DEF Pick, HandInv, TypeOK
  <2>3. DoneInv'
    BY <1>17 DEF Pick, DoneInv, Clear
  <2> QED
    BY <2>1, <2>2, <2>3
<1>18. ASSUME NEW r \in Runs, Check(r) PROVE DeliveryInv'
  <2>1. VersionInv'
    BY <1>18 DEF Check, InTurn, VersionInv, Sole, Clear, InHand, TypeOK
  <2>2. HandInv'
    BY <1>18 DEF Check, InTurn, HandInv, InHand, TypeOK
  <2>3. DoneInv'
    BY <1>18 DEF Check, InTurn, DoneInv, Clear, TypeOK
  <2> QED
    BY <2>1, <2>2, <2>3
<1>19. ASSUME NEW r \in Runs, Commit(r) PROVE DeliveryInv'
  <2>1. VersionInv'
    BY <1>19 DEF Commit, VersionInv, Sole, Clear, InHand, TypeOK
  <2>2. HandInv'
    BY <1>19 DEF Commit, HandInv, InHand, TypeOK
  <2>3. DoneInv'
    BY <1>19 DEF Commit, DoneInv, Clear, TypeOK
  <2> QED
    BY <2>1, <2>2, <2>3
<1>16. CASE UNCHANGED vars
  BY <1>16 DEF vars, VersionInv, Sole, HandInv, DoneInv, Clear
<1> QED
  BY <1>1, <1>2, <1>3, <1>4, <1>5, <1>6, <1>7, <1>8, <1>9, <1>10, <1>11, <1>12,
     <1>13, <1>14, <1>15, <1>16, <1>17, <1>18, <1>19 DEF Next, Run, Quiet

LEMMA DeliveryCorrect == Spec => []DeliveryInv
  BY DeliveryInit, DeliveryStep, TypeInvariant, ThreadCorrect, PTL DEF Spec

\* What is recorded as done is in mailcow: the message once at least, the event
\* or contact in the recorded version or a later one, unless a run that was
\* cancelled then, or created next to another, had it in hand.
THEOREM RecordsAreTrue == Spec => []DoneIsDelivered
<1>1. DeliveryInv => DoneIsDelivered
  <2> SUFFICES ASSUME DoneInv, NEW i \in Items, row[i].status = "done"
               PROVE  IF i \in Mail THEN copies[i] >= 1
                      ELSE davVer[i] >= 1
                             /\ (davVer[i] >= row[i].ver \/ Astray(i) # {})
    BY DEF DeliveryInv, DoneIsDelivered
  <2>1. Clear(i) \/ Astray(i) # {}
    BY DEF Clear, Astray
  <2> QED
    BY <2>1 DEF DoneInv
<1> QED
  BY <1>1, DeliveryCorrect, PTL

-----------------------------------------------------------------------------
(* What fails a job.                                                       *)

\* A run other than r was astray with i.
Overtaken(strays, r, i) == \E q \in Runs \ {r} : <<q, i>> \in strays

\* A row that the sole run has overlooked was written by one astray, and so was
\* the row its session broke on.
ConflictInv ==
    \A r \in Runs :
        /\ Sole(r) /\ pc[r] \in Holding /\ hand[r].seen = NoRow
             /\ row[hand[r].item] # NoRow => Overtaken(astray, r, hand[r].item)
        /\ session[r] = "broken" => row[hand[r].item] # NoRow
        /\ Sole(r) /\ session[r] = "broken" => Overtaken(astray, r, hand[r].item)

\* FailsOnlyOnRecorded, with Overtaken.
FailedInv ==
    \A r \in Runs :
        job[r] = "failed" =>
            /\ row[hand[r].item] # NoRow
            /\ r \in raced \/ Overtaken(astray, r, hand[r].item)

FailureInv == ConflictInv /\ FailedInv

LEMMA FailureInit == Init => FailureInv
  BY DEF Init, FailureInv, ConflictInv, Sole, FailedInv

\* A row does not go away.
LEMMA RowsStay ==
    ASSUME TypeOK, RowInv, [Next]_vars, NEW i \in Items, row[i] # NoRow
    PROVE  row'[i] # NoRow
<1>1. CASE UNCHANGED row
  BY <1>1
<1>2. ASSUME NEW r \in Runs, Write(r) PROVE row'[i] # NoRow
  BY <1>2, WriteEffect
<1> QED
  BY <1>1, <1>2
  DEF Next, Run, Quiet, vars, Edit, Check, Commit, Start, Cancel, NextItem, Pick,
      Deliver, DeliverFails, Retry, GiveUp, Lookup, Conflict, RecordRaises, ItemFailsJob,
      End

LEMMA FailureStep == TypeInv /\ ThreadInv /\ FailureInv /\ [Next]_vars => FailureInv'
<1> SUFFICES ASSUME TypeOK, RowInv, ThreadInv, FailureInv, [Next]_vars
             PROVE  FailureInv'
  BY DEF TypeInv
<1>0. /\ \A r \in Runs : hand[r].item \in Items
      /\ \A i \in Items : row[i] # NoRow => row'[i] # NoRow
      /\ \A r \in Runs, i \in Items :
           Overtaken(astray, r, i) => Overtaken(astray', r, i)
  <2>1. astray \subseteq astray'
    BY
    DEF Next, Run, Quiet, vars, Edit, Check, Commit, Start, Cancel, NextItem, Pick,
        Deliver, DeliverFails, Retry, GiveUp, Lookup, Write, Conflict, RecordRaises,
        ItemFailsJob, End
  <2> QED
    BY RowsStay, <2>1 DEF TypeOK, Hands, Overtaken
<1>5. ASSUME NEW r \in Runs, Pick(r) PROVE FailureInv'
  <2>1. CASE pc'[r] = "list"
    BY <1>5, <2>1
    DEF Pick, LetGo, Goto, TypeOK, ThreadInv, Sole, FailureInv, ConflictInv, FailedInv,
        Holding, InHand
  <2>2. CASE pc'[r] # "list"
    <3>1. Turns(r, row[hand[r].item], hand[r].goal) /\ pc' = [pc EXCEPT ![r] = "deliver"]
      BY <1>5, <2>2, HandTurns DEF Goto
    <3>2. UNCHANGED <<row, job, session, raced, astray>> /\ pc[r] = "pick"
      BY <1>5 DEF Pick
    <3> QED
      BY <1>0, <3>1, <3>2
      DEF Turns, SameItem, TypeOK, ThreadInv, Sole, FailureInv, ConflictInv, FailedInv,
          Holding, InHand
  <2> QED
    BY <2>1, <2>2
<1>8. ASSUME NEW r \in Runs, Retry(r) PROVE FailureInv'
  <2>1. Turns(r, hand[r].seen, hand[r].goal)
    BY <1>8, HandTurns
  <2> QED
    BY <1>0, <1>8, <2>1
    DEF Retry, Goto, Turns, SameItem, TypeOK, ThreadInv, Sole, FailureInv, ConflictInv,
        FailedInv, Holding, InHand
<1>9. ASSUME NEW r \in Runs, GiveUp(r) PROVE FailureInv'
  <2>1. Turns(r, hand[r].seen, "failed")
    BY <1>9, HandTurns
  <2> QED
    BY <1>0, <1>9, <2>1
    DEF GiveUp, Goto, Turns, SameItem, TypeOK, ThreadInv, Sole, FailureInv, ConflictInv,
        FailedInv, Holding, InHand
<1>10. ASSUME NEW r \in Runs, Lookup(r) PROVE FailureInv'
  <2>1. Turns(r, Seen(r), hand[r].goal)
    BY <1>10, HandTurns
  <2> QED
    BY <1>0, <1>10, <2>1
    DEF Lookup, Goto, Turns, SameItem, Seen, TypeOK, ThreadInv, Sole, FailureInv,
        ConflictInv, FailedInv, Holding, InHand
<1> USE DEF FailureInv, ConflictInv, Sole, FailedInv, Holding, InHand, TypeOK, Goto,
            LetGo, Return
<1>1. ASSUME NEW i \in Dav, Edit(i) PROVE FailureInv'
  BY <1>0, <1>1 DEF Edit, ThreadInv, Sole
<1>2. ASSUME NEW r \in Runs, Start(r) PROVE FailureInv'
  BY <1>0, <1>2 DEF Start, ThreadInv, Sole
<1>3. ASSUME NEW r \in Runs, Cancel(r) PROVE FailureInv'
  BY <1>0, <1>3 DEF Cancel, ThreadInv, Sole
<1>4. ASSUME NEW r \in Runs, NEW i \in Items, NextItem(r, i) PROVE FailureInv'
  <2>1. /\ UNCHANGED <<row, job, session, raced>>
        /\ pc[r] = "list" /\ job[r] = "running" /\ pc' = [pc EXCEPT ![r] = "pick"]
        /\ \A q \in Runs \ {r} : hand'[q] = hand[q]
    BY <1>4 DEF NextItem
  <2>2. session[r] # "broken" /\ job[r] # "failed"
    BY <2>1 DEF ThreadInv
  <2> QED
    BY <1>0, <2>1, <2>2 DEF Sole
<1>6. ASSUME NEW r \in Runs, Deliver(r) PROVE FailureInv'
  BY <1>0, <1>6 DEF Deliver, ThreadInv, Sole
<1>7. ASSUME NEW r \in Runs, DeliverFails(r) PROVE FailureInv'
  BY <1>0, <1>7 DEF DeliverFails, ThreadInv, Sole
<1>11. ASSUME NEW r \in Runs, Write(r) PROVE FailureInv'
  <2>1. /\ UNCHANGED <<job, session, raced, astray>>
        /\ pc[r] = "write" /\ pc' = [pc EXCEPT ![r] = "list"]
        /\ \A q \in Runs \ {r} : hand'[q] = hand[q] /\ pc'[q] = pc[q]
    BY <1>11 DEF Write
  <2>2. hand[r].item \in Items /\ \A j \in Items \ {hand[r].item} : row'[j] = row[j]
    BY <1>11, WriteEffect
  <2>3. <<r, hand[r].item>> \in astray \/ Sole(r)
    BY <2>1 DEF ThreadInv, Sole
  <2>4. ConflictInv'
    <3>1. \A q \in Runs \ {r} : <<r, hand[r].item>> \in astray =>
             Overtaken(astray', q, hand[r].item)
      BY <2>1 DEF Overtaken
    <3>2. \A q \in Runs \ {r} : Sole(q) /\ hand[q].item = hand[r].item =>
             Overtaken(astray', q, hand[q].item)
      BY <2>3, <3>1 DEF ThreadInv
    <3>3. \A q \in Runs : /\ Sole(q)' <=> Sole(q)
                          /\ session'[q] = "broken" => q # r
      BY <2>1 DEF ThreadInv, Sole
    <3> QED
      BY <1>0, <2>1, <2>2, <3>2, <3>3
  <2>5. FailedInv'
    BY <1>0, <2>1 DEF ThreadInv, Sole
  <2> QED
    BY <2>4, <2>5
<1>12. ASSUME NEW r \in Runs, Conflict(r) PROVE FailureInv'
  BY <1>0, <1>12 DEF Conflict, ThreadInv, Sole
<1>13. ASSUME NEW r \in Runs, RecordRaises(r) PROVE FailureInv'
  BY <1>0, <1>13 DEF RecordRaises, ThreadInv, Sole
<1>14. ASSUME NEW r \in Runs, ItemFailsJob(r) PROVE FailureInv'
  BY <1>0, <1>14 DEF ItemFailsJob, ThreadInv, Sole
<1>15. ASSUME NEW r \in Runs, End(r) PROVE FailureInv'
  BY <1>0, <1>15 DEF End, ThreadInv, Sole
<1>18. ASSUME NEW r \in Runs, Check(r) PROVE FailureInv'
  BY <1>0, <1>18 DEF Check, InTurn, ThreadInv, Sole
<1>19. ASSUME NEW r \in Runs, Commit(r) PROVE FailureInv'
  BY <1>0, <1>19 DEF Commit, ThreadInv, Sole
<1>16. CASE UNCHANGED vars
  BY <1>16 DEF vars
<1> QED
  BY <1>1, <1>2, <1>3, <1>4, <1>5, <1>6, <1>7, <1>8, <1>9, <1>10, <1>11, <1>12,
     <1>13, <1>14, <1>15, <1>16, <1>18, <1>19 DEF Next, Run, Quiet

LEMMA FailureCorrect == Spec => []FailureInv
  BY FailureInit, FailureStep, TypeInvariant, ThreadCorrect, PTL DEF Spec

\* A job the operator let run fails on an item only when the item is recorded
\* and another run was astray with it, or the job was created next to another.
THEOREM FailuresLoseNothing == Spec => []FailsOnlyOnRecorded
<1>1. FailureInv => FailsOnlyOnRecorded
  BY DEF FailureInv, FailedInv, FailsOnlyOnRecorded, Overtaken, Astray
<1> QED
  BY <1>1, FailureCorrect, PTL

-----------------------------------------------------------------------------
(* Duplicates.                                                             *)

\* A message is not sent through a broken session, nor when it is known to be
\* done.
MailInv ==
    \A r \in Runs :
        /\ pc[r] \in {"pick", "deliver", "caught"} => hand[r].goal = "done"
        /\ hand[r].item \in Mail /\ session[r] = "broken" /\ pc[r] = "lookup" =>
             hand[r].goal = "failed"
        /\ hand[r].item \in Mail /\ pc[r] \in {"deliver", "caught", "lookup"} =>
             hand[r].seen.status # "done"

LEMMA MailInit == Init => MailInv
  BY DEF Init, MailInv

LEMMA MailStep == TypeInv /\ ThreadInv /\ MailInv /\ [Next]_vars => MailInv'
<1> SUFFICES ASSUME TypeOK, RowInv, ThreadInv, MailInv, [Next]_vars
             PROVE  MailInv'
  BY DEF TypeInv
<1>1. ASSUME NEW i \in Dav, Edit(i) PROVE MailInv'
  BY <1>1
  DEF Edit, MailInv, RowInv, ThreadInv, Sole, TypeOK, InHand, Holding, mailcow,
      threadVars
<1>2. ASSUME NEW r \in Runs, Start(r) PROVE MailInv'
  BY <1>2
  DEF Start, Goto, MailInv, RowInv, ThreadInv, Sole, TypeOK, InHand, Holding, mailcow,
      threadVars
<1>3. ASSUME NEW r \in Runs, Cancel(r) PROVE MailInv'
  BY <1>3
  DEF Cancel, MailInv, RowInv, ThreadInv, Sole, TypeOK, InHand, Holding, mailcow, threadVars
<1>4. ASSUME NEW r \in Runs, NEW i \in Items, NextItem(r, i) PROVE MailInv'
  BY <1>4
  DEF NextItem, Fresh, Goto, MailInv, RowInv, ThreadInv, Sole, TypeOK, InHand, Holding,
      mailcow, threadVars
<1>5. ASSUME NEW r \in Runs, Pick(r) PROVE MailInv'
  <2>1. CASE pc'[r] = "list"
    BY <1>5, <2>1 DEF Pick, LetGo, Goto, Empty, MailInv, TypeOK
  <2>2. CASE pc'[r] # "list"
    <3>1. Turns(r, row[hand[r].item], hand[r].goal) /\ pc' = [pc EXCEPT ![r] = "deliver"]
      BY <1>5, <2>2, HandTurns DEF Goto
    <3>2. UNCHANGED <<copies, row, job, session, raced, astray>> /\ pc[r] = "pick"
            /\ NeedsImport(hand[r].item, hand[r].ver)
      BY <1>5, <2>2 DEF Pick, LetGo, Goto, TypeOK, mailcow
    <3> QED
      BY <3>1, <3>2, ItemAssumption
      DEF Turns, SameItem, NeedsImport, MailInv, RowInv, ThreadInv, Sole, TypeOK, InHand,
          Holding, mailcow, threadVars
  <2> QED
    BY <2>1, <2>2
<1>6. ASSUME NEW r \in Runs, Deliver(r) PROVE MailInv'
  BY <1>6, ItemAssumption
  DEF Deliver, Goto, MailInv, RowInv, ThreadInv, Sole, TypeOK, InHand, Holding, mailcow,
      threadVars
<1>7. ASSUME NEW r \in Runs, DeliverFails(r) PROVE MailInv'
  BY <1>7
  DEF DeliverFails, Goto, MailInv, RowInv, ThreadInv, Sole, TypeOK, InHand, Holding,
      mailcow, threadVars
<1>8. ASSUME NEW r \in Runs, Retry(r) PROVE MailInv'
  <2>1. Turns(r, hand[r].seen, hand[r].goal)
    BY <1>8, HandTurns
  <2> QED
    BY <1>8, <2>1
    DEF Retry, Goto, Turns, SameItem, MailInv, RowInv, ThreadInv, Sole, TypeOK, InHand,
        Holding, mailcow, threadVars
<1>9. ASSUME NEW r \in Runs, GiveUp(r) PROVE MailInv'
  <2>1. Turns(r, hand[r].seen, "failed")
    BY <1>9, HandTurns
  <2> QED
    BY <1>9, <2>1
    DEF GiveUp, Goto, Turns, SameItem, MailInv, RowInv, ThreadInv, Sole, TypeOK, InHand,
        Holding, mailcow, threadVars
<1>10. ASSUME NEW r \in Runs, Lookup(r) PROVE MailInv'
  <2>1. Turns(r, Seen(r), hand[r].goal)
    BY <1>10, HandTurns
  <2> QED
    BY <1>10, <2>1
    DEF Lookup, Goto, Turns, SameItem, Seen, NoRow, MailInv, RowInv, ThreadInv, Sole,
        TypeOK, InHand, Holding, mailcow, threadVars
<1>11. ASSUME NEW r \in Runs, Write(r) PROVE MailInv'
  BY <1>11
  DEF Write, Goto, LetGo, MailInv, RowInv, ThreadInv, Sole, TypeOK, InHand, Holding,
      mailcow, threadVars
<1>12. ASSUME NEW r \in Runs, Conflict(r) PROVE MailInv'
  BY <1>12
  DEF Conflict, NoRow, Goto, MailInv, RowInv, ThreadInv, Sole, TypeOK, InHand, Holding,
      mailcow, threadVars
<1>13. ASSUME NEW r \in Runs, RecordRaises(r) PROVE MailInv'
  BY <1>13
  DEF RecordRaises, Goto, MailInv, RowInv, ThreadInv, Sole, TypeOK, InHand, Holding,
      mailcow, threadVars
<1>14. ASSUME NEW r \in Runs, ItemFailsJob(r) PROVE MailInv'
  BY <1>14
  DEF ItemFailsJob, Goto, Return, MailInv, RowInv, ThreadInv, Sole, TypeOK, InHand, Holding,
      mailcow, threadVars
<1>15. ASSUME NEW r \in Runs, End(r) PROVE MailInv'
  BY <1>15
  DEF End, Goto, Return, MailInv, RowInv, ThreadInv, Sole, TypeOK, InHand, Holding, mailcow,
      threadVars
<1>18. ASSUME NEW r \in Runs, Check(r) PROVE MailInv'
  BY <1>18
  DEF Check, MailInv, RowInv, ThreadInv, Sole, TypeOK, InHand, Holding, mailcow, threadVars
<1>19. ASSUME NEW r \in Runs, Commit(r) PROVE MailInv'
  BY <1>19
  DEF Commit, MailInv, RowInv, ThreadInv, Sole, TypeOK, InHand, Holding, mailcow, threadVars
<1>16. CASE UNCHANGED vars
  BY <1>16 DEF vars, MailInv
<1> QED
  BY <1>1, <1>2, <1>3, <1>4, <1>5, <1>6, <1>7, <1>8, <1>9, <1>10, <1>11, <1>12,
     <1>13, <1>14, <1>15, <1>16, <1>18, <1>19 DEF Next, Run, Quiet

LEMMA MailCorrect == Spec => []MailInv
  BY MailInit, MailStep, TypeInvariant, ThreadCorrect, PTL DEF Spec

\* Run r, which has message i in hand, may still send it or has failed to.
Sending(r, i) ==
    /\ pc[r] \in InHand /\ hand[r].item = i /\ session[r] = "ok"
    /\ pc[r] \in {"pick", "deliver", "caught"} \/ hand[r].goal = "failed"

\* Run r was astray with i and is through with it.
Late(r, i) == <<r, i>> \in astray /\ ~Sending(r, i)

Lates(i) == {r \in Runs : Late(r, i)}

\* Whoever is late stays so: no other copy of the message comes from it.
LEMMA LateStays ==
    ASSUME TypeOK, RowInv, ThreadInv, MailInv, [Next]_vars
    PROVE  \A q \in Runs, m \in Mail : Late(q, m) => Late(q, m)'
<1>1. ASSUME NEW i \in Dav, Edit(i)
      PROVE  \A q \in Runs, m \in Mail : Late(q, m) => Late(q, m)'
  BY <1>1 DEF Edit, Late, Sending, ThreadInv, Sole, MailInv, TypeOK, InHand
<1>2. ASSUME NEW r \in Runs, Start(r)
      PROVE  \A q \in Runs, m \in Mail : Late(q, m) => Late(q, m)'
  BY <1>2 DEF Start, Goto, Late, Sending, ThreadInv, Sole, MailInv, TypeOK, InHand
<1>3. ASSUME NEW r \in Runs, Cancel(r)
      PROVE  \A q \in Runs, m \in Mail : Late(q, m) => Late(q, m)'
  BY <1>3 DEF Cancel, Late, Sending, ThreadInv, Sole, MailInv, TypeOK, InHand
<1>4. ASSUME NEW r \in Runs, NEW i \in Items, NextItem(r, i)
      PROVE  \A q \in Runs, m \in Mail : Late(q, m) => Late(q, m)'
  <2>1. /\ astray \subseteq astray' /\ UNCHANGED session /\ i \in todo[r]
        /\ \A q \in Runs \ {r} : hand'[q] = hand[q] /\ pc'[q] = pc[q]
    BY <1>4 DEF NextItem, Goto
  <2>2. hand'[r].item = i
    BY <1>4, TakenUp DEF NextItem, TypeOK
  <2>3. <<r, i>> \notin astray
    BY <2>1 DEF ThreadInv
  <2> QED
    BY <2>1, <2>2, <2>3 DEF Late, Sending
<1>5. ASSUME NEW r \in Runs, Pick(r)
      PROVE  \A q \in Runs, m \in Mail : Late(q, m) => Late(q, m)'
  <2>1. CASE pc'[r] = "list"
    BY <1>5, <2>1
    DEF Pick, LetGo, Goto, Late, Sending, ThreadInv, Sole, MailInv, TypeOK, InHand
  <2>2. CASE pc'[r] # "list"
    <3>1. Turns(r, row[hand[r].item], hand[r].goal) /\ pc' = [pc EXCEPT ![r] = "deliver"]
      BY <1>5, <2>2, HandTurns DEF Goto
    <3>2. UNCHANGED <<copies, row, job, session, raced, astray>> /\ pc[r] = "pick"
            /\ NeedsImport(hand[r].item, hand[r].ver)
      BY <1>5, <2>2 DEF Pick, LetGo, Goto, TypeOK, mailcow
    <3> QED
      BY <3>1, <3>2
      DEF Turns, SameItem, NeedsImport, Late, Sending, ThreadInv, Sole, MailInv, TypeOK,
          InHand
  <2> QED
    BY <2>1, <2>2
<1>6. ASSUME NEW r \in Runs, Deliver(r)
      PROVE  \A q \in Runs, m \in Mail : Late(q, m) => Late(q, m)'
  BY <1>6 DEF Deliver, Goto, Late, Sending, ThreadInv, Sole, MailInv, TypeOK, InHand
<1>7. ASSUME NEW r \in Runs, DeliverFails(r)
      PROVE  \A q \in Runs, m \in Mail : Late(q, m) => Late(q, m)'
  BY <1>7 DEF DeliverFails, Goto, Late, Sending, ThreadInv, Sole, MailInv, TypeOK, InHand
<1>8. ASSUME NEW r \in Runs, Retry(r)
      PROVE  \A q \in Runs, m \in Mail : Late(q, m) => Late(q, m)'
  <2>1. Turns(r, hand[r].seen, hand[r].goal)
    BY <1>8, HandTurns
  <2> QED
    BY <1>8, <2>1
    DEF Retry, Goto, Turns, SameItem, Late, Sending, ThreadInv, Sole, MailInv, TypeOK,
        InHand
<1>9. ASSUME NEW r \in Runs, GiveUp(r)
      PROVE  \A q \in Runs, m \in Mail : Late(q, m) => Late(q, m)'
  <2>1. Turns(r, hand[r].seen, "failed")
    BY <1>9, HandTurns
  <2> QED
    BY <1>9, <2>1
    DEF GiveUp, Goto, Turns, SameItem, Late, Sending, ThreadInv, Sole, MailInv, TypeOK,
        InHand
<1>10. ASSUME NEW r \in Runs, Lookup(r)
       PROVE  \A q \in Runs, m \in Mail : Late(q, m) => Late(q, m)'
  <2>1. Turns(r, Seen(r), hand[r].goal)
    BY <1>10, HandTurns
  <2> QED
    BY <1>10, <2>1
    DEF Lookup, Goto, Turns, SameItem, Seen, NoRow, Late, Sending, ThreadInv, Sole, MailInv,
        TypeOK, InHand
<1>11. ASSUME NEW r \in Runs, Write(r)
       PROVE  \A q \in Runs, m \in Mail : Late(q, m) => Late(q, m)'
  BY <1>11 DEF Write, Goto, LetGo, Late, Sending, ThreadInv, Sole, MailInv, TypeOK, InHand
<1>12. ASSUME NEW r \in Runs, Conflict(r)
       PROVE  \A q \in Runs, m \in Mail : Late(q, m) => Late(q, m)'
  BY <1>12 DEF Conflict, Goto, Late, Sending, ThreadInv, Sole, MailInv, TypeOK, InHand
<1>13. ASSUME NEW r \in Runs, RecordRaises(r)
       PROVE  \A q \in Runs, m \in Mail : Late(q, m) => Late(q, m)'
  BY <1>13 DEF RecordRaises, Goto, Late, Sending, ThreadInv, Sole, MailInv, TypeOK, InHand
<1>14. ASSUME NEW r \in Runs, ItemFailsJob(r)
       PROVE  \A q \in Runs, m \in Mail : Late(q, m) => Late(q, m)'
  BY <1>14
  DEF ItemFailsJob, Goto, Return, Late, Sending, ThreadInv, Sole, MailInv, TypeOK, InHand
<1>15. ASSUME NEW r \in Runs, End(r)
       PROVE  \A q \in Runs, m \in Mail : Late(q, m) => Late(q, m)'
  BY <1>15 DEF End, Goto, Return, Late, Sending, ThreadInv, Sole, MailInv, TypeOK, InHand
<1>18. ASSUME NEW r \in Runs, Check(r)
       PROVE  \A q \in Runs, m \in Mail : Late(q, m) => Late(q, m)'
  BY <1>18 DEF Check, InTurn, Late, Sending, ThreadInv, Sole, MailInv, TypeOK, InHand
<1>19. ASSUME NEW r \in Runs, Commit(r)
       PROVE  \A q \in Runs, m \in Mail : Late(q, m) => Late(q, m)'
  BY <1>19 DEF Commit, Late, Sending, ThreadInv, Sole, MailInv, TypeOK, InHand
<1>16. CASE UNCHANGED vars
  BY <1>16 DEF vars, Late, Sending
<1> QED
  BY <1>1, <1>2, <1>3, <1>4, <1>5, <1>6, <1>7, <1>8, <1>9, <1>10, <1>11, <1>12,
     <1>13, <1>14, <1>15, <1>16, <1>18, <1>19 DEF Next, Run, Quiet

LEMMA LateRunsGrow ==
    ASSUME NEW S \in SUBSET Runs, NEW T \in SUBSET Runs, S \subseteq T
    PROVE  /\ Cardinality(S) \in Nat /\ Cardinality(T) \in Nat
           /\ Cardinality(S) <= Cardinality(T)
           /\ \A r \in T \ S : Cardinality(S) + 1 <= Cardinality(T)
<1>1. IsFiniteSet(Runs)
  BY FS_Interval, BoundsAssumption DEF Runs
<1>2. IsFiniteSet(S) /\ IsFiniteSet(T)
  BY <1>1, FS_Subset
<1>3. Cardinality(S) \in Nat /\ Cardinality(T) \in Nat /\ Cardinality(S) <= Cardinality(T)
  BY <1>2, FS_Subset, FS_CardinalityType
<1>4. ASSUME NEW r \in T \ S PROVE Cardinality(S) + 1 <= Cardinality(T)
  <2>1. Cardinality(S \cup {r}) = Cardinality(S) + 1 /\ IsFiniteSet(S \cup {r})
    BY <1>2, <1>4, FS_AddElement
  <2>2. Cardinality(S \cup {r}) <= Cardinality(T)
    BY <1>2, <1>4, FS_Subset
  <2> QED
    BY <2>1, <2>2
<1> QED
  BY <1>3, <1>4

\* The sole run has message i in hand, at one of these points.
At(r, i, where) ==
    Sole(r) /\ pc[r] \in where /\ hand[r].item = i

\* With n late runs, a message has a copy for each and one more.  The one more
\* is not there yet (copies[i] <= n) until the item is done or r is about to
\* record it, ...
Explains(r, i) == At(r, i, {"lookup", "write"}) /\ hand[r].goal = "done"

Explained(i, n) ==
    copies[i] <= n \/ row[i].status = "done" \/ \E r \in Runs : Explains(r, i)

\* ... and certainly not while r may still send the message, or record anything
\* but that it is done.
Owes(r, i) ==
    \/ At(r, i, {"deliver", "caught"}) /\ session[r] = "ok"
    \/ At(r, i, {"lookup", "write"}) /\ session[r] = "ok" /\ hand[r].goal = "failed"
    \/ /\ At(r, i, {"write"}) /\ hand[r].goal = "done"
       /\ row[i].status = "failed" /\ hand[r].seen.status # "failed"

Unsent(i, n) == \A r \in Runs : Owes(r, i) => copies[i] <= n

Copied(i, n) == copies[i] <= 1 + n /\ Explained(i, n) /\ Unsent(i, n)

CopyInv == \A i \in Mail : Copied(i, Cardinality(Lates(i)))

\* A step of r, which leaves the other threads alone: what remains to be shown is
\* about r.
LEMMA CopiedKept ==
    ASSUME NEW i \in Mail, NEW m \in Nat, NEW n \in Nat, Copied(i, m), copies[i] \in Nat,
           copies'[i] \in Nat, copies'[i] + m <= copies[i] + n,
           row'[i].status = row[i].status \/ row'[i].status = "done",
           NEW r \in Runs, UNCHANGED raced,
           \A q \in Runs \ {r} : /\ job'[q] = job[q] /\ pc'[q] = pc[q]
                                 /\ hand'[q] = hand[q] /\ session'[q] = session[q],
           Explains(r, i) => Explains(r, i)' \/ copies'[i] <= n \/ row'[i].status = "done",
           Owes(r, i)' => copies'[i] <= n
    PROVE  Copied(i, n)'
<1>1. /\ copies[i] <= m => copies'[i] <= n
      /\ copies'[i] <= 1 + n
  BY DEF Copied
<1>2. \A q \in Runs \ {r} : Explains(q, i) => Explains(q, i)'
  BY DEF Explains, At, Sole
<1>3. \A q \in Runs \ {r} : Owes(q, i)' => Owes(q, i)
  BY DEF Owes, At, Sole
<1>4. Explained(i, n)'
  <2>1. CASE copies[i] <= m \/ row[i].status = "done"
    BY <1>1, <2>1 DEF Explained
  <2>2. ASSUME NEW q \in Runs, Explains(q, i) PROVE Explained(i, n)'
    BY <1>2, <2>2 DEF Explained
  <2> QED
    BY <2>1, <2>2 DEF Copied, Explained
<1>5. Unsent(i, n)'
  BY <1>1, <1>3 DEF Unsent, Copied
<1> QED
  BY <1>1, <1>4, <1>5 DEF Copied

LEMMA CopyInit == Init => CopyInv
<1> SUFFICES ASSUME Init, NEW i \in Mail PROVE Copied(i, Cardinality(Lates(i)))
  BY DEF CopyInv
<1>1. Cardinality(Lates(i)) \in Nat
  BY LateRunsGrow DEF Lates
<1> QED
  BY <1>1 DEF Init, Copied, Explained, Unsent, Owes, At, Sole

LEMMA CopyStep == TypeInv /\ ThreadInv /\ MailInv /\ CopyInv /\ [Next]_vars => CopyInv'
<1> SUFFICES ASSUME TypeOK, RowInv, ThreadInv, MailInv, CopyInv, [Next]_vars, NEW i \in Mail
             PROVE  Copied(i, Cardinality(Lates(i)))'
  BY DEF TypeInv, CopyInv
<1>0. PICK m \in Nat, n \in Nat :
        /\ m = Cardinality(Lates(i)) /\ n = Cardinality(Lates(i)') /\ m <= n
        /\ \A r \in Runs : Late(r, i)' /\ ~Late(r, i) => m + 1 <= n
  <2>1. /\ Lates(i) \in SUBSET Runs /\ Lates(i)' \in SUBSET Runs
        /\ Lates(i) \subseteq Lates(i)'
    BY LateStays DEF Lates
  <2>2. \A r \in Runs : Late(r, i)' /\ ~Late(r, i) => r \in Lates(i)' \ Lates(i)
    BY DEF Lates
  <2> QED
    BY <2>1, <2>2, LateRunsGrow
<1>a. m <= n /\ i \in Items /\ copies[i] \in Nat /\ copies'[i] \in Nat
  BY <1>0, TypeStep DEF TypeInv, TypeOK, Items
<1>b. /\ Copied(i, m) /\ copies[i] <= 1 + m
      /\ \A r \in Runs : Owes(r, i) => copies[i] <= m
      /\ copies[i] <= m \/ row[i].status = "done" \/ \E q \in Runs : Explains(q, i)
  BY <1>0 DEF CopyInv, Copied, Explained, Unsent
<1> SUFFICES Copied(i, n)'
  BY <1>0
<1>c. copies'[i] <= n => Copied(i, n)'
  BY <1>a DEF Copied, Explained, Unsent
<1>1. ASSUME NEW e \in Dav, Edit(e) PROVE Copied(i, n)'
  BY <1>a, <1>b, <1>1 DEF Edit, mailcow, Copied, Explained, Unsent, Explains, Owes, At, Sole
<1>2. ASSUME NEW r \in Runs, Start(r) PROVE Copied(i, n)'
  <2>1. /\ UNCHANGED <<copies, row, raced>>
        /\ \A q \in Runs \ {r} : /\ job'[q] = job[q] /\ pc'[q] = pc[q]
                                 /\ hand'[q] = hand[q] /\ session'[q] = session[q]
    BY <1>2 DEF Start, Goto, mailcow, TypeOK
  <2>2. Explains(r, i) => Explains(r, i)' \/ copies[i] <= m \/ row[i].status = "done"
    BY <1>b, <1>2 DEF Start, Goto, Explains, Owes, At, Sole, TypeOK
  <2>3. Owes(r, i)' => copies[i] <= m
    BY <1>b, <1>2 DEF Start, Goto, Explains, Owes, At, Sole, TypeOK
  <2> QED
    BY <1>a, <1>b, <2>1, <2>2, <2>3, CopiedKept
<1>3. ASSUME NEW r \in Runs, Cancel(r) PROVE Copied(i, n)'
  <2>1. /\ UNCHANGED <<copies, row, pc, hand, session, raced>>
        /\ job[r] # "cancelled" /\ job' = [job EXCEPT ![r] = "cancelled"]
    BY <1>3 DEF Cancel, mailcow
  <2>2. ~Owes(r, i)'
    BY <2>1 DEF Owes, At, Sole, TypeOK
  <2>3. Explains(r, i) => copies'[i] <= n
    <3> SUFFICES ASSUME Explains(r, i) PROVE copies[i] <= n
      BY <2>1
    <3>1. Late(r, i)' /\ ~Late(r, i)
      BY <1>3, <2>1 DEF Cancel, Explains, At, Sole, Late, Sending, ThreadInv, InHand, TypeOK
    <3> QED
      BY <1>0, <1>a, <1>b, <3>1
  <2>4. \A q \in Runs \ {r} : job'[q] = job[q]
    BY <2>1 DEF TypeOK
  <2> QED
    BY <1>a, <1>b, <2>1, <2>2, <2>3, <2>4, CopiedKept
<1>4. ASSUME NEW r \in Runs, NEW k \in Items, NextItem(r, k) PROVE Copied(i, n)'
  <2>1. /\ UNCHANGED <<copies, row, raced>>
        /\ \A q \in Runs \ {r} : /\ job'[q] = job[q] /\ pc'[q] = pc[q]
                                 /\ hand'[q] = hand[q] /\ session'[q] = session[q]
    BY <1>4 DEF NextItem, Goto, mailcow, TypeOK
  <2>2. Explains(r, i) => Explains(r, i)' \/ copies[i] <= m \/ row[i].status = "done"
    BY <1>b, <1>4 DEF NextItem, Goto, Explains, Owes, At, Sole, TypeOK
  <2>3. Owes(r, i)' => copies[i] <= m
    BY <1>b, <1>4 DEF NextItem, Goto, Explains, Owes, At, Sole, TypeOK
  <2> QED
    BY <1>a, <1>b, <2>1, <2>2, <2>3, CopiedKept
<1>5. ASSUME NEW r \in Runs, Pick(r) PROVE Copied(i, n)'
  <2>1. /\ UNCHANGED <<copies, row, job, session, raced>> /\ pc[r] = "pick"
        /\ \A q \in Runs \ {r} : pc'[q] = pc[q] /\ hand'[q] = hand[q]
    BY <1>5 DEF Pick, LetGo, Goto, mailcow, TypeOK
  <2>2. ~Explains(r, i)
    BY <2>1 DEF Explains, At, Sole
  <2>3. Owes(r, i)' => copies[i] <= n
    <3> SUFFICES ASSUME Owes(r, i)' PROVE copies[i] <= n
      OBVIOUS
    <3>1. Sole(r) /\ pc'[r] # "list"
      BY <2>1 DEF Owes, At, Sole
    <3>2. hand[r].item = i /\ NeedsImport(i, hand[r].ver)
      <4>1. hand'[r].item = i
        BY DEF Owes, At, Sole
      <4>2. Turns(r, row[hand[r].item], hand[r].goal)
        BY <1>5, <3>1, HandTurns
      <4>3. NeedsImport(hand[r].item, hand[r].ver)
        BY <1>5, <3>1 DEF Pick, LetGo, Goto, TypeOK
      <4> QED
        BY <4>1, <4>2, <4>3 DEF Turns, SameItem
    <3>3. row[i].status # "done"
      BY <3>2, ItemAssumption DEF NeedsImport
    <3>4. \A q \in Runs : ~Explains(q, i)
      BY <2>2, <3>1 DEF Explains, At, Sole, ThreadInv
    <3> QED
      BY <1>a, <1>b, <3>3, <3>4
  <2> QED
    BY <1>a, <1>b, <2>1, <2>2, <2>3, CopiedKept
<1>6. ASSUME NEW r \in Runs, Deliver(r) PROVE Copied(i, n)'
  <2>1. /\ UNCHANGED <<row, job, hand, session, raced, astray>>
        /\ pc[r] = "deliver" /\ pc'[r] = "lookup" /\ hand[r].goal = "done"
        /\ \A q \in Runs \ {r} : pc'[q] = pc[q]
    BY <1>6 DEF Deliver, Goto, MailInv, TypeOK
  <2>2. ~Explains(r, i) /\ ~Owes(r, i)'
    BY <2>1 DEF Explains, Owes, At, Sole
  <2>3. CASE hand[r].item # i
    <3>1. copies'[i] = copies[i]
      BY <1>6, <2>3 DEF Deliver, TypeOK
    <3> QED
      BY <1>a, <1>b, <2>1, <2>2, <3>1, CopiedKept
  <2>4. CASE hand[r].item = i
    <3>1. copies'[i] = copies[i] + 1 /\ session[r] = "ok"
      BY <1>6, <2>4, ItemAssumption DEF Deliver, TypeOK
    <3>2. CASE Sole(r)
      <4>1. copies[i] <= m
        BY <1>b, <2>1, <2>4, <3>1, <3>2 DEF Owes, At, Sole
      <4>2. Explains(r, i)'
        BY <2>1, <2>4, <3>2 DEF Explains, At, Sole
      <4>3. \A q \in Runs : ~Owes(q, i)'
        BY <2>1, <2>2, <3>2 DEF Owes, At, Sole, ThreadInv
      <4> QED
        BY <1>a, <3>1, <4>1, <4>2, <4>3 DEF Copied, Explained, Unsent
    <3>3. CASE ~Sole(r)
      <4>1. Late(r, i)' /\ ~Late(r, i)
        BY <2>1, <2>4, <3>1, <3>3 DEF Late, Sending, ThreadInv, Sole, InHand, TypeOK
      <4>2. m + 1 <= n
        BY <1>0, <4>1
      <4> QED
        BY <1>a, <1>b, <2>1, <2>2, <3>1, <4>2, CopiedKept
    <3> QED
      BY <3>2, <3>3
  <2> QED
    BY <2>3, <2>4
<1>7. ASSUME NEW r \in Runs, DeliverFails(r) PROVE Copied(i, n)'
  <2>1. /\ UNCHANGED <<copies, row, raced>>
        /\ \A q \in Runs \ {r} : /\ job'[q] = job[q] /\ pc'[q] = pc[q]
                                 /\ hand'[q] = hand[q] /\ session'[q] = session[q]
    BY <1>7 DEF DeliverFails, Goto, mailcow, TypeOK
  <2>2. Explains(r, i) => Explains(r, i)' \/ copies[i] <= m \/ row[i].status = "done"
    BY <1>b, <1>7 DEF DeliverFails, Goto, Explains, Owes, At, Sole, TypeOK
  <2>3. Owes(r, i)' => copies[i] <= m
    BY <1>b, <1>7 DEF DeliverFails, Goto, Explains, Owes, At, Sole, TypeOK
  <2> QED
    BY <1>a, <1>b, <2>1, <2>2, <2>3, CopiedKept
<1>8. ASSUME NEW r \in Runs, Retry(r) PROVE Copied(i, n)'
  <2>1. Turns(r, hand[r].seen, hand[r].goal)
    BY <1>8, HandTurns
  <2>2. /\ UNCHANGED <<copies, row, raced>>
        /\ \A q \in Runs \ {r} : /\ job'[q] = job[q] /\ pc'[q] = pc[q]
                                 /\ hand'[q] = hand[q] /\ session'[q] = session[q]
    BY <1>8, <2>1 DEF Retry, Goto, mailcow, TypeOK, Turns, SameItem
  <2>3. Explains(r, i) => Explains(r, i)' \/ copies[i] <= m \/ row[i].status = "done"
    BY <1>b, <1>8, <2>1 DEF Retry, Goto, Explains, Owes, At, Sole, TypeOK, Turns, SameItem
  <2>4. Owes(r, i)' => copies[i] <= m
    BY <1>b, <1>8, <2>1 DEF Retry, Goto, Explains, Owes, At, Sole, TypeOK, Turns, SameItem
  <2> QED
    BY <1>a, <1>b, <2>2, <2>3, <2>4, CopiedKept
<1>9. ASSUME NEW r \in Runs, GiveUp(r) PROVE Copied(i, n)'
  <2>1. Turns(r, hand[r].seen, "failed")
    BY <1>9, HandTurns
  <2>2. /\ UNCHANGED <<copies, row, raced>>
        /\ \A q \in Runs \ {r} : /\ job'[q] = job[q] /\ pc'[q] = pc[q]
                                 /\ hand'[q] = hand[q] /\ session'[q] = session[q]
    BY <1>9, <2>1 DEF GiveUp, Goto, mailcow, TypeOK, Turns, SameItem
  <2>3. Explains(r, i) => Explains(r, i)' \/ copies[i] <= m \/ row[i].status = "done"
    BY <1>b, <1>9, <2>1 DEF GiveUp, Goto, Explains, Owes, At, Sole, TypeOK, Turns, SameItem
  <2>4. Owes(r, i)' => copies[i] <= m
    BY <1>b, <1>9, <2>1 DEF GiveUp, Goto, Explains, Owes, At, Sole, TypeOK, Turns, SameItem
  <2> QED
    BY <1>a, <1>b, <2>2, <2>3, <2>4, CopiedKept
<1>10. ASSUME NEW r \in Runs, Lookup(r) PROVE Copied(i, n)'
  <2>1. Turns(r, Seen(r), hand[r].goal)
    BY <1>10, HandTurns
  <2>2. /\ UNCHANGED <<copies, row, raced>>
        /\ \A q \in Runs \ {r} : /\ job'[q] = job[q] /\ pc'[q] = pc[q]
                                 /\ hand'[q] = hand[q] /\ session'[q] = session[q]
    BY <1>10, <2>1 DEF Lookup, Goto, mailcow, TypeOK, Turns, SameItem, Seen, RowInv, NoRow
  <2>3. Explains(r, i) => Explains(r, i)' \/ copies[i] <= m \/ row[i].status = "done"
    BY <1>b, <1>10, <2>1, <1>a
    DEF Lookup, Goto, Explains, Owes, At, Sole, MailInv, TypeOK, Turns, SameItem, Seen,
        RowInv, NoRow
  <2>4. Owes(r, i)' => copies[i] <= m
    <3>1. hand[r].item = i => ~(row[i].status = "failed" /\ hand'[r].seen.status # "failed")
      BY <1>a, <1>10, <2>1 DEF Lookup, Turns, Seen, MailInv, RowInv, TypeOK, Hands, Rows
    <3>2. Owes(r, i)' => Owes(r, i)
      BY <1>10, <2>1, <3>1 DEF Lookup, Goto, Owes, At, Sole, Turns, SameItem, TypeOK
    <3> QED
      BY <1>b, <3>2
  <2> QED
    BY <1>a, <1>b, <2>2, <2>3, <2>4, CopiedKept
<1>11. ASSUME NEW r \in Runs, Write(r) PROVE Copied(i, n)'
  <2>1. /\ UNCHANGED <<copies, job, session, raced, astray>>
        /\ pc[r] = "write" /\ pc'[r] = "list"
        /\ \A q \in Runs \ {r} : pc'[q] = pc[q] /\ hand'[q] = hand[q]
    BY <1>11 DEF Write, LetGo, Goto, mailcow, TypeOK
  <2>2. ~Owes(r, i)'
    BY <2>1 DEF Owes, At, Sole
  <2>3. CASE hand[r].item # i
    <3>1. row'[i] = row[i]
      BY <1>11, <1>a, <2>3, WriteEffect
    <3>2. ~Explains(r, i)
      BY <2>3 DEF Explains, At, Sole
    <3> QED
      BY <1>a, <1>b, <2>1, <2>2, <3>1, <3>2, CopiedKept
  <2>4. CASE hand[r].item = i /\ hand[r].goal = "done"
    <3>1. \/ row'[i].status = "done"
          \/ row'[i].status = row[i].status /\ hand[r].seen.status = "done"
      BY <1>11, <2>4, WriteEffect
    <3>2. row'[i].status \in {"done", "failed"}
      BY <1>11, <1>a, <2>4, TypeStep, WriteEffect DEF TypeInv, RowInv, TypeOK, Rows
    <3>3. Explains(r, i) => copies[i] <= m \/ row'[i].status = "done"
      BY <1>b, <2>1, <2>4, <3>1, <3>2 DEF Explains, Owes, At, Sole
    <3> QED
      BY <1>a, <1>b, <2>1, <2>2, <3>1, <3>3, CopiedKept
  <2>5. CASE hand[r].item = i /\ hand[r].goal = "failed"
    <3>1. CASE Sole(r)
      <4>1. Owes(r, i)
        BY <2>1, <2>5, <3>1 DEF Owes, At, Sole, ThreadInv, TypeOK
      <4> QED
        BY <1>a, <1>b, <1>c, <2>1, <4>1
    <3>2. CASE ~Sole(r)
      <4>1. Late(r, i)' /\ ~Late(r, i)
        BY <2>1, <2>5, <3>2 DEF Late, Sending, ThreadInv, Sole, InHand, TypeOK
      <4> QED
        BY <1>0, <1>a, <1>b, <1>c, <2>1, <4>1
    <3> QED
      BY <3>1, <3>2
  <2> QED
    BY <1>11, <2>3, <2>4, <2>5, WriteEffect
<1>12. ASSUME NEW r \in Runs, Conflict(r) PROVE Copied(i, n)'
  <2>1. /\ UNCHANGED <<copies, row, raced>>
        /\ \A q \in Runs \ {r} : /\ job'[q] = job[q] /\ pc'[q] = pc[q]
                                 /\ hand'[q] = hand[q] /\ session'[q] = session[q]
    BY <1>12 DEF Conflict, Goto, mailcow, TypeOK, NoRow, RowInv, Rows
  <2>2. Explains(r, i) => Explains(r, i)' \/ copies[i] <= m \/ row[i].status = "done"
    BY <1>b, <1>12, <1>a
    DEF Conflict, Goto, Explains, Owes, At, Sole, TypeOK, NoRow, RowInv, Rows
  <2>3. Owes(r, i)' => copies[i] <= m
    BY <1>b, <1>12, <1>a
    DEF Conflict, Goto, Explains, Owes, At, Sole, TypeOK, NoRow, RowInv, Rows
  <2> QED
    BY <1>a, <1>b, <2>1, <2>2, <2>3, CopiedKept
<1>13. ASSUME NEW r \in Runs, RecordRaises(r) PROVE Copied(i, n)'
  <2>1. /\ UNCHANGED <<copies, row, raced>>
        /\ \A q \in Runs \ {r} : /\ job'[q] = job[q] /\ pc'[q] = pc[q]
                                 /\ hand'[q] = hand[q] /\ session'[q] = session[q]
    BY <1>13 DEF RecordRaises, Goto, mailcow, TypeOK
  <2>2. Explains(r, i) => Explains(r, i)' \/ copies[i] <= m \/ row[i].status = "done"
    BY <1>b, <1>13 DEF RecordRaises, Goto, Explains, Owes, At, Sole, MailInv, TypeOK
  <2>3. Owes(r, i)' => copies[i] <= m
    BY <1>b, <1>13 DEF RecordRaises, Goto, Explains, Owes, At, Sole, MailInv, TypeOK
  <2> QED
    BY <1>a, <1>b, <2>1, <2>2, <2>3, CopiedKept
<1>14. ASSUME NEW r \in Runs, ItemFailsJob(r) PROVE Copied(i, n)'
  <2>1. /\ UNCHANGED <<copies, row, raced>>
        /\ \A q \in Runs \ {r} : /\ job'[q] = job[q] /\ pc'[q] = pc[q]
                                 /\ hand'[q] = hand[q] /\ session'[q] = session[q]
    BY <1>14 DEF ItemFailsJob, Goto, Return, mailcow, TypeOK
  <2>2. Explains(r, i) => Explains(r, i)' \/ copies[i] <= m \/ row[i].status = "done"
    BY <1>b, <1>14 DEF ItemFailsJob, Goto, Return, Explains, Owes, At, Sole, TypeOK
  <2>3. Owes(r, i)' => copies[i] <= m
    BY <1>b, <1>14 DEF ItemFailsJob, Goto, Return, Explains, Owes, At, Sole, TypeOK
  <2> QED
    BY <1>a, <1>b, <2>1, <2>2, <2>3, CopiedKept
<1>15. ASSUME NEW r \in Runs, End(r) PROVE Copied(i, n)'
  <2>1. /\ UNCHANGED <<copies, row, raced>>
        /\ \A q \in Runs \ {r} : /\ job'[q] = job[q] /\ pc'[q] = pc[q]
                                 /\ hand'[q] = hand[q] /\ session'[q] = session[q]
    BY <1>15 DEF End, Goto, Return, mailcow, TypeOK
  <2>2. Explains(r, i) => Explains(r, i)' \/ copies[i] <= m \/ row[i].status = "done"
    BY <1>b, <1>15 DEF End, Goto, Return, Explains, Owes, At, Sole, TypeOK
  <2>3. Owes(r, i)' => copies[i] <= m
    BY <1>b, <1>15 DEF End, Goto, Return, Explains, Owes, At, Sole, TypeOK
  <2> QED
    BY <1>a, <1>b, <2>1, <2>2, <2>3, CopiedKept
<1>18. ASSUME NEW r \in Runs, Check(r) PROVE Copied(i, n)'
  <2>1. UNCHANGED <<mailcow, row, pc, hand, session>>
    BY <1>18 DEF Check, InTurn
  <2>2. \A q \in Runs : Sole(q)' => Sole(q)
    BY <1>18 DEF Check, InTurn, Sole, TypeOK
  <2>3. \A q \in Runs : Sole(q) => Sole(q)'
    BY <1>18 DEF Check, InTurn, Sole, TypeOK
  <2> QED
    BY <1>a, <1>b, <2>1, <2>2, <2>3
    DEF mailcow, Copied, Explained, Unsent, Explains, Owes, At
<1>19. ASSUME NEW r \in Runs, Commit(r) PROVE Copied(i, n)'
  <2>1. UNCHANGED <<mailcow, row, pc, hand, session>>
    BY <1>19 DEF Commit
  <2>2. \A q \in Runs : Sole(q)' => Sole(q)
    BY <1>19 DEF Commit, Sole, TypeOK
  <2>3. \A q \in Runs : Sole(q) => Sole(q)'
    BY <1>19 DEF Commit, Sole, TypeOK
  <2> QED
    BY <1>a, <1>b, <2>1, <2>2, <2>3
    DEF mailcow, Copied, Explained, Unsent, Explains, Owes, At
<1>16. CASE UNCHANGED vars
  BY <1>a, <1>b, <1>16
  DEF vars, mailcow, Copied, Explained, Unsent, Explains, Owes, At, Sole
<1> QED
  BY <1>1, <1>2, <1>3, <1>4, <1>5, <1>6, <1>7, <1>8, <1>9, <1>10, <1>11, <1>12,
     <1>13, <1>14, <1>15, <1>16, <1>18, <1>19 DEF Next, Run, Quiet

LEMMA CopyCorrect == Spec => []CopyInv
  BY CopyInit, CopyStep, TypeInvariant, ThreadCorrect, MailCorrect, PTL DEF Spec

\* A message is in the mailbox at most once, and once more for each run that was
\* cancelled with it in hand.
THEOREM CopiesAreBounded == Spec => []DuplicatesBounded
<1>1. TypeInv /\ CopyInv => DuplicatesBounded
  <2> SUFFICES ASSUME TypeOK, CopyInv, NEW i \in Mail
               PROVE  copies[i] <= 1 + Cardinality(Astray(i))
    BY DEF TypeInv, DuplicatesBounded
  <2>1. /\ Cardinality(Lates(i)) \in Nat /\ Cardinality(Astray(i)) \in Nat
        /\ Cardinality(Lates(i)) <= Cardinality(Astray(i))
    <3>1. /\ Lates(i) \in SUBSET Runs /\ Astray(i) \in SUBSET Runs
          /\ Lates(i) \subseteq Astray(i)
      BY DEF Lates, Late, Astray
    <3> QED
      BY <3>1, LateRunsGrow
  <2>2. copies[i] \in Nat /\ copies[i] <= 1 + Cardinality(Lates(i))
    BY DEF TypeOK, CopyInv, Copied
  <2> QED
    BY <2>1, <2>2
<1> QED
  BY <1>1, CopyCorrect, TypeInvariant, PTL

=============================================================================
