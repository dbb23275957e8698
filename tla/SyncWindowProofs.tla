--------------------------- MODULE SyncWindowProofs ---------------------------
(***************************************************************************)
(* Theorems about SyncWindow: for any mailbox, any number of jobs and any  *)
(* drift of the clocks the buffer allows for.                              *)
(***************************************************************************)
EXTENDS SyncWindow, TLAPS

\* Times are where they should be, and a resync looks back from the
\* watermark that is still there when it runs.
ClockInv ==
    /\ Origin <= now
    /\ \A i \in Items : delivered[i] <= changed[i] /\ changed[i] <= now
    /\ synced # NoTime => Origin - MaxDrift <= synced /\ synced <= now + MaxDrift
    /\ pc # "idle" /\ resync =>
         synced # NoTime /\ cats = Categories /\ mailSince = WindowStart(synced)
    /\ pc = "running" =>
         /\ Origin - MaxDrift <= started /\ started <= now + MaxDrift
         /\ davSince = IF resync THEN WindowStart(synced) ELSE NoTime

\* A message keeps its one version, a failed row belongs to an item that is
\* not there, and a listed version is one that Exchange had: if it has moved
\* on since, that was after the watermark and after the start of the run.
PageInv ==
    /\ \A i \in Mail : delivered[i] \in {NoTime, changed[i]}
    /\ \A i \in failed : delivered[i] # changed[i]
    /\ pc = "running" => \A p \in page :
         /\ p[2] # NoTime /\ p[2] <= changed[p[1]]
         /\ p[2] # changed[p[1]] =>
              /\ p[1] \notin Mail
              /\ started <= changed[p[1]] + MaxDrift
              /\ synced # NoTime => synced <= changed[p[1]] + MaxDrift

\* Whatever is missing in a category that has been followed from the start
\* changed no earlier than the watermark, give or take the drift ...
Caught ==
    synced # NoTime =>
        \A c \in Categories \ cut : \A i \in ItemsOf[c] :
            Missing(i) => synced <= changed[i] + MaxDrift

Followed == IF resync THEN Categories \ cut ELSE Categories \ NotWhole

\* ... and of what a real run is done with, no earlier than its start.
Catching ==
    pc = "running" /\ ~dry =>
        \A c \in Followed : \A i \in ItemsOf[c] \ todo :
            Missing(i) /\ (\A v \in Nat : <<i, v>> \notin page)
                => started <= changed[i] + MaxDrift

WindowInv == TypeOK /\ ClockInv /\ PageInv /\ Caught /\ Catching

-----------------------------------------------------------------------------
LEMMA ItemsOfCategories ==
    /\ ItemsOf \in [Categories -> SUBSET Items]
    /\ \A c \in Categories, i \in Items : i \in ItemsOf[c] => (i \in Mail <=> c = "mail")
  BY ItemAssumption DEF ItemsOf, Categories, Items

LEMMA InitialWindow == Init => WindowInv
<1> SUFFICES ASSUME Init PROVE WindowInv
  OBVIOUS
<1> USE ClockAssumption DEF Init, NoTime, Origin
<1>1. TypeOK
  <2>1. Origin \in Nat
    OBVIOUS
  <2>2. changed \in [Items -> Nat] /\ delivered \in [Items -> Nat]
    BY <2>1
  <2> QED
    BY <2>1, <2>2 DEF TypeOK
<1>2. ClockInv /\ PageInv
  BY DEF ClockInv, PageInv, Items
<1>3. Caught /\ Catching
  BY DEF Caught, Catching
<1> QED
  BY <1>1, <1>2, <1>3 DEF WindowInv

LEMMA TypeStep == TypeOK /\ ClockInv /\ [Next]_vars => TypeOK'
<1> SUFFICES ASSUME TypeOK, ClockInv, [Next]_vars PROVE TypeOK'
  OBVIOUS
<1> USE ClockAssumption, ItemsOfCategories
<1> USE DEF TypeOK, ClockInv, NoTime, Origin, itemVars, jobVars, runVars, WindowStart
<1>1. CASE CreateInitial
  <2>1. mailSince' \in Nat
    BY <1>1 DEF CreateInitial
  <2>2. resync' \in BOOLEAN /\ dry' \in BOOLEAN /\ cats' \subseteq Categories
    BY <1>1 DEF CreateInitial
  <2>3. pc' \in {"idle", "pending", "running"} /\ jobs' \in Nat
    BY <1>1 DEF CreateInitial
  <2>4. UNCHANGED <<now, itemVars, synced, runVars, cut, whole>>
    BY <1>1 DEF CreateInitial
  <2> QED
    BY <2>1, <2>2, <2>3, <2>4
<1>9. CASE CreateResync
  <2>1. mailSince' \in Nat
    BY <1>9 DEF CreateResync
  <2>2. resync' \in BOOLEAN /\ dry' \in BOOLEAN /\ cats' \subseteq Categories
    BY <1>9 DEF CreateResync
  <2>3. pc' \in {"idle", "pending", "running"} /\ jobs' \in Nat
    BY <1>9 DEF CreateResync
  <2>4. UNCHANGED <<now, itemVars, synced, runVars, cut, whole>>
    BY <1>9 DEF CreateResync
  <2> QED
    BY <2>1, <2>2, <2>3, <2>4
<1>2. CASE Start
  BY <1>2 DEF Start
<1>3. CASE Complete
  BY <1>3 DEF Complete, Leave, TakeHistory, NotWhole
<1>4. CASE Stop
  BY <1>4 DEF Stop, Leave
<1>10. CASE Resume
  BY <1>10 DEF Resume
<1>5. ASSUME NEW c \in Categories, NEW items \in SUBSET ItemsOf[c], ListPage(c, items)
      PROVE TypeOK'
  BY <1>5 DEF ListPage
<1>6. ASSUME NEW p \in page, Import(p[1], p[2]) PROVE TypeOK'
  BY <1>6 DEF Import
<1>7. ASSUME NEW i \in Items, Change(i) PROVE TypeOK'
  BY <1>7 DEF Change
<1>8. CASE Quiet \/ UNCHANGED vars
  BY <1>8 DEF Quiet, vars
<1> QED
  BY <1>1, <1>2, <1>3, <1>4, <1>5, <1>6, <1>7, <1>8, <1>9, <1>10 DEF Next

LEMMA ClockStep == TypeOK /\ PageInv /\ ClockInv /\ [Next]_vars => ClockInv'
<1> SUFFICES ASSUME TypeOK, PageInv, ClockInv, [Next]_vars PROVE ClockInv'
  OBVIOUS
<1> USE ClockAssumption
<1> USE DEF TypeOK, ClockInv, NoTime, Origin, itemVars, jobVars, runVars, WindowStart
<1>1. CASE CreateInitial \/ CreateResync
  BY <1>1 DEF CreateInitial, CreateResync
<1>2. CASE Start
  BY <1>2 DEF Start
<1>3. CASE Complete
  BY <1>3 DEF Complete, Leave, Done
<1>4. CASE Stop \/ Resume
  BY <1>4 DEF Stop, Resume, Leave
<1>5. ASSUME NEW c \in Categories, NEW items \in SUBSET ItemsOf[c], ListPage(c, items)
      PROVE ClockInv'
  BY <1>5 DEF ListPage
<1>6. ASSUME NEW p \in page, Import(p[1], p[2]) PROVE ClockInv'
  BY <1>6 DEF Import, PageInv
<1>7. ASSUME NEW i \in Items, Change(i) PROVE ClockInv'
  BY <1>7 DEF Change
<1>8. CASE Quiet \/ UNCHANGED vars
  BY <1>8 DEF Quiet, vars
<1> QED
  BY <1>1, <1>2, <1>3, <1>4, <1>5, <1>6, <1>7, <1>8 DEF Next

LEMMA PageStep == TypeOK /\ ClockInv /\ PageInv /\ [Next]_vars => PageInv'
<1> SUFFICES ASSUME TypeOK, ClockInv, PageInv, [Next]_vars PROVE PageInv'
  OBVIOUS
<1> USE ClockAssumption
<1> USE DEF TypeOK, ClockInv, PageInv, NoTime, Origin, itemVars, jobVars, runVars, Items
<1>1. CASE CreateInitial \/ CreateResync
  BY <1>1 DEF CreateInitial, CreateResync
<1>2. CASE Start
  BY <1>2 DEF Start
<1>3. CASE Complete
  BY <1>3 DEF Complete, Leave
<1>4. CASE Stop \/ Resume
  BY <1>4 DEF Stop, Resume, Leave
<1>5. ASSUME NEW c \in Categories, NEW items \in SUBSET ItemsOf[c], ListPage(c, items)
      PROVE PageInv'
  BY <1>5, ItemsOfCategories DEF ListPage
<1>6. ASSUME NEW p \in page, Import(p[1], p[2]) PROVE PageInv'
  BY <1>6 DEF Import, NeedsImport
<1>7. ASSUME NEW i \in Items, Change(i) PROVE PageInv'
  BY <1>7 DEF Change
<1>8. CASE Quiet \/ UNCHANGED vars
  BY <1>8 DEF Quiet, vars
<1> QED
  BY <1>1, <1>2, <1>3, <1>4, <1>5, <1>6, <1>7, <1>8 DEF Next

LEMMA CaughtStep == WindowInv /\ [Next]_vars => Caught'
<1> SUFFICES ASSUME WindowInv, [Next]_vars PROVE Caught'
  OBVIOUS
<1> USE ClockAssumption
<1> USE DEF WindowInv, TypeOK, ClockInv, PageInv, Caught, Missing, NoTime, Origin,
            itemVars, jobVars, runVars
<1>1. CASE CreateInitial \/ CreateResync
  BY <1>1 DEF CreateInitial, CreateResync
<1>2. CASE Start
  BY <1>2 DEF Start
<1>3. CASE Complete
  <2>1. CASE dry
    BY <1>3, <2>1 DEF Complete, Leave
  <2>2. CASE ~dry
    <3>1. pc = "running" /\ todo = {} /\ page = {} /\ synced' = started
      BY <1>3, <2>2 DEF Complete, Done
    <3>2. Categories \ cut' = Followed
      BY <1>3, <2>2 DEF Complete, TakeHistory, Followed
    <3>3. UNCHANGED itemVars
      BY <1>3 DEF Complete, Leave
    <3> QED
      BY <2>2, <3>1, <3>2, <3>3 DEF Catching
  <2> QED
    BY <2>1, <2>2
<1>4. CASE Stop \/ Resume
  BY <1>4 DEF Stop, Resume, Leave
<1>5. ASSUME NEW c \in Categories, NEW items \in SUBSET ItemsOf[c], ListPage(c, items)
      PROVE Caught'
  BY <1>5 DEF ListPage
<1>6. ASSUME NEW p \in page, Import(p[1], p[2]) PROVE Caught'
  <2> SUFFICES ASSUME synced # NoTime, NEW c \in Categories \ cut, NEW i \in ItemsOf[c], Missing(i)'
               PROVE synced <= changed[i] + MaxDrift
    BY <1>6 DEF Import
  <2>1. i \in Items /\ p[1] \in Items
    BY <1>6, ItemsOfCategories
  <2>2. CASE Missing(i)
    BY <2>2
  <2>3. CASE ~Missing(i)
    <3>1. i = p[1] /\ delivered'[i] = p[2] /\ changed'[i] = changed[i]
      BY <1>6, <2>1, <2>3 DEF Import
    <3> QED
      BY <1>6, <3>1 DEF Import
  <2> QED
    BY <2>2, <2>3
<1>7. ASSUME NEW i \in Items, Change(i) PROVE Caught'
  BY <1>7, ItemsOfCategories DEF Change
<1>8. CASE Quiet \/ UNCHANGED vars
  BY <1>8 DEF Quiet, vars
<1> QED
  BY <1>1, <1>2, <1>3, <1>4, <1>5, <1>6, <1>7, <1>8 DEF Next

LEMMA CatchingStep == WindowInv /\ [Next]_vars => Catching'
<1> SUFFICES ASSUME WindowInv, [Next]_vars PROVE Catching'
  OBVIOUS
<1> USE ClockAssumption
<1> USE DEF WindowInv, TypeOK, ClockInv, PageInv, Catching, Followed, NotWhole, Missing,
            NoTime, Origin, itemVars, jobVars, runVars
<1>1. CASE CreateInitial \/ CreateResync
  BY <1>1 DEF CreateInitial, CreateResync
<1>2. CASE Start
  <2>1. \A c \in Followed' : ItemsOf[c] \subseteq todo'
    BY <1>2 DEF Start
  <2> QED
    BY <2>1
<1>3. CASE Complete \/ Stop \/ Resume
  BY <1>3 DEF Complete, Stop, Resume, Leave
<1>5. ASSUME NEW c \in Categories, NEW items \in SUBSET ItemsOf[c], ListPage(c, items)
      PROVE Catching'
  <2> SUFFICES ASSUME ~dry, NEW d \in Followed, NEW i \in ItemsOf[d] \ todo', Missing(i),
                      \A v \in Nat : <<i, v>> \notin page'
               PROVE started <= changed[i] + MaxDrift
    BY <1>5 DEF ListPage
  <2>1. i \in Items /\ d \in Categories /\ pc = "running" /\ page = {}
    BY <1>5, ItemsOfCategories DEF ListPage
  <2>2. CASE i \notin todo
    BY <2>1, <2>2
  <2>3. CASE i \in todo
    <3>1. i \in items
      BY <1>5, <2>3 DEF ListPage
    <3>2. changed[i] # NoTime
      BY <2>1
    <3>3. changed[i] < Since(i)
      <4>1. ~(changed[i] # NoTime /\ changed[i] >= Since(i))
        <5> SUFFICES ASSUME changed[i] # NoTime, changed[i] >= Since(i) PROVE FALSE
          OBVIOUS
        <5>1. <<i, changed[i]>> \in page'
          BY <1>5, <3>1 DEF ListPage
        <5> QED
          BY <2>1, <5>1
      <4>2. Since(i) \in Nat
        BY DEF Since
      <4> QED
        BY <2>1, <3>2, <4>1, <4>2
    <3>4. i \in Mail <=> d = "mail"
      BY <2>1, ItemsOfCategories
    <3>5. resync /\ Since(i) = synced - Buffer
      BY <2>1, <3>3, <3>4 DEF Since, WindowStart
    <3>6. synced # NoTime /\ d \in Categories \ cut
      BY <2>1, <3>5
    <3>7. synced <= changed[i] + MaxDrift
      BY <2>1, <3>6 DEF Caught
    <3> QED
      BY <2>1, <3>3, <3>5, <3>6, <3>7
  <2> QED
    BY <2>2, <2>3
<1>6. ASSUME NEW p \in page, Import(p[1], p[2]) PROVE Catching'
  <2> SUFFICES ASSUME ~dry, NEW d \in Followed, NEW i \in ItemsOf[d] \ todo, Missing(i)',
                      \A v \in Nat : <<i, v>> \notin page'
               PROVE started <= changed[i] + MaxDrift
    BY <1>6 DEF Import
  <2>1. /\ i \in Items /\ pc = "running" /\ changed' = changed
        /\ p = <<p[1], p[2]>> /\ p[1] \in Items /\ p[2] \in Nat
    BY <1>6, ItemsOfCategories DEF Import
  <2>2. CASE i = p[1]
    <3>1. CASE p[2] # changed[i]
      BY <2>1, <2>2, <3>1
    <3>2. CASE p[2] = changed[i]
      <4>1. ~NeedsImport(i, p[2]) /\ UNCHANGED <<delivered, failed>>
        BY <1>6, <2>1, <2>2, <3>2 DEF Import
      <4> QED
        BY <2>1, <2>2, <3>2, <4>1 DEF NeedsImport
    <3> QED
      BY <3>1, <3>2
  <2>3. CASE i # p[1]
    <3>1. Missing(i)
      BY <1>6, <2>1, <2>3 DEF Import
    <3>2. \A v \in Nat : <<i, v>> \notin page
      BY <1>6, <2>1, <2>3 DEF Import
    <3> QED
      BY <2>1, <3>1, <3>2
  <2> QED
    BY <2>2, <2>3
<1>7. ASSUME NEW i \in Items, Change(i) PROVE Catching'
  BY <1>7, ItemsOfCategories DEF Change
<1>8. CASE Quiet \/ UNCHANGED vars
  BY <1>8 DEF Quiet, vars
<1> QED
  BY <1>1, <1>2, <1>3, <1>5, <1>6, <1>7, <1>8 DEF Next

\* The invariant, and with it every theorem below.
LEMMA WindowInvariant == Spec => []WindowInv
<1>1. WindowInv /\ [Next]_vars => WindowInv'
  BY TypeStep, ClockStep, PageStep, CaughtStep, CatchingStep DEF WindowInv
<1> QED
  BY InitialWindow, <1>1, PTL DEF Spec

\* Every variable keeps its type; in particular no window starts before
\* there is a watermark to start it from.
THEOREM TypeCorrect == Spec => []TypeOK
<1>1. WindowInv => TypeOK
  BY DEF WindowInv
<1> QED
  BY WindowInvariant, <1>1, PTL

\* What is missing in mailcow and not recorded as failed lies in the window
\* of the next resync, as long as the clocks differ by no more than the
\* buffer: create_resync_job and run lose no change between two jobs.
THEOREM ResyncsLeaveNoGap == Spec => []WindowCovers
<1>1. WindowInv => WindowCovers
  BY ClockAssumption, ItemsOfCategories
     DEF WindowInv, TypeOK, Caught, WindowCovers, WindowStart, NoTime
<1> QED
  BY WindowInvariant, <1>1, PTL
=============================================================================
