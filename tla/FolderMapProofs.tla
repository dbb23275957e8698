---------------------------- MODULE FolderMapProofs ----------------------------
(***************************************************************************)
(* Theorems about FolderMap, for any set of folders and any number of      *)
(* renames.  Nothing is used of Paths: they hold however a path is made    *)
(* from the folder tree, as long as nothing else goes into it.             *)
(***************************************************************************)
EXTENDS FolderMap, TLAPS

Here(f) == Paths(parent, name)[f]

Busy == {"ensure", "mark", "fill"}

\* Shapes of the variables the argument is about.
Shapes ==
    /\ row \in [Folders -> {"none", "known", "created"}]
    /\ pc \in {"idle", "walk"} \cup Busy
    /\ dry \in BOOLEAN /\ done \in BOOLEAN
    /\ todo \subseteq Folders
    /\ pc \in Busy => cur \in Folders \ todo
    /\ done => pc = "idle"
    /\ pc \in {"ensure", "mark"} => ~dry

\* A folder that has not been moved is where its row says it is, and where
\* the run at hand looks for it.
InPlace ==
    /\ \A f \in Folders \ moved : row[f] = "created" => Here(f) \in boxes
    /\ pc # "idle" => \A f \in Folders \ moved : path[f] = Here(f)

\* A real run has a created row for each folder it has got through.
Walked ==
    pc # "idle" /\ ~dry =>
        /\ \A f \in Folders \ todo : f # cur \/ pc \in {"walk", "fill"} => row[f] = "created"
        /\ pc = "mark" => path[cur] \in boxes

FolderInv == Shapes /\ InPlace /\ Walked /\ RefusedOnlyIfMoved /\ StructureKept

LEMMA InitialFolders == Init => FolderInv
  BY DEF Init, FolderInv, Shapes, Busy, InPlace, Walked, RefusedOnlyIfMoved, StructureKept

\* Renames and moves: what changes its path is in moved from then on,
\* unless mailcow has no such folder yet and no run has listed it.
LEMMA RelocateKeeps ==
    ASSUME FolderInv, NEW f \in Folders, NEW to, NEW as, Relocate(f, to, as)
    PROVE  FolderInv'
<1> DEFINE changes == {g \in Folders : Here(g)' # Here(g)}
<1>1. moved' = moved \cup {g \in changes : row[g] = "created" \/ pc # "idle"}
  BY DEF Relocate, Here
<1>2. UNCHANGED <<boxes, row, runVars>>
  BY DEF Relocate
<1>3. \A g \in Folders \ moved' : g \notin moved /\ (Here(g)' = Here(g) \/ (row[g] # "created" /\ pc = "idle"))
  BY <1>1
<1> QED
  BY <1>1, <1>2, <1>3
     DEF FolderInv, Shapes, Busy, InPlace, Walked, RefusedOnlyIfMoved, StructureKept, runVars

LEMMA FolderStep == FolderInv /\ [Next]_vars => FolderInv'
<1> SUFFICES ASSUME FolderInv, [Next]_vars PROVE FolderInv'
  OBVIOUS
<1> USE FolderAssumption
<1> USE DEF FolderInv, Shapes, Busy, InPlace, Walked, RefusedOnlyIfMoved, StructureKept,
            Here, treeVars, runVars
<1>1. CASE Begin
  BY <1>1 DEF Begin
<1>2. ASSUME NEW f \in Folders, Enter(f) PROVE FolderInv'
  BY <1>2 DEF Enter
<1>3. CASE Ensure
  BY <1>3 DEF Ensure
<1>4. CASE Mark
  <2>1. /\ row' = [row EXCEPT ![cur] = "created"] /\ pc = "mark" /\ pc' = "fill"
        /\ UNCHANGED <<parent, name, boxes, dry, path, todo, cur, refused, done, moved>>
    BY <1>4 DEF Mark
  <2>2. cur \in Folders \ todo
    BY <2>1
  <2>3. /\ row'[cur] = "created"
        /\ \A f \in Folders : f # cur => row'[f] = row[f]
    BY <2>1, <2>2
  <2>4. ~dry => path[cur] \in boxes
    BY <2>1
  <2>5. ~dry
    BY <2>1
  <2> QED
    BY <2>1, <2>2, <2>3, <2>4, <2>5
<1>5. CASE Fill
  BY <1>5 DEF Fill
<1>6. CASE Complete
  BY <1>6 DEF Complete
<1>7. CASE Stop
  BY <1>7 DEF Stop
<1>8. ASSUME NEW f \in Folders, NEW to \in Folders \cup {Root}, NEW as \in Names,
             Relocate(f, to, as)
      PROVE FolderInv'
  BY <1>8, RelocateKeeps
<1>9. CASE UNCHANGED vars
  BY <1>9 DEF vars
<1> QED
  BY <1>1, <1>2, <1>3, <1>4, <1>5, <1>6, <1>7, <1>8, <1>9 DEF Next

LEMMA FolderInvariant == Spec => []FolderInv
  BY InitialFolders, FolderStep, PTL DEF Spec

\* mailcow refuses the messages of a folder only if the folder was moved
\* after _migrate_mail had created it or while it ran.
THEOREM RefusalsAreExplained == Spec => []RefusedOnlyIfMoved
<1>1. FolderInv => RefusedOnlyIfMoved
  BY DEF FolderInv
<1> QED
  BY FolderInvariant, <1>1, PTL

\* A real run that went through all folders leaves each unmoved one there.
THEOREM StructureIsKept == Spec => []StructureKept
<1>1. FolderInv => StructureKept
  BY DEF FolderInv
<1> QED
  BY FolderInvariant, <1>1, PTL
=============================================================================
