-------------------------- MODULE MigrationJobsProofs --------------------------
(***************************************************************************)
(* Theorems about MigrationJobs, for any number of mappings, pool threads, *)
(* requests, jobs, crashes and failed commits.                             *)
(*                                                                         *)
(* Each part below strengthens one property to an inductive invariant and  *)
(* shows the three facts Init => IInv, IInv /\ [Next]_vars => IInv' and    *)
(* IInv => Inv, one step per action.  The last part is the refinement of   *)
(* JobLifeCycle.                                                           *)
(***************************************************************************)
EXTENDS MigrationJobs, SequenceTheorems, FiniteSetTheorems, TLAPS

-----------------------------------------------------------------------------
(* Sequences.                                                              *)

LEMMA SelectionIsSeq ==
    ASSUME NEW ids \in Selections
    PROVE  ids \in Seq(Mappings)
<1>1. PICK n \in 1..MaxSelect : ids \in [1..n -> Mappings]
  BY DEF Selections
<1>2. n \in Nat
  BY <1>1, BoundsAssumption
<1> QED
  BY <1>1, <1>2

\* The ids CommitJobs hands to its request are a sequence of job ids.
LEMMA NewIdsAreJobs ==
    ASSUME NEW k \in Nat, NEW n \in Nat, k + n <= MaxJobs
    PROVE  [i \in 1..n |-> k + i] \in Seq(Jobs)
<1>1. \A i \in 1..n : k + i \in Jobs
  BY BoundsAssumption DEF Jobs
<1> QED
  BY <1>1

-----------------------------------------------------------------------------
(* Types.                                                                  *)

\* What the types rest on: a thread that is not idle has a job, and has an
\* item left while it works on one.
WorkerShape ==
    \A w \in Workers :
        /\ wpc[w] # "idle" => wjob[w] \in Jobs
        /\ wpc[w] = "item" => wleft[w] > 0

TypeInv == TypeOK /\ WorkerShape

LEMMA TypeInit == Init => TypeInv
<1> SUFFICES ASSUME Init PROVE TypeInv
  OBVIOUS
<1> USE BoundsAssumption DEF Init
<1>1. TypeOK
  BY DEF TypeOK, Jobs, NoJob, Active, Terminal, Started
<1>2. WorkerShape
  BY DEF WorkerShape
<1> QED
  BY <1>1, <1>2 DEF TypeInv

LEMMA TypeStep == TypeInv /\ [Next]_vars => TypeInv'
<1> SUFFICES ASSUME TypeOK, WorkerShape, [Next]_vars
             PROVE  TypeOK' /\ WorkerShape'
  BY DEF TypeInv
<1> USE BoundsAssumption
<1> USE DEF TypeOK, WorkerShape, Jobs, NoJob, Active, Terminal, Started,
            dbVars, poolVars, workerVars, createVars, boundVars
<1>1. CASE Boot
  BY <1>1 DEF Boot
<1>2. ASSUME NEW j \in Jobs, ResumeSubmit(j) PROVE TypeOK' /\ WorkerShape'
  BY <1>2 DEF ResumeSubmit
<1>3. CASE Serve
  BY <1>3 DEF Serve
<1>4. CASE Crash
  BY <1>4 DEF Crash
<1>5. ASSUME NEW c \in Creators, Request(c) PROVE TypeOK' /\ WorkerShape'
  BY <1>5, SelectionIsSeq DEF Request
<1>6. ASSUME NEW c \in Creators, Check(c) PROVE TypeOK' /\ WorkerShape'
  BY <1>6 DEF Check
<1>7. ASSUME NEW c \in Creators, CommitJobs(c) PROVE TypeOK' /\ WorkerShape'
  <2> DEFINE n == Len(cbatch[c])
  <2>1. n \in Nat /\ lastJob + n <= MaxJobs /\ lastJob \in Nat
    BY <1>7 DEF CommitJobs
  <2>2. lastJob' = lastJob + n /\ lastJob' \in 0..MaxJobs
    BY <1>7, <2>1 DEF CommitJobs
  <2>3. \A j \in (lastJob + 1)..(lastJob + n) : cbatch[c][j - lastJob] \in Mappings
    BY <2>1, ElementOfSeq
  <2>4. status' \in [Jobs -> {"none"} \cup Active \cup Terminal]
    BY <1>7 DEF CommitJobs
  <2>5. mappingOf' \in [Jobs -> Mappings \cup {NoMapping}]
    BY <1>7, <2>1, <2>3 DEF CommitJobs
  <2>6. dryRun' \in [Jobs -> BOOLEAN]
    BY <1>7 DEF CommitJobs
  <2>7. [i \in 1..n |-> lastJob + i] \in Seq(Jobs)
    BY <2>1, NewIdsAreJobs
  <2>8. cmade' \in [Creators -> Seq(Jobs)]
    <3>1. cmade' = [cmade EXCEPT ![c] = @ \o [i \in 1..n |-> lastJob + i]]
      BY <1>7 DEF CommitJobs
    <3>2. cmade[c] \o [i \in 1..n |-> lastJob + i] \in Seq(Jobs)
      BY <2>7, ConcatProperties
    <3> QED
      BY <3>1, <3>2
  <2>9. cbatch' \in [Creators -> Seq(Mappings)]
    BY <1>7 DEF CommitJobs
  <2>10. UNCHANGED <<finished, present, synced, poolVars, workerVars, creq, ctodo,
                     xjob, boundVars>>
    BY <1>7 DEF CommitJobs
  <2>11. overtaken' \in [Creators -> SUBSET Mappings]
    <3>1. \A d \in Creators : Range(cbatch[d]) \subseteq Mappings
      BY ElementOfSeq, LenProperties DEF Range
    <3> QED
      BY <1>7, <3>1 DEF CommitJobs
  <2>12. raced' \in SUBSET Jobs
    <3>1. raced' = raced \cup {j \in (lastJob + 1)..(lastJob + n) :
                                 cbatch[c][j - lastJob] \in overtaken[c]}
      BY <1>7 DEF CommitJobs
    <3>2. (lastJob + 1)..(lastJob + n) \subseteq Jobs
      BY <2>1
    <3> HIDE DEF n
    <3> QED
      BY <3>1, <3>2
  <2> HIDE DEF n
  <2> QED
    BY <2>2, <2>4, <2>5, <2>6, <2>8, <2>9, <2>10, <2>11, <2>12
<1>8. ASSUME NEW c \in Creators, Submit(c) PROVE TypeOK' /\ WorkerShape'
  <2>1. Head(cmade[c]) \in Jobs /\ Tail(cmade[c]) \in Seq(Jobs)
    BY <1>8, EmptySeq, ElementOfSeq, HeadTailProperties DEF Submit
  <2>2. queue' \in Seq(Jobs)
    BY <1>8, <2>1, AppendProperties DEF Submit
  <2>3. cmade' \in [Creators -> Seq(Jobs)]
    BY <1>8, <2>1 DEF Submit
  <2> QED
    BY <1>8, <2>2, <2>3 DEF Submit
<1>9. ASSUME NEW c \in Creators, Respond(c) PROVE TypeOK' /\ WorkerShape'
  BY <1>9 DEF Respond, EndRequest
<1>10. ASSUME NEW c \in Creators, RequestFails(c) PROVE TypeOK' /\ WorkerShape'
  BY <1>10 DEF RequestFails, EndRequest, DbFault
<1>11. ASSUME NEW x \in Cancellers, NEW j \in Jobs, CancelRead(x, j)
       PROVE  TypeOK' /\ WorkerShape'
  BY <1>11 DEF CancelRead
<1>12. ASSUME NEW x \in Cancellers, CancelWrite(x) PROVE TypeOK' /\ WorkerShape'
  BY <1>12 DEF CancelWrite
<1>13. ASSUME NEW x \in Cancellers, CancelFails(x) PROVE TypeOK' /\ WorkerShape'
  BY <1>13 DEF CancelFails, DbFault
<1>14. ASSUME NEW m \in Mappings, DeleteMapping(m) PROVE TypeOK' /\ WorkerShape'
  BY <1>14 DEF DeleteMapping
<1>15. ASSUME NEW w \in Workers, Take(w) PROVE TypeOK' /\ WorkerShape'
  BY <1>15 DEF Take, Move
<1>16. ASSUME NEW w \in Workers, Start(w) PROVE TypeOK' /\ WorkerShape'
  <2>1. CASE status[wjob[w]] = "pending"
    BY <1>16, <2>1 DEF Start, Move
  <2>2. CASE status[wjob[w]] # "pending"
    <3>1. Release(w) /\ UNCHANGED <<dbVars, poolVars, createVars, xjob, boundVars>>
      BY <1>16, <2>2 DEF Start
    <3> QED
      BY <3>1 DEF Release
  <2> QED
    BY <2>1, <2>2
<1>17. ASSUME NEW w \in Workers, Setup(w) PROVE TypeOK' /\ WorkerShape'
  BY <1>17 DEF Setup, Move
<1>18. ASSUME NEW w \in Workers, NextItem(w) PROVE TypeOK' /\ WorkerShape'
  BY <1>18 DEF NextItem, Move
<1>19. ASSUME NEW w \in Workers, FinishItem(w) PROVE TypeOK' /\ WorkerShape'
  BY <1>19 DEF FinishItem, Move
<1>20. ASSUME NEW w \in Workers, Complete(w) PROVE TypeOK' /\ WorkerShape'
  BY <1>20 DEF Complete, Finish, Release
<1>21. ASSUME NEW w \in Workers, Fail(w) PROVE TypeOK' /\ WorkerShape'
  BY <1>21 DEF Fail, Finish, Release
<1>22. ASSUME NEW w \in Workers, Stop(w) PROVE TypeOK' /\ WorkerShape'
  BY <1>22 DEF Stop, Release
<1>23. ASSUME NEW w \in Workers, RunFails(w) PROVE TypeOK' /\ WorkerShape'
  BY <1>23 DEF RunFails, Move
<1>24. ASSUME NEW w \in Workers, StartFault(w) PROVE TypeOK' /\ WorkerShape'
  BY <1>24 DEF StartFault, Release, DbFault
<1>25. ASSUME NEW w \in Workers, CompleteLost(w) PROVE TypeOK' /\ WorkerShape'
  BY <1>25 DEF CompleteLost, Release, DbFault
<1>26. ASSUME NEW w \in Workers, FailLost(w) PROVE TypeOK' /\ WorkerShape'
  <2>1. finished' \in [Jobs -> BOOLEAN]
    <3>1. wjob[w] \in Jobs
      BY <1>26 DEF FailLost
    <3>2. PICK persisted \in {TRUE, finished[wjob[w]]} :
            finished' = [finished EXCEPT ![wjob[w]] = persisted]
      BY <1>26 DEF FailLost
    <3>3. persisted \in BOOLEAN
      BY <3>1, <3>2
    <3> QED
      BY <3>1, <3>2, <3>3
  <2> QED
    BY <1>26, <2>1 DEF FailLost, Release, DbFault
<1>27. ASSUME NEW w \in Workers, StopLost(w) PROVE TypeOK' /\ WorkerShape'
  BY <1>27 DEF StopLost, Release, DbFault
<1>30. ASSUME NEW w \in Workers, RefreshLost(w) PROVE TypeOK' /\ WorkerShape'
  BY <1>30 DEF RefreshLost, Release, DbFault
<1>28. CASE UNCHANGED vars
  BY <1>28 DEF vars
<1>29. CASE Quiet
  BY <1>29, <1>28 DEF Quiet
<1> QED
  BY <1>1, <1>2, <1>3, <1>4, <1>5, <1>6, <1>7, <1>8, <1>9, <1>10, <1>11,
     <1>12, <1>13, <1>14, <1>15, <1>16, <1>17, <1>18, <1>19, <1>20, <1>21,
     <1>22, <1>23, <1>24, <1>25, <1>26, <1>27, <1>28, <1>29, <1>30
     DEF Next, Container, Create, Run, RunDisturbed

\* Every variable keeps its type.
THEOREM TypeCorrect == Spec => []TypeOK
<1>1. Spec => []TypeInv
  BY TypeInit, TypeStep, PTL DEF Spec
<1>2. TypeInv => TypeOK
  BY DEF TypeInv
<1> QED
  BY <1>1, <1>2, PTL
-----------------------------------------------------------------------------
(* Job ids.                                                                *)

\* Ids are handed out in order, and a request cancels a job that exists.
Numbered ==
    /\ \A j \in Jobs : j > lastJob => status[j] = "none"
    /\ \A x \in Cancellers : xjob[x] <= lastJob

\* The steps that create no job, change no status and read none to cancel.
LEMMA StatusFrame ==
    ASSUME \/ Serve \/ Quiet \/ UNCHANGED vars
           \/ \E j \in Jobs : ResumeSubmit(j)
           \/ \E c \in Creators : Request(c) \/ Check(c) \/ Submit(c)
                                    \/ Respond(c) \/ RequestFails(c)
           \/ \E m \in Mappings : DeleteMapping(m)
           \/ \E w \in Workers : Take(w) \/ Setup(w) \/ NextItem(w)
                                    \/ FinishItem(w) \/ Stop(w) \/ RunDisturbed(w)
    PROVE  UNCHANGED <<status, lastJob, xjob, mappingOf>>
<1>1. CASE \/ Serve \/ Quiet \/ UNCHANGED vars
           \/ \E j \in Jobs : ResumeSubmit(j)
           \/ \E m \in Mappings : DeleteMapping(m)
  BY <1>1 DEF Serve, Quiet, vars, dbVars, ResumeSubmit, DeleteMapping
<1>2. ASSUME NEW c \in Creators,
             Request(c) \/ Check(c) \/ Submit(c) \/ Respond(c) \/ RequestFails(c)
      PROVE  UNCHANGED <<status, lastJob, xjob, mappingOf>>
  BY <1>2 DEF Request, Check, Submit, Respond, RequestFails, EndRequest, dbVars
<1>3. ASSUME NEW w \in Workers,
             Take(w) \/ Setup(w) \/ NextItem(w) \/ FinishItem(w) \/ Stop(w)
               \/ RunDisturbed(w)
      PROVE  UNCHANGED <<status, lastJob, xjob, mappingOf>>
  BY <1>3 DEF Take, Setup, NextItem, FinishItem, Stop, RunDisturbed, RunFails,
              StartFault, CompleteLost, FailLost, StopLost, RefreshLost, dbVars
<1> QED
  BY <1>1, <1>2, <1>3

LEMMA NumberedInit == Init => Numbered
  BY BoundsAssumption DEF Init, Numbered, NoJob

LEMMA NumberedStep == TypeInv /\ Numbered /\ [Next]_vars => Numbered'
<1> SUFFICES ASSUME TypeOK, WorkerShape, Numbered, [Next]_vars PROVE Numbered'
  BY DEF TypeInv
<1> USE BoundsAssumption DEF TypeOK, Numbered, Jobs, NoJob
<1>1. CASE Boot
  BY <1>1 DEF Boot
<1>2. CASE Crash
  BY <1>2 DEF Crash, dbVars
<1>3. ASSUME NEW c \in Creators, CommitJobs(c) PROVE Numbered'
  <2>1. Len(cbatch[c]) \in Nat
    OBVIOUS
  <2>2. lastJob' \in Nat /\ lastJob' >= lastJob /\ xjob' = xjob
    BY <1>3, <2>1 DEF CommitJobs
  <2>3. \A j \in Jobs : j > lastJob' => status'[j] = status[j]
    BY <1>3, <2>1 DEF CommitJobs
  <2>4. \A j \in Jobs : j > lastJob' => status'[j] = "none"
    BY <2>2, <2>3
  <2>5. \A x \in Cancellers : xjob'[x] <= lastJob'
    BY <2>2
  <2> QED
    BY <2>4, <2>5
<1>4. ASSUME NEW x \in Cancellers, NEW j \in Jobs, CancelRead(x, j) PROVE Numbered'
  BY <1>4 DEF CancelRead, Active, dbVars
<1>5. ASSUME NEW x \in Cancellers, CancelWrite(x) PROVE Numbered'
  BY <1>5 DEF CancelWrite
<1>6. ASSUME NEW x \in Cancellers, CancelFails(x) PROVE Numbered'
  BY <1>6 DEF CancelFails, dbVars
<1>7. ASSUME NEW w \in Workers, Start(w) PROVE Numbered'
  <2>1. lastJob' = lastJob /\ xjob' = xjob
    BY <1>7 DEF Start
  <2>2. status' = status \/ (status[wjob[w]] = "pending"
                               /\ status' = [status EXCEPT ![wjob[w]] = "running"])
    BY <1>7 DEF Start
  <2> QED
    BY <2>1, <2>2
<1>8. ASSUME NEW w \in Workers, Complete(w) \/ Fail(w) PROVE Numbered'
  BY <1>8 DEF Complete, Fail, Finish
<1>9. CASE UNCHANGED <<status, lastJob, xjob>>
  BY <1>9
<1> QED
  BY <1>1, <1>2, <1>3, <1>4, <1>5, <1>6, <1>7, <1>8, <1>9, StatusFrame
     DEF Next, Container, Create, Run

LEMMA NumberedCorrect == Spec => [](TypeInv /\ Numbered)
<1>1. Init => TypeInv /\ Numbered
  BY TypeInit, NumberedInit
<1>2. TypeInv /\ Numbered /\ [Next]_vars => (TypeInv /\ Numbered)'
  BY TypeStep, NumberedStep
<1> QED
  BY <1>1, <1>2, PTL DEF Spec

\* A row keeps the mapping it was made for, and what it counts as.
LEMMA RowKept ==
    ASSUME TypeInv, Numbered, [Next]_vars, NEW j \in Jobs, j <= lastJob
    PROVE  mappingOf'[j] = mappingOf[j] /\ dryRun'[j] = dryRun[j]
<1> USE BoundsAssumption DEF TypeInv, TypeOK, Jobs
<1>1. ASSUME NEW c \in Creators, CommitJobs(c)
      PROVE  mappingOf'[j] = mappingOf[j] /\ dryRun'[j] = dryRun[j]
  BY <1>1, LenProperties DEF CommitJobs
<1>2. CASE UNCHANGED <<mappingOf, dryRun>>
  BY <1>2
<1>3. CASE Container \/ Crash \/ Quiet \/ UNCHANGED vars
  BY <1>2, <1>3 DEF Container, Boot, Serve, ResumeSubmit, Crash, Quiet, vars, dbVars
<1>4. CASE \E c \in Creators : Request(c) \/ Check(c) \/ Submit(c) \/ Respond(c)
                                 \/ RequestFails(c)
  BY <1>2, <1>4 DEF Request, Check, Submit, Respond, RequestFails, EndRequest, dbVars
<1>5. CASE \/ \E m \in Mappings : DeleteMapping(m)
           \/ \E x \in Cancellers :
                CancelWrite(x) \/ CancelFails(x) \/ \E i \in Jobs : CancelRead(x, i)
  BY <1>2, <1>5 DEF DeleteMapping, CancelWrite, CancelFails, CancelRead, dbVars
<1>6. CASE \E w \in Workers : Run(w) \/ RunDisturbed(w)
  BY <1>2, <1>6 DEF Run, Take, Start, Setup, NextItem, FinishItem, Complete, Fail, Stop,
                    RunDisturbed, RunFails, StartFault, CompleteLost, FailLost, StopLost,
                     RefreshLost,
                    Finish, dbVars
<1> QED
  BY <1>1, <1>3, <1>4, <1>5, <1>6 DEF Next, Create

\* Who hands out job ids.
LEMMA LastJobBy ==
    ASSUME [Next]_vars, lastJob' # lastJob
    PROVE  \E c \in Creators : CommitJobs(c)
<1>1. CASE Boot
  BY <1>1 DEF Boot
<1>2. CASE Crash \/ \E x \in Cancellers :
             CancelWrite(x) \/ CancelFails(x) \/ \E i \in Jobs : CancelRead(x, i)
  BY <1>2 DEF Crash, CancelWrite, CancelFails, CancelRead, dbVars
<1>3. CASE \E w \in Workers : Start(w) \/ Complete(w) \/ Fail(w)
  BY <1>3 DEF Start, Complete, Fail, Finish
<1> QED
  BY <1>1, <1>2, <1>3, StatusFrame DEF Next, Container, Create, Run

-----------------------------------------------------------------------------
(* A cancellation is final.                                                *)

LEMMA CancelledStep ==
    ASSUME TypeInv, Numbered, [Next]_vars, NEW j \in Jobs, status[j] = "cancelled"
    PROVE  status'[j] = "cancelled"
<1> USE BoundsAssumption DEF TypeInv, TypeOK, Numbered, Jobs, NoJob
<1>1. CASE Boot
  BY <1>1 DEF Boot
<1>2. CASE Crash
  BY <1>2 DEF Crash, dbVars
<1>3. ASSUME NEW c \in Creators, CommitJobs(c) PROVE status'[j] = "cancelled"
  BY <1>3, LenProperties DEF CommitJobs
<1>4. ASSUME NEW x \in Cancellers,
             CancelWrite(x) \/ CancelFails(x) \/ \E i \in Jobs : CancelRead(x, i)
      PROVE  status'[j] = "cancelled"
  BY <1>4 DEF CancelWrite, CancelFails, CancelRead, dbVars
<1>5. ASSUME NEW w \in Workers, Start(w) PROVE status'[j] = "cancelled"
  <2>1. status' = status \/ (status[wjob[w]] = "pending"
                               /\ status' = [status EXCEPT ![wjob[w]] = "running"])
    BY <1>5 DEF Start
  <2> QED
    BY <2>1
<1>6. ASSUME NEW w \in Workers, Complete(w) \/ Fail(w) PROVE status'[j] = "cancelled"
  BY <1>6 DEF Complete, Fail, Finish
<1>7. CASE UNCHANGED status
  BY <1>7
<1> QED
  BY <1>1, <1>2, <1>3, <1>4, <1>5, <1>6, <1>7, StatusFrame
     DEF Next, Container, Create, Run

\* No step turns a cancelled job into anything else: not the terminal write
\* of a run that was already finishing, not a start from the queue, not a
\* restart, and not the creation of another job.
THEOREM CancellationIsFinal == Spec => CancelledIsFinal
<1>1. TypeInv /\ Numbered /\ [Next]_vars
        => [\A j \in Jobs : status[j] = "cancelled" => status'[j] = "cancelled"]_vars
  BY CancelledStep
<1> QED
  BY <1>1, NumberedCorrect, PTL DEF Spec, CancelledIsFinal

-----------------------------------------------------------------------------
(* One runner per job.                                                     *)

\* While the container is down nothing of the process is left.
DownIsEmpty ==
    phase = "down" =>
        /\ queue = << >>
        /\ \A w \in Workers : wpc[w] = "idle"
        /\ \A c \in Creators : ctodo[c] = << >> /\ cbatch[c] = << >> /\ cmade[c] = << >>

LEMMA DownIsEmptyInit == Init => DownIsEmpty
  BY DEF Init, DownIsEmpty

LEMMA DownIsEmptyStep == TypeInv /\ DownIsEmpty /\ [Next]_vars => DownIsEmpty'
<1> SUFFICES ASSUME TypeInv, DownIsEmpty, [Next]_vars PROVE DownIsEmpty'
  OBVIOUS
<1> USE DEF TypeInv, TypeOK, DownIsEmpty, dbVars, poolVars, workerVars, createVars
<1>1. CASE Boot \/ Serve \/ Crash \/ \E j \in Jobs : ResumeSubmit(j)
  BY <1>1 DEF Boot, Serve, Crash, ResumeSubmit
<1>2. ASSUME NEW c \in Creators, Request(c) \/ Check(c) \/ Submit(c) PROVE DownIsEmpty'
  BY <1>2 DEF Request, Check, Submit
<1>3. ASSUME NEW c \in Creators, CommitJobs(c) PROVE DownIsEmpty'
  BY <1>3 DEF CommitJobs, CommitDue
<1>4. ASSUME NEW c \in Creators, Respond(c) \/ RequestFails(c) PROVE DownIsEmpty'
  BY <1>4 DEF Respond, RequestFails, EndRequest
<1>5. ASSUME NEW x \in Cancellers,
             CancelWrite(x) \/ CancelFails(x) \/ \E j \in Jobs : CancelRead(x, j)
      PROVE  DownIsEmpty'
  BY <1>5 DEF CancelWrite, CancelFails, CancelRead
<1>6. ASSUME NEW m \in Mappings, DeleteMapping(m) PROVE DownIsEmpty'
  BY <1>6 DEF DeleteMapping
<1>7. ASSUME NEW w \in Workers, Run(w) \/ RunDisturbed(w) PROVE DownIsEmpty'
  <2>1. phase' = phase /\ createVars' = createVars
    BY <1>7 DEF Run, Take, Start, Setup, NextItem, FinishItem, Complete, Fail, Stop,
                RunDisturbed, RunFails, StartFault, CompleteLost, FailLost, StopLost,
                     RefreshLost,
                Finish
  <2>2. wpc[w] # "idle" \/ queue # << >>
    BY <1>7 DEF Run, Take, Start, Setup, NextItem, FinishItem, Complete, Fail, Stop,
                RunDisturbed, RunFails, StartFault, CompleteLost, FailLost, StopLost,
                     RefreshLost
  <2> QED
    BY <2>1, <2>2
<1>8. CASE UNCHANGED vars \/ Quiet
  BY <1>8 DEF vars, Quiet
<1> QED
  BY <1>1, <1>2, <1>3, <1>4, <1>5, <1>6, <1>7, <1>8 DEF Next, Container, Create

\* A job some thread has started is RUNNING until that thread settles it, or
\* CANCELLED: the guarded start lets no second thread in, and nobody else
\* settles it.  Boot does turn RUNNING into PENDING, in a process whose threads
\* have not taken anything yet.
RunnerInv ==
    /\ \A w \in Workers : wpc[w] \in Started => status[wjob[w]] \in {"running", "cancelled"}
    /\ OneRunnerPerJob

LEMMA RunnerInit == Init => RunnerInv
  BY DEF Init, RunnerInv, OneRunnerPerJob, Started

\* Steps that let a thread go on, or go, and touch no job but that thread's;
\* if they do, they let it go.
LEMMA RunnerFrame ==
    ASSUME TypeInv, RunnerInv, NEW w \in Workers,
           \A v \in Workers \ {w} : wpc'[v] = wpc[v] /\ wjob'[v] = wjob[v],
           wpc'[w] \in Started => wpc[w] \in Started /\ wjob'[w] = wjob[w],
           status' = status \/ (/\ wpc[w] \in Started /\ wpc'[w] = "idle"
                                /\ \A j \in Jobs : j # wjob[w] => status'[j] = status[j])
    PROVE  RunnerInv'
<1>1. \A v \in Workers : wpc'[v] \in Started =>
        wpc[v] \in Started /\ wjob'[v] = wjob[v] /\ wjob[v] \in Jobs
  BY DEF TypeInv, TypeOK, WorkerShape, Started
<1>2. \A v \in Workers : wpc'[v] \in Started => status'[wjob'[v]] \in {"running", "cancelled"}
  <2> SUFFICES ASSUME NEW v \in Workers, wpc'[v] \in Started
               PROVE  status'[wjob[v]] = status[wjob[v]]
    BY <1>1 DEF RunnerInv
  <2>1. CASE status' = status
    BY <2>1
  <2>2. CASE /\ wpc[w] \in Started /\ wpc'[w] = "idle"
             /\ \A j \in Jobs : j # wjob[w] => status'[j] = status[j]
    <3>1. v # w /\ wjob[v] # wjob[w] /\ wjob[v] \in Jobs
      BY <1>1, <2>2 DEF RunnerInv, OneRunnerPerJob, Started
    <3> QED
      BY <2>2, <3>1
  <2> QED
    BY <2>1, <2>2
<1>3. OneRunnerPerJob'
  BY <1>1 DEF RunnerInv, OneRunnerPerJob
<1> QED
  BY <1>2, <1>3 DEF RunnerInv

LEMMA RunnerStep ==
    TypeInv /\ Numbered /\ DownIsEmpty /\ RunnerInv /\ [Next]_vars => RunnerInv'
<1> SUFFICES ASSUME TypeInv, Numbered, DownIsEmpty, RunnerInv, [Next]_vars PROVE RunnerInv'
  OBVIOUS
<1> USE BoundsAssumption
<1> USE DEF TypeInv, TypeOK, WorkerShape, Jobs, NoJob, dbVars, poolVars, workerVars
<1>1. CASE Boot \/ Crash
  BY <1>1 DEF Boot, Crash, DownIsEmpty, RunnerInv, OneRunnerPerJob, Started
<1>2. ASSUME NEW c \in Creators, CommitJobs(c) PROVE RunnerInv'
  <2>1. Len(cbatch[c]) \in Nat
    OBVIOUS
  <2>2. \A j \in Jobs : status[j] # "none" => status'[j] = status[j]
    BY <1>2, <2>1 DEF CommitJobs, Numbered
  <2>3. UNCHANGED <<wpc, wjob>>
    BY <1>2 DEF CommitJobs
  <2> QED
    BY <2>2, <2>3 DEF RunnerInv, OneRunnerPerJob, Started
<1>3. ASSUME NEW x \in Cancellers, CancelWrite(x) PROVE RunnerInv'
  BY <1>3 DEF CancelWrite, RunnerInv, OneRunnerPerJob, Started
<1>4. ASSUME NEW w \in Workers, Start(w) PROVE RunnerInv'
  <2>1. CASE status[wjob[w]] = "pending"
    <3>1. /\ status' = [status EXCEPT ![wjob[w]] = "running"]
          /\ wpc' = [wpc EXCEPT ![w] = "setup"] /\ wjob' = wjob
          /\ wjob[w] \in Jobs
      BY <1>4, <2>1 DEF Start, Move
    <3>2. \A v \in Workers \ {w} : wpc'[v] \in Started =>
            wpc[v] \in Started /\ wjob[v] \in Jobs /\ wjob[v] # wjob[w]
      BY <2>1, <3>1 DEF RunnerInv, Started
    <3>3. status'[wjob[w]] = "running"
      BY <3>1
    <3>4. \A v \in Workers \ {w} : wpc'[v] \in Started =>
            status'[wjob[v]] \in {"running", "cancelled"}
      BY <3>1, <3>2 DEF RunnerInv
    <3>5. OneRunnerPerJob'
      BY <3>1, <3>2 DEF RunnerInv, OneRunnerPerJob, Started
    <3> QED
      BY <3>1, <3>3, <3>4, <3>5 DEF RunnerInv
  <2>2. CASE status[wjob[w]] # "pending"
    <3>1. Release(w) /\ status' = status
      BY <1>4, <2>2 DEF Start
    <3> QED
      BY <3>1, RunnerFrame DEF Release, Started
  <2> QED
    BY <2>1, <2>2
<1>5. ASSUME NEW w \in Workers, Take(w) PROVE RunnerInv'
  BY <1>5, RunnerFrame DEF Take, Move, Started
<1>6. ASSUME NEW w \in Workers, Setup(w) PROVE RunnerInv'
  BY <1>6, RunnerFrame DEF Setup, Move, Started
<1>7. ASSUME NEW w \in Workers, NextItem(w) PROVE RunnerInv'
  BY <1>7, RunnerFrame DEF NextItem, Move, Started
<1>8. ASSUME NEW w \in Workers, FinishItem(w) \/ RunFails(w) PROVE RunnerInv'
  BY <1>8, RunnerFrame DEF FinishItem, RunFails, Move, Started
<1>9. ASSUME NEW w \in Workers, Complete(w) \/ Fail(w) PROVE RunnerInv'
  <2>1. PICK outcome \in {"completed", "failed"} : Finish(w, outcome)
    BY <1>9 DEF Complete, Fail
  <2>2. wjob[w] \in Jobs /\ wpc[w] \in Started
    BY <1>9 DEF Complete, Fail, Started
  <2>3. \A j \in Jobs : j # wjob[w] => status'[j] = status[j]
    BY <2>1, <2>2 DEF Finish
  <2>4. Release(w)
    BY <2>1 DEF Finish
  <2> QED
    BY <2>2, <2>3, <2>4, RunnerFrame DEF Release, Started
<1>10. ASSUME NEW w \in Workers,
              Stop(w) \/ StartFault(w) \/ CompleteLost(w) \/ FailLost(w)
                \/ StopLost(w) \/ RefreshLost(w)
       PROVE  RunnerInv'
  <2>1. Release(w) /\ status' = status
    BY <1>10 DEF Stop, StartFault, CompleteLost, FailLost, StopLost, RefreshLost
  <2> QED
    BY <2>1, RunnerFrame DEF Release, Started
<1>11. CASE UNCHANGED <<status, wpc, wjob>>
  BY <1>11 DEF RunnerInv, OneRunnerPerJob
<1>12. ASSUME NEW c \in Creators,
              Request(c) \/ Check(c) \/ Submit(c) \/ Respond(c) \/ RequestFails(c)
       PROVE  UNCHANGED <<status, wpc, wjob>>
  BY <1>12 DEF Request, Check, Submit, Respond, RequestFails, EndRequest
<1>13. ASSUME \/ Serve \/ Quiet \/ UNCHANGED vars
              \/ \E j \in Jobs : ResumeSubmit(j)
              \/ \E x \in Cancellers : CancelFails(x) \/ \E j \in Jobs : CancelRead(x, j)
              \/ \E m \in Mappings : DeleteMapping(m)
       PROVE  UNCHANGED <<status, wpc, wjob>>
  BY <1>13 DEF Serve, Quiet, vars, ResumeSubmit, CancelFails, CancelRead, DeleteMapping
<1> QED
  BY <1>1, <1>2, <1>3, <1>4, <1>5, <1>6, <1>7, <1>8, <1>9, <1>10, <1>11,
     <1>12, <1>13 DEF Next, Container, Create, Run, RunDisturbed

LEMMA RunnerCorrect == Spec => [](TypeInv /\ Numbered /\ DownIsEmpty /\ RunnerInv)
<1>1. Spec => []DownIsEmpty
  BY DownIsEmptyInit, DownIsEmptyStep, NumberedCorrect, PTL DEF Spec
<1>2. Spec => []RunnerInv
  BY RunnerInit, RunnerStep, <1>1, NumberedCorrect, PTL DEF Spec
<1> QED
  BY <1>1, <1>2, NumberedCorrect, PTL

\* No job is ever run by two pool threads at once.
THEOREM RunnersAreExclusive == Spec => []OneRunnerPerJob
<1>1. RunnerInv => OneRunnerPerJob
  BY DEF RunnerInv
<1> QED
  BY <1>1, RunnerCorrect, PTL
-----------------------------------------------------------------------------
(* One active job per mapping, but for requests that miss each other.      *)

\* What a request is about to commit repeats no mapping, and names none that
\* has an active job, unless another request has committed a job of that
\* mapping since the check.
BatchInv ==
    \A c \in Creators :
        /\ IsInjective(cbatch[c])
        /\ \A m \in Range(cbatch[c]) : m \in overtaken[c] \/ ~HasActiveJob(m)

\* A mapping's jobs follow each other: when the next is made, and not past the
\* check, the last one is no longer active, and an inactive job stays so.
Successive ==
    \A i, k \in Jobs :
        i < k /\ k <= lastJob /\ k \notin raced /\ mappingOf[i] = mappingOf[k]
            => status[i] \notin Active

ChoiceInv == BatchInv /\ Successive

LEMMA AppendToBatch ==
    ASSUME NEW S, NEW s \in Seq(S), NEW e \in S, e \notin Range(s), IsInjective(s)
    PROVE  IsInjective(Append(s, e)) /\ Range(Append(s, e)) = Range(s) \cup {e}
<1> DEFINE t == Append(s, e)
           n == Len(s)
<1>1. /\ n \in Nat /\ DOMAIN s = 1..n /\ DOMAIN t = 1..(n + 1)
      /\ \A i \in 1..n : t[i] = s[i]
      /\ t[n + 1] = e
  BY AppendProperties, LenProperties
<1>2. \A i \in 1..n : s[i] # e
  BY <1>1 DEF Range
<1>3. IsInjective(t)
  <2> SUFFICES ASSUME NEW i \in 1..(n + 1), NEW j \in 1..(n + 1), t[i] = t[j]
               PROVE  i = j
    BY <1>1 DEF IsInjective
  <2>1. CASE i \in 1..n /\ j \in 1..n
    BY <1>1, <2>1 DEF IsInjective
  <2>2. CASE i = n + 1 \/ j = n + 1
    BY <1>1, <1>2, <2>2
  <2> QED
    BY <1>1, <2>1, <2>2
<1>4. Range(t) = Range(s) \cup {e}
  <2>1. \A x \in Range(t) : x \in Range(s) \cup {e}
    BY <1>1 DEF Range
  <2>2. \A x \in Range(s) : x \in Range(t)
    BY <1>1 DEF Range
  <2>3. e \in Range(t)
    BY <1>1 DEF Range
  <2> QED
    BY <2>1, <2>2, <2>3
<1> QED
  BY <1>3, <1>4

\* Steps that leave alone what is chosen and what is active.
LEMMA NothingChosen ==
    ASSUME TypeInv, [Next]_vars,
           \A c \in Creators : ~Check(c) /\ ~CommitJobs(c)
    PROVE  /\ \A j \in Jobs : status'[j] \in Active =>
                status[j] \in Active /\ mappingOf'[j] = mappingOf[j]
           /\ \A c \in Creators :
                \/ cbatch'[c] = << >>
                \/ cbatch'[c] = cbatch[c] /\ overtaken'[c] = overtaken[c]
           /\ raced' = raced
<1> DEFINE Fewer ==
             /\ \A j \in Jobs : status'[j] \in Active =>
                  status[j] \in Active /\ mappingOf'[j] = mappingOf[j]
             /\ \A c \in Creators :
                  \/ cbatch'[c] = << >>
                  \/ cbatch'[c] = cbatch[c] /\ overtaken'[c] = overtaken[c]
             /\ raced' = raced
<1> USE DEF TypeInv, TypeOK, WorkerShape, Active, Started
<1>1. CASE Boot
  BY <1>1 DEF Boot, createVars
<1>2. CASE Crash
  BY <1>2 DEF Crash, dbVars
<1>3. ASSUME NEW x \in Cancellers, CancelWrite(x) PROVE Fewer
  BY <1>3 DEF CancelWrite, createVars
<1>4. ASSUME NEW w \in Workers, Start(w) PROVE Fewer
  <2>1. /\ mappingOf' = mappingOf /\ cbatch' = cbatch
        /\ overtaken' = overtaken /\ raced' = raced
        /\ \/ status' = status
           \/ status[wjob[w]] = "pending" /\ status' = [status EXCEPT ![wjob[w]] = "running"]
    BY <1>4 DEF Start, createVars
  <2> QED
    BY <2>1
<1>5. ASSUME NEW w \in Workers, Complete(w) \/ Fail(w) PROVE Fewer
  <2>1. /\ mappingOf' = mappingOf /\ cbatch' = cbatch
        /\ overtaken' = overtaken /\ raced' = raced
        /\ \A j \in Jobs : status'[j] \in {status[j], "completed", "failed"}
    BY <1>5 DEF Complete, Fail, Finish, createVars
  <2> QED
    BY <2>1
<1>6. CASE UNCHANGED <<status, mappingOf, cbatch, overtaken, raced>>
  BY <1>6
<1>7. ASSUME NEW c \in Creators, Request(c) \/ Submit(c) PROVE Fewer
  BY <1>7, <1>6 DEF Request, Submit, dbVars
<1>8. ASSUME NEW c \in Creators, Respond(c) \/ RequestFails(c) PROVE Fewer
  <2>1. EndRequest(c)
    BY <1>8 DEF Respond, RequestFails
  <2> QED
    BY <2>1 DEF EndRequest, dbVars
<1>9. ASSUME NEW x \in Cancellers, CancelFails(x) \/ \E j \in Jobs : CancelRead(x, j)
      PROVE  Fewer
  BY <1>9, <1>6 DEF CancelFails, CancelRead, dbVars, createVars
<1>10. ASSUME NEW w \in Workers,
              Take(w) \/ Setup(w) \/ NextItem(w) \/ FinishItem(w) \/ Stop(w)
                \/ RunDisturbed(w)
       PROVE  Fewer
  BY <1>10, <1>6 DEF Take, Setup, NextItem, FinishItem, Stop, RunDisturbed, RunFails,
                     StartFault, CompleteLost, FailLost, StopLost, RefreshLost,
                     dbVars, createVars
<1>11. CASE \/ Serve \/ Quiet \/ UNCHANGED vars
            \/ \E j \in Jobs : ResumeSubmit(j)
            \/ \E m \in Mappings : DeleteMapping(m)
  BY <1>11, <1>6 DEF Serve, Quiet, vars, ResumeSubmit, DeleteMapping, dbVars, createVars
<1> QED
  BY <1>1, <1>2, <1>3, <1>4, <1>5, <1>7, <1>8, <1>9, <1>10, <1>11
     DEF Next, Container, Create, Run

LEMMA ChoiceInit == Init => ChoiceInv
<1> SUFFICES ASSUME Init PROVE ChoiceInv
  OBVIOUS
<1>1. BatchInv
  BY DEF Init, BatchInv, IsInjective, Range
<1>2. Successive
  BY DEF Init, Successive, Active
<1> QED
  BY <1>1, <1>2 DEF ChoiceInv

\* What they keep of the invariant.
LEMMA ChoiceFrame ==
    ASSUME ChoiceInv, lastJob \in Nat, lastJob' = lastJob, raced' = raced,
           \A j \in Jobs : status'[j] \in Active =>
               status[j] \in Active /\ mappingOf'[j] = mappingOf[j],
           \A j \in Jobs : j <= lastJob => mappingOf'[j] = mappingOf[j],
           \A c \in Creators :
               \/ cbatch'[c] = << >>
               \/ cbatch'[c] = cbatch[c] /\ overtaken'[c] = overtaken[c]
    PROVE  ChoiceInv'
<1>1. \A m : HasActiveJob(m)' => HasActiveJob(m)
  BY DEF HasActiveJob
<1>2. ASSUME NEW c \in Creators
      PROVE  /\ IsInjective(cbatch'[c])
             /\ \A m \in Range(cbatch'[c]) : m \in overtaken'[c] \/ ~HasActiveJob(m)'
  <2>1. CASE cbatch'[c] = << >>
    BY <2>1 DEF IsInjective, Range
  <2>2. CASE cbatch'[c] = cbatch[c] /\ overtaken'[c] = overtaken[c]
    BY <1>1, <2>2 DEF ChoiceInv, BatchInv
  <2> QED
    BY <2>1, <2>2
<1>3. BatchInv'
  BY <1>2 DEF BatchInv
<1>4. Successive'
  <2> SUFFICES ASSUME NEW i \in Jobs, NEW k \in Jobs, i < k, k <= lastJob, k \notin raced,
                      mappingOf'[i] = mappingOf'[k], status'[i] \in Active
               PROVE  FALSE
    BY DEF Successive
  <2>1. i <= lastJob
    BY BoundsAssumption DEF Jobs
  <2>2. mappingOf[i] = mappingOf[k] /\ status[i] \in Active
    BY <2>1
  <2> QED
    BY <2>2 DEF ChoiceInv, Successive
<1> QED
  BY <1>3, <1>4 DEF ChoiceInv

LEMMA CheckChoice ==
    ASSUME TypeInv, ChoiceInv, NEW c \in Creators, Check(c)
    PROVE  ChoiceInv'
<1> DEFINE m == Head(ctodo[c])
<1>1. /\ UNCHANGED <<status, mappingOf, lastJob, overtaken, raced>>
      /\ cbatch[c] \in Seq(Mappings) /\ m \in Mappings
      /\ \A d \in Creators \ {c} : cbatch'[d] = cbatch[d]
  BY HeadTailProperties DEF Check, TypeInv, TypeOK, dbVars
<1>2. CASE ~Eligible(c, m)
  BY <1>1, <1>2, ChoiceFrame, BoundsAssumption DEF Check, TypeInv, TypeOK
<1>3. CASE Eligible(c, m)
  <2>1. cbatch'[c] = Append(cbatch[c], m)
    BY <1>3 DEF Check, TypeInv, TypeOK
  <2>2. IsInjective(cbatch'[c]) /\ Range(cbatch'[c]) = Range(cbatch[c]) \cup {m}
    BY <1>1, <1>3, <2>1, AppendToBatch DEF Eligible, ChoiceInv, BatchInv
  <2>3. \A x : HasActiveJob(x)' <=> HasActiveJob(x)
    BY <1>1 DEF HasActiveJob
  <2>4. BatchInv'
    BY <1>1, <1>3, <2>2, <2>3 DEF Eligible, ChoiceInv, BatchInv
  <2>5. Successive'
    BY <1>1 DEF ChoiceInv, Successive
  <2> QED
    BY <2>4, <2>5 DEF ChoiceInv
<1> QED
  BY <1>2, <1>3

\* The new jobs are of different mappings. One whose mapping had an active job
\* all the same is noted as raced, and the requests that still hold one of
\* these mappings are overtaken.
LEMMA CommitChoice ==
    ASSUME TypeInv, Numbered, ChoiceInv, NEW c \in Creators, CommitJobs(c)
    PROVE  ChoiceInv'
<1> DEFINE s == cbatch[c]
           n == Len(s)
           new == (lastJob + 1)..(lastJob + n)
<1>1. /\ n \in Nat /\ lastJob \in Nat /\ DOMAIN s = 1..n
      /\ lastJob' = lastJob + n /\ lastJob + n <= MaxJobs
  BY LenProperties, BoundsAssumption DEF CommitJobs, TypeInv, TypeOK
<1>2. \A j \in Jobs :
        /\ j \in new => mappingOf'[j] = s[j - lastJob]
        /\ j \notin new => status'[j] = status[j] /\ mappingOf'[j] = mappingOf[j]
  BY DEF CommitJobs
<1>3. IsInjective(s) /\ \A m \in Range(s) : m \in overtaken[c] \/ ~HasActiveJob(m)
  BY DEF ChoiceInv, BatchInv
<1>4. \A j \in new : j - lastJob \in 1..n /\ s[j - lastJob] \in Range(s)
  BY <1>1 DEF Range
<1>5. raced' = raced \cup {j \in new : s[j - lastJob] \in overtaken[c]}
  BY DEF CommitJobs
<1> HIDE DEF s, n
<1>6. BatchInv'
  <2>1. cbatch'[c] = << >>
    BY DEF CommitJobs, TypeInv, TypeOK
  <2>2. ASSUME NEW d \in Creators, d # c
        PROVE  /\ cbatch'[d] = cbatch[d]
               /\ overtaken'[d] = overtaken[d] \cup (Range(s) \cap Range(cbatch[d]))
    BY <2>2 DEF CommitJobs, TypeInv, TypeOK, s
  <2>3. ASSUME NEW m, m \notin Range(s), HasActiveJob(m)' PROVE HasActiveJob(m)
    <3>1. PICK j \in Jobs : mappingOf'[j] = m /\ status'[j] \in Active
      BY <2>3 DEF HasActiveJob
    <3>2. j \notin new
      BY <1>2, <1>4, <2>3, <3>1
    <3> QED
      BY <1>2, <3>1, <3>2 DEF HasActiveJob
  <2>4. ASSUME NEW d \in Creators
        PROVE  /\ IsInjective(cbatch'[d])
               /\ \A m \in Range(cbatch'[d]) : m \in overtaken'[d] \/ ~HasActiveJob(m)'
    <3>1. CASE d = c
      BY <2>1, <3>1 DEF IsInjective, Range
    <3>2. CASE d # c
      BY <2>2, <2>3, <3>2 DEF ChoiceInv, BatchInv
    <3> QED
      BY <3>1, <3>2
  <2> QED
    BY <2>4 DEF BatchInv
<1>7. Successive'
  <2> SUFFICES ASSUME NEW i \in Jobs, NEW k \in Jobs, i < k, k <= lastJob', k \notin raced',
                      mappingOf'[i] = mappingOf'[k], status'[i] \in Active
               PROVE  FALSE
    BY DEF Successive
  <2>0. i \in Nat /\ k \in Nat
    BY BoundsAssumption DEF Jobs
  <2>1. CASE k <= lastJob
    <3>1. i \notin new /\ k \notin new /\ k \notin raced
      BY <1>1, <1>5, <2>0, <2>1
    <3> QED
      BY <1>2, <2>1, <3>1 DEF ChoiceInv, Successive
  <2>2. CASE k > lastJob
    <3>1. k \in new
      BY <1>1, <2>0, <2>2
    <3>2. mappingOf'[k] = s[k - lastJob] /\ ~HasActiveJob(s[k - lastJob])
      BY <1>2, <1>3, <1>4, <1>5, <3>1
    <3>3. CASE i \in new
      <4>1. i - lastJob = k - lastJob
        BY <1>1, <1>2, <1>3, <1>4, <3>1, <3>3 DEF IsInjective
      <4> QED
        BY <1>1, <2>0, <4>1
    <3>4. CASE i \notin new
      BY <1>2, <3>2, <3>4 DEF HasActiveJob
    <3> QED
      BY <3>3, <3>4
  <2> QED
    BY <1>1, <2>0, <2>1, <2>2
<1> QED
  BY <1>6, <1>7 DEF ChoiceInv

LEMMA ChoiceStep == TypeInv /\ Numbered /\ ChoiceInv /\ [Next]_vars => ChoiceInv'
<1> SUFFICES ASSUME TypeInv, Numbered, ChoiceInv, [Next]_vars PROVE ChoiceInv'
  OBVIOUS
<1>1. ASSUME NEW c \in Creators, Check(c) PROVE ChoiceInv'
  BY <1>1, CheckChoice
<1>2. ASSUME NEW c \in Creators, CommitJobs(c) PROVE ChoiceInv'
  BY <1>2, CommitChoice
<1>3. CASE \A c \in Creators : ~Check(c) /\ ~CommitJobs(c)
  <2>1. lastJob' = lastJob /\ lastJob \in Nat
    BY <1>3, LastJobBy, BoundsAssumption DEF TypeInv, TypeOK
  <2>2. \A j \in Jobs : j <= lastJob => mappingOf'[j] = mappingOf[j]
    BY RowKept
  <2> QED
    BY <1>3, <2>1, <2>2, NothingChosen, ChoiceFrame
<1> QED
  BY <1>1, <1>2, <1>3

LEMMA ChoiceCorrect == Spec => []ChoiceInv
  BY ChoiceInit, ChoiceStep, NumberedCorrect, PTL DEF Spec

\* A mapping never has two active jobs, whatever is selected, cancelled,
\* deleted, lost or restarted and however many requests there are, unless the
\* later one was inserted by a request whose check missed another's commit.
THEOREM JobsOfAMappingAreExclusive == Spec => []OneActiveUnlessRaced
<1>1. TypeInv /\ Numbered /\ ChoiceInv => OneActiveUnlessRaced
  <2> SUFFICES ASSUME TypeInv, Numbered, ChoiceInv, NEW i \in Jobs, NEW j \in Jobs, i < j,
                      mappingOf[i] = mappingOf[j], status[i] \in Active, status[j] \in Active
               PROVE  j \in raced
    BY DEF OneActiveUnlessRaced
  <2>1. j <= lastJob
    BY BoundsAssumption DEF Numbered, Active, Jobs, TypeInv, TypeOK
  <2> QED
    BY <2>1 DEF ChoiceInv, Successive
<1> QED
  BY <1>1, NumberedCorrect, ChoiceCorrect, PTL

\* Two threads are at work on one mapping only while one of them has yet to
\* let go of a cancelled job, or after two requests that missed each other.
THEOREM OverlapsHaveACause == Spec => []OverlapHasCause
<1>1. TypeInv /\ RunnerInv /\ OneActiveUnlessRaced => OverlapHasCause
  <2> SUFFICES ASSUME TypeInv, RunnerInv, OneActiveUnlessRaced,
                      NEW v \in Workers, NEW w \in Workers, v # w,
                      wpc[v] \in Started, wpc[w] \in Started,
                      mappingOf[wjob[v]] = mappingOf[wjob[w]],
                      status[wjob[v]] # "cancelled", status[wjob[w]] # "cancelled"
               PROVE  wjob[v] \in raced \/ wjob[w] \in raced
    BY DEF OverlapHasCause
  <2>1. status[wjob[v]] \in Active /\ status[wjob[w]] \in Active
    BY DEF RunnerInv, Active
  <2>2. wjob[v] \in Jobs /\ wjob[w] \in Jobs
    BY DEF TypeInv, WorkerShape, Started
  <2>3. wjob[v] # wjob[w]
    BY DEF RunnerInv, OneRunnerPerJob
  <2>4. wjob[v] < wjob[w] \/ wjob[w] < wjob[v]
    BY <2>2, <2>3, BoundsAssumption DEF Jobs
  <2> QED
    BY <2>1, <2>2, <2>4 DEF OneActiveUnlessRaced
<1> QED
  BY <1>1, RunnerCorrect, JobsOfAMappingAreExclusive, PTL

-----------------------------------------------------------------------------
(* How many active jobs a mapping can have when requests miss each other.  *)

\* Each request thread can add one job after a check that missed the others,
\* and no more: the active jobs of a mapping never outnumber the threads.
ActiveJobsPerRequest ==
    \A m \in Mappings :
        Cardinality({j \in Jobs : mappingOf[j] = m /\ status[j] \in Active})
            <= Cardinality(Creators)

ActiveJobs(m) == {j \in Jobs : mappingOf[j] = m /\ status[j] \in Active}

\* Requests that have found m free and have still to commit its job.
Choosing(m) == {c \in Creators : m \in Range(cbatch[c])}

\* A request thread chooses a mapping once at a time, and each choice is
\* either still in its batch or has become one job: a thread that has had its
\* job committed chooses the mapping again only when no job of it is active.
RaceInv ==
    /\ \A c \in Creators : IsInjective(cbatch[c])
    /\ \A m \in Mappings :
         Cardinality(ActiveJobs(m)) + Cardinality(Choosing(m)) <= Cardinality(Creators)

LEMMA JobsAndRequestsFinite ==
    /\ Cardinality(Creators) \in Nat
    /\ \A m : /\ IsFiniteSet(ActiveJobs(m)) /\ Cardinality(ActiveJobs(m)) \in Nat
              /\ IsFiniteSet(Choosing(m)) /\ Cardinality(Choosing(m)) \in Nat
<1>1. IsFiniteSet(Jobs)
  BY FS_Interval, BoundsAssumption DEF Jobs
<1>2. \A m : ActiveJobs(m) \in SUBSET Jobs /\ Choosing(m) \in SUBSET Creators
  BY DEF ActiveJobs, Choosing
<1>3. \A m : IsFiniteSet(ActiveJobs(m)) /\ IsFiniteSet(Choosing(m))
  BY <1>1, <1>2, FS_Subset, CreatorsAssumption
<1> QED
  BY <1>3, FS_CardinalityType, CreatorsAssumption

LEMMA RaceInit == Init => RaceInv
<1> SUFFICES ASSUME Init PROVE RaceInv
  OBVIOUS
<1>1. \A c \in Creators : IsInjective(cbatch[c]) /\ Range(cbatch[c]) = {}
  BY DEF Init, IsInjective, Range
<1>2. \A m \in Mappings : ActiveJobs(m) = {} /\ Choosing(m) = {}
  BY <1>1 DEF Init, ActiveJobs, Choosing, Active
<1> QED
  BY <1>1, <1>2, FS_EmptySet, JobsAndRequestsFinite DEF RaceInv

LEMMA RaceFrame ==
    ASSUME RaceInv,
           \A j \in Jobs : status'[j] \in Active =>
               status[j] \in Active /\ mappingOf'[j] = mappingOf[j],
           \A c \in Creators : cbatch'[c] = cbatch[c] \/ cbatch'[c] = << >>
    PROVE  RaceInv'
<1>1. \A c \in Creators :
        /\ IsInjective(cbatch'[c])
        /\ \A m \in Range(cbatch'[c]) : m \in Range(cbatch[c])
  <2> SUFFICES ASSUME NEW c \in Creators
               PROVE  /\ IsInjective(cbatch'[c])
                      /\ \A m \in Range(cbatch'[c]) : m \in Range(cbatch[c])
    OBVIOUS
  <2>1. CASE cbatch'[c] = << >>
    BY <2>1 DEF IsInjective, Range
  <2>2. CASE cbatch'[c] = cbatch[c]
    BY <2>2 DEF RaceInv
  <2> QED
    BY <2>1, <2>2
<1>2. ASSUME NEW m \in Mappings
      PROVE  Cardinality(ActiveJobs(m)') + Cardinality(Choosing(m)') <= Cardinality(Creators)
  <2>1. ActiveJobs(m)' \in SUBSET ActiveJobs(m) /\ Choosing(m)' \in SUBSET Choosing(m)
    BY <1>1 DEF ActiveJobs, Choosing
  <2>2. /\ IsFiniteSet(ActiveJobs(m)') /\ IsFiniteSet(Choosing(m)')
        /\ Cardinality(ActiveJobs(m)') <= Cardinality(ActiveJobs(m))
        /\ Cardinality(Choosing(m)') <= Cardinality(Choosing(m))
    BY <2>1, FS_Subset, JobsAndRequestsFinite
  <2>3. Cardinality(ActiveJobs(m)') \in Nat /\ Cardinality(Choosing(m)') \in Nat
    BY <2>2, FS_CardinalityType
  <2>4. Cardinality(ActiveJobs(m)) + Cardinality(Choosing(m)) <= Cardinality(Creators)
    BY DEF RaceInv
  <2> QED
    BY <2>2, <2>3, <2>4, JobsAndRequestsFinite
<1> QED
  BY <1>1, <1>2 DEF RaceInv

\* A mapping is chosen only while it has no active job, and then there are no
\* more choices than threads.
LEMMA CheckRace ==
    ASSUME TypeInv, RaceInv, NEW c \in Creators, Check(c)
    PROVE  RaceInv'
<1> DEFINE m == Head(ctodo[c])
<1>1. /\ status' = status /\ mappingOf' = mappingOf
      /\ cbatch[c] \in Seq(Mappings) /\ m \in Mappings
      /\ \A d \in Creators \ {c} : cbatch'[d] = cbatch[d]
  BY HeadTailProperties DEF Check, TypeInv, TypeOK, dbVars
<1>2. CASE ~Eligible(c, m)
  BY <1>1, <1>2, RaceFrame DEF Check
<1>3. CASE Eligible(c, m)
  <2>1. cbatch'[c] = Append(cbatch[c], m)
    BY <1>3 DEF Check, TypeInv, TypeOK
  <2>2. IsInjective(cbatch'[c]) /\ Range(cbatch'[c]) = Range(cbatch[c]) \cup {m}
    BY <1>1, <1>3, <2>1, AppendToBatch DEF Eligible, RaceInv
  <2>3. \A d \in Creators : IsInjective(cbatch'[d])
    BY <1>1, <2>2 DEF RaceInv
  <2>4. ASSUME NEW k \in Mappings
        PROVE  Cardinality(ActiveJobs(k)') + Cardinality(Choosing(k)')
                 <= Cardinality(Creators)
    <3>1. ActiveJobs(k)' = ActiveJobs(k)
      BY <1>1 DEF ActiveJobs
    <3>2. CASE k = m
      <4>1. ActiveJobs(k) = {}
        BY <1>3, <3>2 DEF Eligible, HasActiveJob, ActiveJobs
      <4>2. Choosing(k)' \in SUBSET Creators
        BY DEF Choosing
      <4>3. /\ Cardinality(Choosing(k)') <= Cardinality(Creators)
            /\ Cardinality(Choosing(k)') \in Nat
        BY <4>2, FS_Subset, FS_CardinalityType, CreatorsAssumption
      <4> QED
        BY <3>1, <4>1, <4>3, FS_EmptySet
    <3>3. CASE k # m
      <4>1. \A d \in Creators : k \in Range(cbatch'[d]) <=> k \in Range(cbatch[d])
        BY <1>1, <2>2, <3>3
      <4>2. Choosing(k)' = Choosing(k)
        BY <4>1 DEF Choosing
      <4> QED
        BY <3>1, <4>2 DEF RaceInv
    <3> QED
      BY <3>2, <3>3
  <2> QED
    BY <2>3, <2>4 DEF RaceInv
<1> QED
  BY <1>2, <1>3

\* A commit turns the choice of a thread into one active job.
LEMMA CommitRace ==
    ASSUME TypeInv, Numbered, RaceInv, NEW c \in Creators, CommitJobs(c)
    PROVE  RaceInv'
<1> DEFINE s == cbatch[c]
           n == Len(s)
           new == (lastJob + 1)..(lastJob + n)
<1>1. n \in Nat /\ lastJob \in Nat /\ DOMAIN s = 1..n /\ lastJob + n <= MaxJobs
  BY LenProperties, BoundsAssumption DEF TypeInv, TypeOK, CommitJobs
<1>2. \A j \in Jobs :
        /\ j \in new => mappingOf'[j] = s[j - lastJob] /\ status'[j] = "pending"
        /\ j \notin new => status'[j] = status[j] /\ mappingOf'[j] = mappingOf[j]
  BY DEF CommitJobs
<1>3. IsInjective(s)
  BY DEF RaceInv
<1>4. \A j \in Jobs : j \in new => status[j] \notin Active
  BY <1>1 DEF Numbered, Active, Jobs
<1>5. cbatch'[c] = << >> /\ \A d \in Creators \ {c} : cbatch'[d] = cbatch[d]
  BY DEF CommitJobs, TypeInv, TypeOK
<1>6. Range(cbatch'[c]) = {} /\ \A d \in Creators : IsInjective(cbatch'[d])
  BY <1>5 DEF RaceInv, IsInjective, Range
<1>7. \A m : Choosing(m)' = Choosing(m) \ {c}
  BY <1>5, <1>6 DEF Choosing
<1>8. ASSUME NEW m \in Mappings
      PROVE  Cardinality(ActiveJobs(m)') + Cardinality(Choosing(m)') <= Cardinality(Creators)
  <2>1. Cardinality(ActiveJobs(m)) + Cardinality(Choosing(m)) <= Cardinality(Creators)
    BY DEF RaceInv
  <2>2. CASE m \in Range(s)
    <3>1. PICK i \in 1..n : s[i] = m
      BY <1>1, <2>2 DEF Range
    <3>2. lastJob + i \in Jobs /\ lastJob + i \in new /\ (lastJob + i) - lastJob = i
      BY <1>1, BoundsAssumption DEF Jobs
    <3>3. \A j \in Jobs : j \in new /\ mappingOf'[j] = m => j = lastJob + i
      <4> SUFFICES ASSUME NEW j \in Jobs, j \in new, mappingOf'[j] = m
                   PROVE  j = lastJob + i
        OBVIOUS
      <4>1. j \in Int /\ j - lastJob \in 1..n /\ s[j - lastJob] = s[i]
        BY <1>1, <1>2, <3>1, BoundsAssumption DEF Jobs
      <4>2. j - lastJob = i
        BY <1>1, <1>3, <4>1 DEF IsInjective
      <4> QED
        BY <1>1, <4>1, <4>2
    <3>4. ActiveJobs(m)' = ActiveJobs(m) \cup {lastJob + i}
      <4>1. ActiveJobs(m)' \subseteq ActiveJobs(m) \cup {lastJob + i}
        BY <1>2, <3>3 DEF ActiveJobs
      <4>2. ActiveJobs(m) \subseteq ActiveJobs(m)'
        BY <1>2, <1>4 DEF ActiveJobs
      <4>3. lastJob + i \in ActiveJobs(m)'
        BY <1>2, <3>1, <3>2 DEF ActiveJobs, Active
      <4> QED
        BY <4>1, <4>2, <4>3
    <3>5. lastJob + i \notin ActiveJobs(m)
      BY <1>4, <3>2 DEF ActiveJobs
    <3>6. c \in Choosing(m)
      BY <2>2 DEF Choosing
    <3>7. Cardinality(ActiveJobs(m)') = Cardinality(ActiveJobs(m)) + 1
      BY <3>4, <3>5, FS_AddElement, JobsAndRequestsFinite
    <3>8. Cardinality(Choosing(m)') = Cardinality(Choosing(m)) - 1
      BY <1>7, <3>6, FS_RemoveElement, JobsAndRequestsFinite
    <3> QED
      BY <2>1, <3>7, <3>8, JobsAndRequestsFinite
  <2>3. CASE m \notin Range(s)
    <3>1. \A j \in Jobs : j \in new => mappingOf'[j] # m
      BY <1>1, <1>2, <2>3, BoundsAssumption DEF Range, Jobs
    <3>2. ActiveJobs(m)' = ActiveJobs(m)
      BY <1>2, <1>4, <3>1 DEF ActiveJobs
    <3>3. Choosing(m)' = Choosing(m)
      BY <1>7, <2>3 DEF Choosing
    <3> QED
      BY <2>1, <3>2, <3>3
  <2> QED
    BY <2>2, <2>3
<1> QED
  BY <1>6, <1>8 DEF RaceInv

LEMMA RaceStep == TypeInv /\ Numbered /\ RaceInv /\ [Next]_vars => RaceInv'
<1> SUFFICES ASSUME TypeInv, Numbered, RaceInv, [Next]_vars PROVE RaceInv'
  OBVIOUS
<1>1. ASSUME NEW c \in Creators, Check(c) PROVE RaceInv'
  BY <1>1, CheckRace
<1>2. ASSUME NEW c \in Creators, CommitJobs(c) PROVE RaceInv'
  BY <1>2, CommitRace
<1>3. CASE \A c \in Creators : ~Check(c) /\ ~CommitJobs(c)
  BY <1>3, NothingChosen, RaceFrame
<1> QED
  BY <1>1, <1>2, <1>3

\* However requests overlap, a mapping never has more active jobs than there
\* are request threads; two jobs need two requests that missed each other.
THEOREM RacesAreBounded == Spec => []ActiveJobsPerRequest
<1>1. RaceInv => ActiveJobsPerRequest
  <2> SUFFICES ASSUME RaceInv, NEW m \in Mappings
               PROVE  Cardinality(ActiveJobs(m)) <= Cardinality(Creators)
    BY DEF ActiveJobsPerRequest, ActiveJobs
  <2>1. Cardinality(ActiveJobs(m)) + Cardinality(Choosing(m)) <= Cardinality(Creators)
    BY DEF RaceInv
  <2> QED
    BY <2>1, JobsAndRequestsFinite
<1>2. Spec => []RaceInv
  BY RaceInit, RaceStep, NumberedCorrect, PTL DEF Spec
<1> QED
  BY <1>1, <1>2, PTL

-----------------------------------------------------------------------------
(* Rows and threads: a RUNNING job has its thread.                         *)

\* What becomes of a thread at work: it goes on with its job, or lets it go.
LEMMA ThreadGoesOn ==
    ASSUME TypeInv, [Next]_vars, NEW v \in Workers, wpc[v] \in Started
    PROVE  \/ wpc'[v] \in Started /\ wjob'[v] = wjob[v]
           \/ Crash \/ Complete(v) \/ Fail(v) \/ Stop(v)
           \/ CompleteLost(v) \/ FailLost(v) \/ StopLost(v) \/ RefreshLost(v)
<1> USE DEF TypeInv, TypeOK, Started, workerVars
<1>1. CASE UNCHANGED <<wpc, wjob>>
  BY <1>1
<1>2. CASE Boot \/ Serve \/ Quiet \/ UNCHANGED vars \/ \E j \in Jobs : ResumeSubmit(j)
  BY <1>1, <1>2 DEF Boot, Serve, Quiet, vars, ResumeSubmit
<1>3. CASE \E c \in Creators : Request(c) \/ Create(c) \/ RequestFails(c)
  BY <1>1, <1>3 DEF Request, Create, Check, CommitJobs, Submit, Respond, RequestFails,
                    EndRequest
<1>4. CASE \/ \E m \in Mappings : DeleteMapping(m)
           \/ \E x \in Cancellers :
                CancelWrite(x) \/ CancelFails(x) \/ \E j \in Jobs : CancelRead(x, j)
  BY <1>1, <1>4 DEF DeleteMapping, CancelWrite, CancelFails, CancelRead
<1>5. ASSUME NEW w \in Workers, Run(w) \/ RunDisturbed(w), w # v
      PROVE  wpc'[v] = wpc[v] /\ wjob'[v] = wjob[v]
  <2>1. CASE Take(w) \/ Setup(w) \/ NextItem(w) \/ FinishItem(w) \/ RunFails(w)
    BY <1>5, <2>1 DEF Take, Setup, NextItem, FinishItem, RunFails, Move
  <2>2. CASE Start(w)
    BY <1>5, <2>2 DEF Start, Release, Move
  <2>3. CASE Complete(w) \/ Fail(w) \/ Stop(w) \/ StartFault(w) \/ CompleteLost(w)
               \/ FailLost(w) \/ StopLost(w) \/ RefreshLost(w)
    BY <1>5, <2>3 DEF Complete, Fail, Finish, Stop, StartFault, CompleteLost, FailLost,
                      StopLost, RefreshLost, Release
  <2> QED
    BY <1>5, <2>1, <2>2, <2>3 DEF Run, RunDisturbed
<1>6. CASE Take(v) \/ Start(v) \/ StartFault(v)
  BY <1>6 DEF Take, Start, StartFault
<1>7. CASE Setup(v) \/ NextItem(v) \/ FinishItem(v) \/ RunFails(v)
  BY <1>7 DEF Setup, NextItem, FinishItem, RunFails, Move
<1> QED
  BY <1>2, <1>3, <1>4, <1>5, <1>6, <1>7 DEF Next, Container, Run, RunDisturbed

\* Where a thread at work comes from: it was at work on the same job, or it
\* had taken the job and found it PENDING.
LEMMA ThreadCameFrom ==
    ASSUME TypeInv, [Next]_vars, NEW v \in Workers, wpc'[v] \in Started
    PROVE  /\ wjob'[v] = wjob[v] /\ wjob[v] \in Jobs
           /\ \/ wpc[v] \in Started
              \/ wpc[v] = "start" /\ status[wjob[v]] = "pending"
           /\ wpc'[v] = "stopping" => wpc[v] = "stopping" \/ status[wjob[v]] = "cancelled"
<1> DEFINE Came == /\ wjob'[v] = wjob[v] /\ wjob[v] \in Jobs
                   /\ \/ wpc[v] \in Started
                      \/ wpc[v] = "start" /\ status[wjob[v]] = "pending"
                   /\ wpc'[v] = "stopping" => wpc[v] = "stopping" \/ status[wjob[v]] = "cancelled"
<1> USE DEF TypeInv, TypeOK, WorkerShape, Started, workerVars
<1>1. CASE wpc'[v] = wpc[v] /\ wjob'[v] = wjob[v]
  BY <1>1
<1>2. CASE Boot \/ Serve \/ Quiet \/ UNCHANGED vars \/ \E j \in Jobs : ResumeSubmit(j)
  BY <1>1, <1>2 DEF Boot, Serve, Quiet, vars, ResumeSubmit
<1>3. CASE Crash
  BY <1>3 DEF Crash
<1>4. CASE \E c \in Creators : Request(c) \/ Create(c) \/ RequestFails(c)
  BY <1>1, <1>4 DEF Request, Create, Check, CommitJobs, Submit, Respond, RequestFails,
                    EndRequest
<1>5. CASE \/ \E m \in Mappings : DeleteMapping(m)
           \/ \E x \in Cancellers :
                CancelWrite(x) \/ CancelFails(x) \/ \E j \in Jobs : CancelRead(x, j)
  BY <1>1, <1>5 DEF DeleteMapping, CancelWrite, CancelFails, CancelRead
<1>6. ASSUME NEW w \in Workers, Take(w) \/ Setup(w) \/ NextItem(w) PROVE Came
  BY <1>6 DEF Take, Setup, NextItem, Move
<1>7. ASSUME NEW w \in Workers, FinishItem(w) \/ RunFails(w) PROVE Came
  BY <1>7 DEF FinishItem, RunFails, Move
<1>8. ASSUME NEW w \in Workers, Start(w) PROVE Came
  <2>1. CASE status[wjob[w]] = "pending"
    BY <1>8, <2>1 DEF Start, Move
  <2>2. CASE status[wjob[w]] # "pending"
    BY <1>8, <2>2 DEF Start, Release
  <2> QED
    BY <2>1, <2>2
<1>9. ASSUME NEW w \in Workers,
             Complete(w) \/ Fail(w) \/ Stop(w) \/ StartFault(w) \/ CompleteLost(w)
               \/ FailLost(w) \/ StopLost(w) \/ RefreshLost(w)
      PROVE  Came
  BY <1>9 DEF Complete, Fail, Finish, Stop, StartFault, CompleteLost, FailLost,
              StopLost, RefreshLost, Release
<1> QED
  BY <1>2, <1>3, <1>4, <1>5, <1>6, <1>7, <1>8, <1>9
     DEF Next, Container, Run, RunDisturbed

\* A run stops on its own only when its job was cancelled.
StoppingIsCancelled ==
    \A w \in Workers : wpc[w] = "stopping" => status[wjob[w]] = "cancelled"

LEMMA StoppingStep ==
    TypeInv /\ Numbered /\ StoppingIsCancelled /\ [Next]_vars => StoppingIsCancelled'
<1> SUFFICES ASSUME TypeInv, Numbered, StoppingIsCancelled, [Next]_vars,
                    NEW v \in Workers, wpc'[v] = "stopping"
             PROVE  status'[wjob'[v]] = "cancelled"
  BY DEF StoppingIsCancelled
<1>1. wjob'[v] = wjob[v] /\ wjob[v] \in Jobs /\ status[wjob[v]] = "cancelled"
  BY ThreadCameFrom DEF Started, StoppingIsCancelled
<1> QED
  BY <1>1, CancelledStep

LEMMA StoppingCorrect == Spec => []StoppingIsCancelled
<1>1. Init => StoppingIsCancelled
  BY DEF Init, StoppingIsCancelled
<1> QED
  BY <1>1, StoppingStep, NumberedCorrect, PTL DEF Spec

\* How the status of a job comes to be what it is after a step.
StatusSteps(j) ==
    \/ phase = "down" /\ status[j] = "running" /\ status'[j] = "pending"
    \/ /\ status[j] = "none" /\ status'[j] = "pending"
       /\ \E c \in Creators :
            CommitJobs(c) /\ j \in lastJob + 1 .. lastJob + Len(cbatch[c])
    \/ status'[j] = "cancelled"
    \/ /\ status[j] = "pending" /\ status'[j] = "running"
       /\ \E w \in Workers :
            /\ wpc[w] = "start" /\ wjob[w] = j
            /\ wpc' = [wpc EXCEPT ![w] = "setup"] /\ wjob' = wjob
    \/ status[j] = "running" /\ status'[j] \in {"completed", "failed"}

LEMMA StatusChanges ==
    ASSUME TypeInv, Numbered, [Next]_vars, NEW j \in Jobs, status'[j] # status[j]
    PROVE  StatusSteps(j)
<1> USE BoundsAssumption DEF TypeInv, TypeOK, WorkerShape, Jobs, NoJob, Started
<1>1. CASE Boot
  BY <1>1 DEF Boot, StatusSteps
<1>2. ASSUME NEW c \in Creators, CommitJobs(c) PROVE StatusSteps(j)
  <2>1. j \in lastJob + 1 .. lastJob + Len(cbatch[c]) /\ status'[j] = "pending"
    BY <1>2 DEF CommitJobs
  <2>2. j > lastJob
    BY <2>1, LenProperties
  <2>3. status[j] = "none"
    BY <2>2 DEF Numbered
  <2> QED
    BY <1>2, <2>1, <2>3 DEF StatusSteps
<1>3. ASSUME NEW x \in Cancellers, CancelWrite(x) PROVE StatusSteps(j)
  BY <1>3 DEF CancelWrite, StatusSteps
<1>4. CASE Crash \/ \E x \in Cancellers : CancelFails(x) \/ \E i \in Jobs : CancelRead(x, i)
  BY <1>4 DEF Crash, CancelFails, CancelRead, dbVars
<1>5. ASSUME NEW w \in Workers, Start(w) PROVE StatusSteps(j)
  <2>1. /\ wpc[w] = "start" /\ wjob[w] = j /\ status[j] = "pending"
        /\ status'[j] = "running" /\ Move(w, "setup") /\ wjob' = wjob
    BY <1>5 DEF Start
  <2> QED
    BY <2>1 DEF Move, StatusSteps
<1>6. ASSUME NEW w \in Workers, Complete(w) \/ Fail(w) PROVE StatusSteps(j)
  BY <1>6 DEF Complete, Fail, Finish, StatusSteps
<1> QED
  BY <1>1, <1>2, <1>3, <1>4, <1>5, <1>6, StatusFrame DEF Next, Container, Create, Run

\* Faults are counted, deleted mappings do not come back, and only Boot ends
\* the time in which there is no process.
LEMMA WearKept ==
    ASSUME TypeInv, [Next]_vars
    PROVE  /\ dbFaults' = 0 => dbFaults = 0
           /\ present' \subseteq present
           /\ phase = "down" /\ phase' # "down" => Boot
<1> DEFINE Kept == /\ present' \subseteq present
                   /\ dbFaults' = dbFaults \/ dbFaults' = dbFaults + 1
                   /\ phase = "down" /\ phase' # "down" => Boot
<1> USE DEF boundVars, poolVars, dbVars
<1>1. ASSUME Container \/ Crash \/ Quiet \/ UNCHANGED vars PROVE Kept
  BY <1>1 DEF Container, Boot, Serve, ResumeSubmit, Crash, Quiet, vars
<1>2. ASSUME NEW c \in Creators, Request(c) \/ Check(c) \/ CommitJobs(c) \/ Submit(c)
      PROVE  Kept
  BY <1>2 DEF Request, Check, CommitJobs, Submit
<1>3. ASSUME NEW c \in Creators, Respond(c) \/ RequestFails(c) PROVE Kept
  BY <1>3 DEF Respond, RequestFails, EndRequest, DbFault
<1>4. ASSUME NEW m \in Mappings, DeleteMapping(m) PROVE Kept
  BY <1>4 DEF DeleteMapping
<1>5. ASSUME NEW x \in Cancellers, CancelWrite(x) \/ CancelFails(x) PROVE Kept
  BY <1>5 DEF CancelWrite, CancelFails, DbFault
<1>6. ASSUME NEW x \in Cancellers, NEW j \in Jobs, CancelRead(x, j) PROVE Kept
  BY <1>6 DEF CancelRead
<1>7. ASSUME NEW w \in Workers, Run(w) PROVE Kept
  BY <1>7 DEF Run, Take, Start, Setup, NextItem, FinishItem, Complete, Fail, Stop, Finish
<1>8. ASSUME NEW w \in Workers, RunDisturbed(w) PROVE Kept
  BY <1>8 DEF RunDisturbed, RunFails, StartFault, CompleteLost, FailLost, StopLost,
              RefreshLost, DbFault
<1>9. Kept
  BY <1>1, <1>2, <1>3, <1>4, <1>5, <1>6, <1>7, <1>8 DEF Next, Create
<1>10. dbFaults \in Nat
  BY DEF TypeInv, TypeOK
<1> QED
  BY <1>9, <1>10

LEMMA OwnedStep ==
    TypeInv /\ Numbered /\ RunnerInv /\ StoppingIsCancelled /\ RunningIsOwned /\ [Next]_vars
      => RunningIsOwned'
<1> SUFFICES ASSUME TypeInv, Numbered, RunnerInv, StoppingIsCancelled, RunningIsOwned,
                    [Next]_vars, NEW j \in Jobs, status'[j] = "running",
                    phase' # "down", dbFaults' = 0, mappingOf'[j] \in present'
             PROVE  \E w \in Workers : wpc'[w] \in Started /\ wjob'[w] = j
  BY DEF RunningIsOwned, Holds
<1>1. CASE status[j] # "running"
  <2>1. PICK w \in Workers : /\ wpc[w] = "start" /\ wjob[w] = j
                             /\ wpc' = [wpc EXCEPT ![w] = "setup"] /\ wjob' = wjob
    BY <1>1, StatusChanges DEF StatusSteps
  <2> QED
    BY <2>1 DEF TypeInv, TypeOK, Started
<1>2. CASE status[j] = "running"
  <2>1. j <= lastJob
    BY <1>2, BoundsAssumption DEF Numbered, Jobs, TypeInv, TypeOK
  <2>2. dbFaults = 0 /\ mappingOf[j] \in present
    BY <2>1, RowKept, WearKept
  <2>3. phase # "down"
    <3>1. ~Boot
      BY <1>2 DEF Boot
    <3> QED
      BY <3>1, WearKept
  <2>4. PICK v \in Workers : wpc[v] \in Started /\ wjob[v] = j
    BY <1>2, <2>2, <2>3 DEF RunningIsOwned, Holds
  <2>5. ~Crash
    BY DEF Crash
  <2>6. ~Complete(v) /\ ~Fail(v)
    BY <1>2, <2>4 DEF Complete, Fail, Finish, TypeInv, TypeOK
  <2>7. ~Stop(v)
    BY <1>2, <2>4 DEF Stop, StoppingIsCancelled
  <2>8. ~CompleteLost(v) /\ ~FailLost(v) /\ ~StopLost(v) /\ ~RefreshLost(v)
    BY <2>2, <2>4 DEF CompleteLost, FailLost, StopLost,
              RefreshLost, DbFault
  <2> QED
    BY <2>4, <2>5, <2>6, <2>7, <2>8, ThreadGoesOn
<1> QED
  BY <1>1, <1>2

\* Of a job that says RUNNING there is a thread that runs it, as long as the
\* process is up: crashes, cancellations and other requests never separate the
\* two; a failed commit and a deleted mapping are the only causes that do.
THEOREM RunningJobsAreOwned == Spec => []RunningIsOwned
<1>1. Init => RunningIsOwned
  BY DEF Init, RunningIsOwned
<1> QED
  BY <1>1, OwnedStep, RunnerCorrect, StoppingCorrect, PTL DEF Spec

-----------------------------------------------------------------------------
(* finished_at.                                                            *)

\* Who sets finished_at.
LEMMA FinishedBy ==
    ASSUME TypeInv, [Next]_vars, NEW j \in Jobs, finished'[j] # finished[j]
    PROVE  /\ finished'[j]
           /\ \E w \in Workers :
                /\ wpc[w] \in Started /\ wpc'[w] = "idle" /\ wjob[w] = j
                /\ Complete(w) \/ Fail(w) \/ Stop(w) \/ dbFaults' > dbFaults
<1> USE DEF TypeInv, TypeOK, WorkerShape, Started
<1>1. ASSUME finished' = finished PROVE FALSE
  BY <1>1
<1>2. CASE Container \/ Crash \/ Quiet \/ UNCHANGED vars
  BY <1>1, <1>2 DEF Container, Boot, Serve, ResumeSubmit, Crash, Quiet, vars, dbVars
<1>3. CASE \E c \in Creators : Request(c) \/ Create(c) \/ RequestFails(c)
  BY <1>1, <1>3 DEF Create, Request, Check, CommitJobs, Submit, Respond, RequestFails,
                    EndRequest, dbVars
<1>4. CASE \/ \E m \in Mappings : DeleteMapping(m)
           \/ \E x \in Cancellers :
                CancelWrite(x) \/ CancelFails(x) \/ \E i \in Jobs : CancelRead(x, i)
  BY <1>1, <1>4 DEF DeleteMapping, CancelWrite, CancelFails, CancelRead, dbVars
<1>5. CASE \E w \in Workers : \/ Take(w) \/ Start(w) \/ Setup(w) \/ NextItem(w)
                              \/ FinishItem(w) \/ RunFails(w) \/ StartFault(w)
                              \/ CompleteLost(w) \/ StopLost(w) \/ RefreshLost(w)
  BY <1>1, <1>5 DEF Take, Start, Setup, NextItem, FinishItem, RunFails, StartFault,
                    CompleteLost, StopLost, RefreshLost, dbVars
<1>6. ASSUME NEW w \in Workers, Complete(w) \/ Fail(w)
      PROVE  finished'[j] /\ wpc[w] \in Started /\ wpc'[w] = "idle" /\ wjob[w] = j
  BY <1>6 DEF Complete, Fail, Finish, Release
<1>7. ASSUME NEW w \in Workers, Stop(w)
      PROVE  finished'[j] /\ wpc[w] \in Started /\ wpc'[w] = "idle" /\ wjob[w] = j
  BY <1>7 DEF Stop, Release
<1>8. ASSUME NEW w \in Workers, FailLost(w)
      PROVE  /\ finished'[j] /\ wpc[w] \in Started /\ wpc'[w] = "idle" /\ wjob[w] = j
             /\ dbFaults' > dbFaults
  <2>1. PICK persisted \in {TRUE, finished[wjob[w]]} :
          finished' = [finished EXCEPT ![wjob[w]] = persisted]
    BY <1>8 DEF FailLost
  <2>2. wjob[w] = j /\ finished'[j] = TRUE
    BY <2>1
  <2> QED
    BY <1>8, <2>2 DEF FailLost, Release, DbFault
<1> QED
  BY <1>2, <1>3, <1>4, <1>5, <1>6, <1>7, <1>8 DEF Next, Run, RunDisturbed

LEMMA FinishedStep ==
    TypeInv /\ Numbered /\ RunnerInv /\ StoppingIsCancelled /\ FinishedIsSettled /\ [Next]_vars
      => FinishedIsSettled'
<1> SUFFICES ASSUME TypeInv, Numbered, RunnerInv, StoppingIsCancelled, FinishedIsSettled,
                    [Next]_vars, NEW j \in Jobs, finished'[j], dbFaults' = 0
             PROVE  /\ status'[j] \in Terminal
                    /\ \A w \in Workers : ~(wpc'[w] \in Started /\ wjob'[w] = j)
  BY DEF FinishedIsSettled, Holds
<1>1. dbFaults = 0
  BY WearKept
<1>2. CASE finished[j]
  <2>1. status[j] \in Terminal /\ \A w \in Workers : ~(wpc[w] \in Started /\ wjob[w] = j)
    BY <1>1, <1>2 DEF FinishedIsSettled, Holds
  <2>2. status'[j] \in Terminal
    BY <2>1, StatusChanges DEF StatusSteps, Terminal
  <2>3. \A w \in Workers : ~(wpc'[w] \in Started /\ wjob'[w] = j)
    BY <2>1, ThreadCameFrom DEF Terminal
  <2> QED
    BY <2>2, <2>3
<1>3. CASE ~finished[j]
  <2>1. PICK w \in Workers : /\ wpc[w] \in Started /\ wpc'[w] = "idle" /\ wjob[w] = j
                             /\ Complete(w) \/ Fail(w) \/ Stop(w)
    BY <1>1, <1>3, FinishedBy
  <2>2. status[j] \in {"running", "cancelled"}
    BY <2>1 DEF RunnerInv
  <2>3. status'[j] \in Terminal
    <3>1. CASE Complete(w) \/ Fail(w)
      BY <2>1, <2>2, <3>1 DEF Complete, Fail, Finish, TypeInv, TypeOK, Terminal
    <3>2. CASE Stop(w)
      BY <2>1, <3>2 DEF Stop, StoppingIsCancelled, Terminal
    <3> QED
      BY <2>1, <3>1, <3>2
  <2>4. ASSUME NEW v \in Workers, wpc'[v] \in Started, wjob'[v] = j PROVE FALSE
    <3>1. wpc[v] \in Started /\ wjob[v] = j
      BY <2>2, <2>4, ThreadCameFrom
    <3>2. v = w
      BY <2>1, <3>1 DEF RunnerInv, OneRunnerPerJob
    <3> QED
      BY <2>1, <2>4, <3>2 DEF Started
  <2> QED
    BY <2>3, <2>4
<1> QED
  BY <1>2, <1>3

\* A job with a finished_at is settled for good, and its thread is done with
\* it, as long as no commit has failed.
THEOREM FinishedJobsAreSettled == Spec => []FinishedIsSettled
<1>1. Init => FinishedIsSettled
  BY DEF Init, FinishedIsSettled
<1> QED
  BY <1>1, FinishedStep, RunnerCorrect, StoppingCorrect, PTL DEF Spec

-----------------------------------------------------------------------------
(* The watermark.                                                          *)

\* Who moves a watermark.
LEMMA SyncedBy ==
    ASSUME TypeInv, [Next]_vars, NEW m \in Mappings, synced'[m] # synced[m]
    PROVE  \E w \in Workers :
             /\ wpc[w] \in Started /\ wjob[w] \in Jobs /\ mappingOf[wjob[w]] = m
             /\ ~dryRun[wjob[w]] /\ synced'[m] = wjob[w] /\ finished'[wjob[w]]
             /\ status' = [status EXCEPT ![wjob[w]] = IF @ = "running" THEN "completed" ELSE @]
<1> USE DEF TypeInv, TypeOK, WorkerShape, Started
<1>1. ASSUME synced' = synced PROVE FALSE
  BY <1>1
<1>2. CASE Container \/ Crash \/ Quiet \/ UNCHANGED vars
  BY <1>1, <1>2 DEF Container, Boot, Serve, ResumeSubmit, Crash, Quiet, vars, dbVars
<1>3. CASE \E c \in Creators : Request(c) \/ Create(c) \/ RequestFails(c)
  BY <1>1, <1>3 DEF Create, Request, Check, CommitJobs, Submit, Respond, RequestFails,
                    EndRequest, dbVars
<1>4. CASE \/ \E n \in Mappings : DeleteMapping(n)
           \/ \E x \in Cancellers :
                CancelWrite(x) \/ CancelFails(x) \/ \E i \in Jobs : CancelRead(x, i)
  BY <1>1, <1>4 DEF DeleteMapping, CancelWrite, CancelFails, CancelRead, dbVars
<1>5. CASE \E w \in Workers : \/ Take(w) \/ Start(w) \/ Setup(w) \/ NextItem(w)
                              \/ FinishItem(w) \/ Fail(w) \/ Stop(w) \/ RunDisturbed(w)
  BY <1>1, <1>5 DEF Take, Start, Setup, NextItem, FinishItem, Fail, Stop, RunDisturbed,
                    RunFails, StartFault, CompleteLost, FailLost, StopLost, RefreshLost, dbVars
<1>6. ASSUME NEW w \in Workers, Complete(w)
      PROVE  /\ wpc[w] \in Started /\ wjob[w] \in Jobs /\ mappingOf[wjob[w]] = m
             /\ ~dryRun[wjob[w]] /\ synced'[m] = wjob[w] /\ finished'[wjob[w]]
             /\ status' = [status EXCEPT ![wjob[w]] = IF @ = "running" THEN "completed" ELSE @]
  BY <1>1, <1>6 DEF Complete, Finish
<1> QED
  BY <1>2, <1>3, <1>4, <1>5, <1>6 DEF Next, Run

LEMMA SyncedStep ==
    TypeInv /\ Numbered /\ RunnerInv /\ SyncedByWholeRun /\ [Next]_vars => SyncedByWholeRun'
<1> SUFFICES ASSUME TypeInv, Numbered, RunnerInv, SyncedByWholeRun, [Next]_vars,
                    NEW m \in Mappings, synced'[m] # NoJob
             PROVE  /\ mappingOf'[synced'[m]] = m /\ ~dryRun'[synced'[m]]
                    /\ finished'[synced'[m]]
                    /\ status'[synced'[m]] \in {"completed", "cancelled"}
  BY DEF SyncedByWholeRun
<1> USE BoundsAssumption
<1>1. CASE synced'[m] = synced[m]
  <2>1. PICK j \in Jobs : j = synced[m]
    BY <1>1 DEF TypeInv, TypeOK
  <2>2. /\ mappingOf[j] = m /\ ~dryRun[j] /\ finished[j]
        /\ status[j] \in {"completed", "cancelled"}
    BY <1>1, <2>1 DEF SyncedByWholeRun
  <2>3. j <= lastJob
    BY <2>2 DEF Numbered, Jobs, TypeInv, TypeOK
  <2>4. mappingOf'[j] = m /\ ~dryRun'[j]
    BY <2>2, <2>3, RowKept
  <2>5. finished'[j]
    BY <2>2, FinishedBy
  <2>6. status'[j] \in {"completed", "cancelled"}
    BY <2>2, StatusChanges DEF StatusSteps
  <2> QED
    BY <1>1, <2>1, <2>4, <2>5, <2>6
<1>2. CASE synced'[m] # synced[m]
  <2>1. PICK w \in Workers :
          /\ wpc[w] \in Started /\ wjob[w] \in Jobs /\ mappingOf[wjob[w]] = m
          /\ ~dryRun[wjob[w]] /\ synced'[m] = wjob[w] /\ finished'[wjob[w]]
          /\ status' = [status EXCEPT ![wjob[w]] = IF @ = "running" THEN "completed" ELSE @]
    BY <1>2, SyncedBy
  <2>2. status[wjob[w]] \in {"running", "cancelled"}
    BY <2>1 DEF RunnerInv
  <2>3. wjob[w] <= lastJob
    BY <2>1, <2>2 DEF Numbered, Jobs, TypeInv, TypeOK
  <2>4. mappingOf'[wjob[w]] = m /\ ~dryRun'[wjob[w]]
    BY <2>1, <2>3, RowKept
  <2>5. status'[wjob[w]] \in {"completed", "cancelled"}
    BY <2>1, <2>2 DEF TypeInv, TypeOK
  <2> QED
    BY <2>1, <2>4, <2>5
<1> QED
  BY <1>1, <1>2

\* A watermark is always the start of a real run of its mapping that went
\* through to its end, whatever crashed, failed or was cancelled on the way.
THEOREM WatermarksAreOfWholeRuns == Spec => []SyncedByWholeRun
<1>1. Init => SyncedByWholeRun
  BY DEF Init, SyncedByWholeRun
<1> QED
  BY <1>1, SyncedStep, RunnerCorrect, PTL DEF Spec

-----------------------------------------------------------------------------
(* The watermark moves forward.                                            *)

LEMMA ForwardStep ==
    ASSUME TypeInv, Numbered, RunnerInv, SyncedByWholeRun, Successive, [Next]_vars,
           NEW m \in Mappings, synced'[m] < synced[m]
    PROVE  status[synced'[m]] = "cancelled" \/ synced[m] \in raced
<1> USE BoundsAssumption
<1>1. synced[m] \in Nat /\ synced'[m] \in Nat
  <2>1. TypeInv'
    BY TypeStep
  <2> QED
    BY <2>1 DEF TypeInv, TypeOK, Jobs, NoJob
<1>2. PICK w \in Workers : /\ wpc[w] \in Started /\ wjob[w] \in Jobs
                           /\ mappingOf[wjob[w]] = m /\ synced'[m] = wjob[w]
  BY <1>1, SyncedBy
<1>3. /\ synced[m] \in Jobs /\ mappingOf[synced[m]] = m
      /\ status[synced[m]] \in {"completed", "cancelled"}
  BY <1>1 DEF SyncedByWholeRun, TypeInv, TypeOK, NoJob
<1>4. synced[m] <= lastJob
  BY <1>3 DEF Numbered, Jobs, TypeInv, TypeOK
<1>5. CASE synced[m] \in raced
  BY <1>5
<1>6. ASSUME synced[m] \notin raced PROVE status[wjob[w]] \notin Active
  BY <1>2, <1>3, <1>4, <1>6 DEF Successive, Jobs
<1> QED
  BY <1>2, <1>5, <1>6 DEF RunnerInv, Active

\* A watermark goes back to an earlier job only when that job was cancelled
\* and its thread came to the end of its work all the same, or when the job it
\* was at had been inserted by a request whose check missed another's commit.
THEOREM WatermarksMoveForward == Spec => WatermarkMovesForward
<1>1. TypeInv /\ Numbered /\ RunnerInv /\ SyncedByWholeRun /\ ChoiceInv /\ [Next]_vars
        => [\A m \in Mappings :
              synced'[m] < synced[m] =>
                  status[synced'[m]] = "cancelled" \/ synced[m] \in raced]_vars
  BY ForwardStep DEF ChoiceInv
<1> QED
  BY <1>1, RunnerCorrect, WatermarksAreOfWholeRuns, ChoiceCorrect, PTL
     DEF Spec, WatermarkMovesForward

-----------------------------------------------------------------------------
(* A PENDING job is on its way to a thread.                                *)

\* Where a PENDING job is to be found.
OnItsWay(j) ==
    \/ j \in toResume \cup Range(queue)
    \/ \E c \in Creators : j \in Range(cmade[c])
    \/ \E w \in Workers : wpc[w] = "start" /\ wjob[w] = j

LEMMA RangeAppend ==
    ASSUME NEW S, NEW s \in Seq(S), NEW e \in S
    PROVE  Range(Append(s, e)) = Range(s) \cup {e}
<1> DEFINE t == Append(s, e)
           n == Len(s)
<1>1. /\ n \in Nat /\ DOMAIN s = 1..n /\ DOMAIN t = 1..(n + 1)
      /\ \A i \in 1..n : t[i] = s[i]
      /\ t[n + 1] = e
  BY AppendProperties, LenProperties
<1>2. \A x \in Range(t) : x \in Range(s) \cup {e}
  BY <1>1 DEF Range
<1>3. \A x \in Range(s) : x \in Range(t)
  BY <1>1 DEF Range
<1>4. e \in Range(t)
  BY <1>1 DEF Range
<1> QED
  BY <1>2, <1>3, <1>4

LEMMA RangeTail ==
    ASSUME NEW S, NEW s \in Seq(S), s # << >>
    PROVE  Range(s) = {Head(s)} \cup Range(Tail(s))
<1> DEFINE t == Tail(s)
           n == Len(s)
<1>1. /\ n \in Nat /\ n >= 1 /\ DOMAIN s = 1..n /\ DOMAIN t = 1..(n - 1)
      /\ \A i \in 1..(n - 1) : t[i] = s[i + 1]
      /\ Head(s) = s[1]
  BY LenProperties, EmptySeq, HeadTailProperties
<1> HIDE DEF t, n
<1>2. ASSUME NEW i \in 1..n PROVE s[i] \in {Head(s)} \cup Range(t)
  <2>1. CASE i = 1
    BY <1>1, <2>1
  <2>2. CASE i # 1
    <3>1. i - 1 \in 1..(n - 1) /\ t[i - 1] = s[i]
      BY <1>1, <2>2
    <3> QED
      BY <1>1, <3>1 DEF Range
  <2> QED
    BY <2>1, <2>2
<1>3. \A i \in 1..(n - 1) : t[i] \in Range(s)
  BY <1>1 DEF Range
<1>4. Head(s) \in Range(s)
  BY <1>1 DEF Range
<1> QED
  BY <1>1, <1>2, <1>3, <1>4 DEF Range, t

LEMMA RangeConcat ==
    ASSUME NEW S, NEW s \in Seq(S), NEW t \in Seq(S)
    PROVE  Range(s) \subseteq Range(s \o t) /\ Range(t) \subseteq Range(s \o t)
<1>1. /\ Len(s) \in Nat /\ Len(t) \in Nat /\ DOMAIN s = 1..Len(s) /\ DOMAIN t = 1..Len(t)
      /\ DOMAIN (s \o t) = 1..(Len(s) + Len(t))
      /\ \A i \in 1..Len(s) : (s \o t)[i] = s[i]
      /\ \A i \in 1..Len(t) : (s \o t)[Len(s) + i] = t[i]
  BY LenProperties, ConcatProperties
<1>2. ASSUME NEW i \in 1..Len(s) PROVE s[i] \in Range(s \o t)
  BY <1>1 DEF Range
<1>3. ASSUME NEW i \in 1..Len(t) PROVE t[i] \in Range(s \o t)
  <2>1. Len(s) + i \in DOMAIN (s \o t)
    BY <1>1
  <2> QED
    BY <1>1, <2>1 DEF Range
<1> QED
  BY <1>1, <1>2, <1>3 DEF Range

\* Steps after which everything that was on its way still is.
LEMMA DispatchFrame ==
    ASSUME NEW j \in Jobs, OnItsWay(j),
           toResume' = toResume, Range(queue) \subseteq Range(queue'),
           \A c \in Creators : Range(cmade[c]) \subseteq Range(cmade'[c]),
           \A w \in Workers : wpc[w] = "start" /\ wjob[w] = j =>
                                wpc'[w] = "start" /\ wjob'[w] = j
    PROVE  OnItsWay(j)'
  BY DEF OnItsWay

LEMMA CommitDispatch ==
    ASSUME TypeInv, NEW c \in Creators, CommitJobs(c), NEW j \in Jobs,
           OnItsWay(j) \/ j \in lastJob + 1 .. lastJob + Len(cbatch[c])
    PROVE  OnItsWay(j)'
<1> DEFINE n == Len(cbatch[c])
           new == [i \in 1..n |-> lastJob + i]
<1>1. n \in Nat /\ lastJob \in Nat /\ lastJob + n <= MaxJobs /\ cmade[c] \in Seq(Jobs)
  BY LenProperties, BoundsAssumption DEF CommitJobs, TypeInv, TypeOK
<1>2. new \in Seq(Jobs)
  BY <1>1, NewIdsAreJobs
<1>3. cmade'[c] = cmade[c] \o new /\ \A d \in Creators \ {c} : cmade'[d] = cmade[d]
  BY DEF CommitJobs, TypeInv, TypeOK
<1>4. Range(cmade[c]) \subseteq Range(cmade'[c]) /\ Range(new) \subseteq Range(cmade'[c])
  BY <1>1, <1>2, <1>3, RangeConcat
<1>5. CASE OnItsWay(j)
  BY <1>3, <1>4, <1>5, DispatchFrame DEF CommitJobs, poolVars, workerVars
<1>6. CASE j \in lastJob + 1 .. lastJob + n
  <2>1. j - lastJob \in 1..n /\ new[j - lastJob] = j
    BY <1>1, <1>6
  <2>2. j \in Range(new)
    BY <2>1 DEF Range
  <2> QED
    BY <1>4, <2>2 DEF OnItsWay
<1> QED
  BY <1>5, <1>6

\* Nobody who holds a job on its way lets it fall, short of a failed commit or
\* a mapping that is gone.
LEMMA DispatchKept ==
    ASSUME TypeInv, [Next]_vars, NEW j \in Jobs, OnItsWay(j), status'[j] = "pending",
           phase # "down", phase' # "down", dbFaults = 0, dbFaults' = 0, present = Mappings
    PROVE  OnItsWay(j)'
<1> USE DEF TypeInv, TypeOK, workerVars, createVars, poolVars
<1>1. CASE UNCHANGED <<poolVars, workerVars, cmade>>
  BY <1>1, DispatchFrame
<1>2. CASE Boot \/ Serve \/ Crash \/ Quiet \/ UNCHANGED vars
  BY <1>1, <1>2, DispatchFrame DEF Boot, Serve, Crash, Quiet, vars
<1>3. ASSUME NEW i \in Jobs, ResumeSubmit(i) PROVE OnItsWay(j)'
  <2>1. Range(queue') = Range(queue) \cup {i} /\ toResume' = toResume \ {i}
    BY <1>3, RangeAppend DEF ResumeSubmit
  <2> QED
    BY <1>3, <2>1 DEF ResumeSubmit, OnItsWay
<1>4. ASSUME NEW c \in Creators, Request(c) \/ Check(c) PROVE OnItsWay(j)'
  BY <1>4, DispatchFrame DEF Request, Check
<1>5. ASSUME NEW c \in Creators, CommitJobs(c) PROVE OnItsWay(j)'
  BY <1>5, CommitDispatch
<1>6. ASSUME NEW c \in Creators, Submit(c) PROVE OnItsWay(j)'
  <2>1. cmade[c] \in Seq(Jobs) /\ cmade[c] # << >> /\ Head(cmade[c]) \in Jobs
    BY <1>6, HeadTailProperties DEF Submit
  <2>2. /\ Range(queue') = Range(queue) \cup {Head(cmade[c])}
        /\ Range(cmade[c]) = {Head(cmade[c])} \cup Range(cmade'[c])
        /\ \A d \in Creators \ {c} : cmade'[d] = cmade[d]
    BY <1>6, <2>1, RangeAppend, RangeTail DEF Submit
  <2> QED
    BY <1>6, <2>2 DEF Submit, OnItsWay
<1>7. ASSUME NEW c \in Creators, Respond(c) PROVE OnItsWay(j)'
  BY <1>7, DispatchFrame DEF Respond, EndRequest
<1>8. ASSUME NEW c \in Creators, RequestFails(c) PROVE FALSE
  <2>1. MappingLost(c)
    BY <1>8 DEF RequestFails, DbFault
  <2>2. Head(ctodo[c]) \in Mappings
    BY <2>1, HeadTailProperties DEF MappingLost
  <2> QED
    BY <2>1, <2>2 DEF MappingLost
<1>9. CASE \/ \E m \in Mappings : DeleteMapping(m)
           \/ \E x \in Cancellers :
                CancelWrite(x) \/ CancelFails(x) \/ \E i \in Jobs : CancelRead(x, i)
  BY <1>1, <1>9 DEF DeleteMapping, CancelWrite, CancelFails, CancelRead
<1>10. ASSUME NEW w \in Workers, Take(w) PROVE OnItsWay(j)'
  <2>1. queue \in Seq(Jobs) /\ queue # << >>
    BY <1>10 DEF Take
  <2>2. Range(queue) = {Head(queue)} \cup Range(queue')
    BY <1>10, <2>1, RangeTail DEF Take
  <2> QED
    BY <1>10, <2>2 DEF Take, Move, OnItsWay
<1>11. ASSUME NEW w \in Workers, Start(w) PROVE OnItsWay(j)'
  <2>1. CASE status[wjob[w]] = "pending"
    BY <1>11, <2>1, DispatchFrame DEF Start, Move
  <2>2. CASE status[wjob[w]] # "pending"
    BY <1>11, <2>2, DispatchFrame DEF Start, Release
  <2> QED
    BY <2>1, <2>2
<1>12. ASSUME NEW w \in Workers, Setup(w) \/ NextItem(w) \/ FinishItem(w) \/ RunFails(w)
       PROVE  OnItsWay(j)'
  BY <1>12, DispatchFrame DEF Setup, NextItem, FinishItem, RunFails, Move
<1>13. ASSUME NEW w \in Workers,
              Complete(w) \/ Fail(w) \/ Stop(w) \/ CompleteLost(w) \/ FailLost(w)
               \/ StopLost(w) \/ RefreshLost(w)
       PROVE  OnItsWay(j)'
  BY <1>13, DispatchFrame DEF Complete, Fail, Finish, Stop, CompleteLost, FailLost,
                              StopLost, RefreshLost, Release
<1>14. ASSUME NEW w \in Workers, StartFault(w) PROVE FALSE
  BY <1>14 DEF StartFault, DbFault
<1> QED
  BY <1>2, <1>3, <1>4, <1>5, <1>6, <1>7, <1>8, <1>9, <1>10, <1>11, <1>12, <1>13, <1>14
     DEF Next, Container, Create, Run, RunDisturbed

LEMMA DispatchStep ==
    TypeInv /\ Numbered /\ PendingIsDispatched /\ [Next]_vars => PendingIsDispatched'
<1> SUFFICES ASSUME TypeInv, Numbered, PendingIsDispatched, [Next]_vars, NEW j \in Jobs,
                    status'[j] = "pending", phase' # "down", dbFaults' = 0,
                    present' = Mappings
             PROVE  OnItsWay(j)'
  BY DEF PendingIsDispatched, OnItsWay
<1>1. dbFaults = 0 /\ present = Mappings
  BY WearKept DEF TypeInv, TypeOK
<1>2. CASE Boot
  BY <1>2 DEF Boot, OnItsWay, Active, TypeInv, TypeOK
<1>3. CASE ~Boot
  <2>1. phase # "down"
    BY <1>3, WearKept
  <2>2. CASE status[j] = "pending"
    <3>1. OnItsWay(j)
      BY <1>1, <2>1, <2>2 DEF PendingIsDispatched, OnItsWay
    <3> QED
      BY <1>1, <2>1, <3>1, DispatchKept
  <2>3. CASE status[j] # "pending"
    BY <2>1, <2>3, StatusChanges, CommitDispatch DEF StatusSteps
  <2> QED
    BY <2>2, <2>3
<1> QED
  BY <1>2, <1>3

\* A PENDING job never falls between the database and the pool: the startup
\* hook, the request that made it, the queue or a thread has it, until a commit
\* fails or a mapping is deleted.
THEOREM PendingJobsAreDispatched == Spec => []PendingIsDispatched
<1>1. Init => PendingIsDispatched
  BY DEF Init, PendingIsDispatched
<1> QED
  BY <1>1, DispatchStep, NumberedCorrect, PTL DEF Spec

-----------------------------------------------------------------------------
(* The refinement of JobLifeCycle.  RunnerInv carries the argument: the    *)
(* job of a thread at work is RUNNING or CANCELLED, and no other thread    *)
(* has it.  Reading reads the mapping off it, and each action is then a  *)
(* step of JobLifeCycle on the jobs whose row or thread it changes.        *)

Held(j) == \E w \in Workers : Holds(w, j)

\* What the refinement rests on, besides the invariant below.
Inv == TypeInv /\ Numbered /\ DownIsEmpty /\ RunnerInv

\* Nobody is about to cancel a job that is not there.
CancelKnown ==
    \A x \in Cancellers : xjob[x] # NoJob => xjob[x] \in Jobs /\ status[xjob[x]] # "none"

LEMMA CancelKnownInit == Init => CancelKnown
  BY DEF Init, CancelKnown

LEMMA CancelKnownStep == TypeInv /\ CancelKnown /\ [Next]_vars => CancelKnown'
<1> SUFFICES ASSUME TypeInv, CancelKnown, [Next]_vars PROVE CancelKnown'
  OBVIOUS
<1> USE BoundsAssumption DEF TypeInv, TypeOK, CancelKnown, Jobs, NoJob
<1>1. CASE Boot
  BY <1>1 DEF Boot
<1>2. CASE Crash
  BY <1>2 DEF Crash
<1>3. ASSUME NEW c \in Creators, CommitJobs(c) PROVE CancelKnown'
  <2>1. /\ xjob' = xjob
        /\ \A j \in Jobs : status'[j] \in {"pending", status[j]}
    BY <1>3 DEF CommitJobs
  <2> QED
    BY <2>1
<1>4. ASSUME NEW x \in Cancellers, NEW j \in Jobs, CancelRead(x, j) PROVE CancelKnown'
  BY <1>4 DEF CancelRead, Active, dbVars
<1>5. ASSUME NEW x \in Cancellers, CancelWrite(x) PROVE CancelKnown'
  BY <1>5 DEF CancelWrite
<1>6. ASSUME NEW x \in Cancellers, CancelFails(x) PROVE CancelKnown'
  BY <1>6 DEF CancelFails, dbVars
<1>7. ASSUME NEW w \in Workers, Start(w) PROVE CancelKnown'
  <2>1. xjob' = xjob
    BY <1>7 DEF Start
  <2>2. status' = status \/ status' = [status EXCEPT ![wjob[w]] = "running"]
    BY <1>7 DEF Start
  <2> QED
    BY <2>1, <2>2
<1>8. ASSUME NEW w \in Workers, Complete(w) \/ Fail(w) PROVE CancelKnown'
  BY <1>8 DEF Complete, Fail, Finish
<1>9. CASE UNCHANGED <<status, xjob>>
  BY <1>9
<1> QED
  BY <1>1, <1>2, <1>3, <1>4, <1>5, <1>6, <1>7, <1>8, <1>9, StatusFrame
     DEF Next, Container, Create, Run

-----------------------------------------------------------------------------
(* The mapping.                                                            *)

\* What a job amounts to, case by case.
Reading ==
    \A j \in Jobs :
        /\ Held(j) => TaskOf(j) = "working" /\ status[j] \in {"running", "cancelled"}
                        /\ phase # "down"
        /\ ~Held(j) /\ status[j] = "none" => TaskOf(j) = "new"
        /\ ~Held(j) /\ status[j] = "pending" => TaskOf(j) = "waiting"
        /\ ~Held(j) /\ status[j] = "running" =>
             TaskOf(j) = (IF phase = "down" THEN "waiting" ELSE "lost")
        /\ ~Held(j) /\ status[j] \in Terminal => TaskOf(j) = "over"
        /\ status[j] \in {"none", "pending", "running"} \cup Terminal
        /\ VerdictOf(j) = (IF status[j] \in Terminal THEN status[j] ELSE "open")

LEMMA ReadingCorrect == Inv => Reading
<1> SUFFICES ASSUME Inv, NEW j \in Jobs
             PROVE  /\ Held(j) => status[j] \in {"running", "cancelled"} /\ phase # "down"
                    /\ status[j] \in {"none", "pending", "running"} \cup Terminal
  BY DEF Reading, Held, TaskOf, VerdictOf, Terminal
<1>1. Held(j) => status[j] \in {"running", "cancelled"} /\ phase # "down"
  BY DEF Inv, Held, Holds, RunnerInv, DownIsEmpty, Started
<1>2. status[j] \in {"none", "pending", "running"} \cup Terminal
  BY DEF Inv, TypeInv, TypeOK, Active
<1> QED
  BY <1>1, <1>2

LEMMA ReadingNext == Inv' => Reading'
  BY ReadingCorrect, PTL

LEMMA MapsInit == Init => LifeCycle!Init
<1> SUFFICES ASSUME Init PROVE LifeCycle!Init
  OBVIOUS
<1>1. \A j \in Jobs : TaskOf(j) = "new" /\ VerdictOf(j) = "open"
  BY DEF Init, TaskOf, VerdictOf, Holds, Started, Terminal
<1> QED
  BY <1>1 DEF LifeCycle!Init

\* Steps that change neither a status, nor who is at work, nor whether the
\* container is up.
LEMMA MapsToStutter ==
    ASSUME Reading, Reading', status' = status, (phase' = "down") <=> (phase = "down"),
           \A j \in Jobs : Held(j)' <=> Held(j)
    PROVE  UNCHANGED LifeCycle!vars
<1>1. \A j \in Jobs : TaskOf(j)' = TaskOf(j) /\ VerdictOf(j)' = VerdictOf(j)
  BY DEF Reading
<1> QED
  BY <1>1 DEF LifeCycle!vars

\* RUNNING jobs go back to PENDING, and were waiting already.
LEMMA BootMaps ==
    ASSUME Reading, Reading', Inv, Inv', Boot
    PROVE  UNCHANGED LifeCycle!vars
<1>1. \A j \in Jobs : ~Held(j) /\ ~Held(j)'
  BY DEF Boot, workerVars, Held, Holds, Inv, DownIsEmpty, Started
<1>2. /\ phase = "down" /\ phase' = "resuming"
      /\ \A j \in Jobs : status'[j] = IF status[j] = "running" THEN "pending" ELSE status[j]
  BY DEF Boot
<1>3. \A j \in Jobs : TaskOf(j)' = TaskOf(j) /\ VerdictOf(j)' = VerdictOf(j)
  BY <1>1, <1>2 DEF Reading, Terminal
<1> QED
  BY <1>3 DEF LifeCycle!vars

LEMMA CrashMaps ==
    ASSUME Reading, Reading', Crash
    PROVE  LifeCycle!Restart
<1>1. \A j \in Jobs : ~Held(j)'
  BY DEF Crash, Held, Holds, Started
<1>2. phase # "down" /\ phase' = "down" /\ status' = status
  BY DEF Crash, dbVars
<1>3. \A j \in Jobs :
        /\ VerdictOf(j)' = VerdictOf(j)
        /\ TaskOf(j)' = IF TaskOf(j) \notin {"working", "lost"} THEN TaskOf(j)
                        ELSE IF VerdictOf(j) = "open" THEN "waiting" ELSE "over"
  BY <1>1, <1>2 DEF Reading, Terminal
<1> QED
  BY <1>3 DEF LifeCycle!Restart

LEMMA CommitMaps ==
    ASSUME Reading, Reading', Inv, NEW c \in Creators, CommitJobs(c)
    PROVE  LifeCycle!Next
<1> DEFINE S == {j \in Jobs : j \in (lastJob + 1)..(lastJob + Len(cbatch[c]))}
<1>1. \A j \in Jobs : Held(j)' <=> Held(j)
  BY DEF CommitJobs, workerVars, Held, Holds
<1>2. phase' = phase
  BY DEF CommitJobs, poolVars
<1>3. \A j \in Jobs : status'[j] = IF j \in S THEN "pending" ELSE status[j]
  BY DEF CommitJobs, Inv, TypeInv, TypeOK
<1>4. \A j \in S : status[j] = "none"
  <2>1. Len(cbatch[c]) \in Nat /\ lastJob \in Nat
    BY BoundsAssumption DEF Inv, TypeInv, TypeOK
  <2> QED
    BY <2>1, BoundsAssumption DEF Inv, Numbered, Jobs
<1>5. \A j \in S : ~Held(j) /\ TaskOf(j) = "new"
  BY <1>4 DEF Reading
<1>6. \A j \in Jobs :
        /\ TaskOf(j)' = IF j \in S THEN "waiting" ELSE TaskOf(j)
        /\ VerdictOf(j)' = VerdictOf(j)
  <2> HIDE DEF S
  <2> QED
    BY <1>1, <1>2, <1>3, <1>4, <1>5 DEF Reading, Terminal
<1>7. LifeCycle!Create(S)
  BY <1>5, <1>6 DEF LifeCycle!Create
<1> QED
  BY <1>7 DEF LifeCycle!Next

LEMMA CancelMaps ==
    ASSUME Reading, Reading', Inv, CancelKnown, NEW x \in Cancellers, CancelWrite(x)
    PROVE  LifeCycle!Next
<1> DEFINE c == xjob[x]
<1>1. c \in Jobs /\ status[c] # "none"
  BY DEF CancelWrite, CancelKnown
<1>2. /\ \A j \in Jobs : Held(j)' <=> Held(j)
      /\ phase' = phase
      /\ \A j \in Jobs : status'[j] = IF j = c THEN "cancelled" ELSE status[j]
  BY <1>1 DEF CancelWrite, workerVars, poolVars, Held, Holds, Inv, TypeInv, TypeOK
<1> HIDE DEF c
<1>3. TaskOf(c) # "new"
  BY <1>1 DEF Reading
<1>4. \A j \in Jobs :
        /\ VerdictOf(j)' = IF j = c THEN "cancelled" ELSE VerdictOf(j)
        /\ TaskOf(j)' = IF j = c THEN (IF TaskOf(c) = "working" THEN "working" ELSE "over")
                                 ELSE TaskOf(j)
  BY <1>1, <1>2 DEF Reading, Terminal
<1>5. LifeCycle!Cancel(c)
  BY <1>1, <1>3, <1>4 DEF LifeCycle!Cancel
<1> QED
  BY <1>1, <1>5 DEF LifeCycle!Next

LEMMA StartMaps ==
    ASSUME Reading, Reading', Inv, Inv', NEW w \in Workers, Start(w)
    PROVE  LifeCycle!Next \/ UNCHANGED LifeCycle!vars
<1> DEFINE c == wjob[w]
<1>1. c \in Jobs /\ wpc[w] = "start" /\ phase' = phase
  BY DEF Start, poolVars, Inv, TypeInv, WorkerShape
<1>2. CASE status[c] = "pending"
  <2>1. /\ \A j \in Jobs : status'[j] = IF j = c THEN "running" ELSE status[j]
        /\ wjob' = wjob /\ wpc' = [wpc EXCEPT ![w] = "setup"]
    BY <1>1, <1>2 DEF Start, Move, Inv, TypeInv, TypeOK
  <2>2. \A j \in Jobs : Held(j)' <=> Held(j) \/ j = c
    BY <1>1, <2>1 DEF Held, Holds, Started, Inv, TypeInv, TypeOK
  <2>3. ~Held(c) /\ TaskOf(c) = "waiting"
    BY <1>1, <1>2 DEF Reading
  <2> HIDE DEF c
  <2>4. \A j \in Jobs :
          /\ TaskOf(j)' = IF j = c THEN "working" ELSE TaskOf(j)
          /\ VerdictOf(j)' = VerdictOf(j)
    BY <1>1, <1>2, <2>1, <2>2 DEF Reading, Terminal
  <2>5. LifeCycle!Begin(c)
    BY <1>1, <2>3, <2>4 DEF LifeCycle!Begin
  <2> QED
    BY <1>1, <2>5 DEF LifeCycle!Next
<1>3. CASE status[c] # "pending"
  <2>1. Release(w) /\ status' = status
    BY <1>3 DEF Start
  <2>2. \A j \in Jobs : Held(j)' <=> Held(j)
    BY <1>1, <2>1 DEF Release, Held, Holds, Started, Inv, TypeInv, TypeOK
  <2> QED
    BY <1>1, <2>1, <2>2, MapsToStutter
<1> QED
  BY <1>2, <1>3

\* A thread that lets its job go was the only one that had it.
LEMMA ReleaseFrees ==
    ASSUME Inv, NEW w \in Workers, wpc[w] \in Started, Release(w)
    PROVE  \E c \in Jobs : /\ c = wjob[w] /\ Held(c)
                           /\ \A j \in Jobs : Held(j)' <=> Held(j) /\ j # c
<1>1. PICK c \in Jobs : c = wjob[w]
  BY DEF Inv, TypeInv, WorkerShape, Started
<1>2. Held(c)
  BY <1>1 DEF Held, Holds
<1>3. \A v \in Workers \ {w} : wpc[v] \in Started => wjob[v] # c
  BY <1>1 DEF Inv, RunnerInv, OneRunnerPerJob
<1>4. \A v \in Workers : /\ v = w => wpc'[v] \notin Started
                         /\ v # w => wpc'[v] = wpc[v] /\ wjob'[v] = wjob[v]
  BY DEF Release, Inv, TypeInv, TypeOK, Started
<1>5. ASSUME NEW j \in Jobs, Held(j)' PROVE Held(j) /\ j # c
  BY <1>3, <1>4, <1>5 DEF Held, Holds
<1>6. ASSUME NEW j \in Jobs, Held(j), j # c PROVE Held(j)'
  BY <1>1, <1>4, <1>6 DEF Held, Holds
<1> QED
  BY <1>1, <1>2, <1>5, <1>6

\* The guarded terminal write.
LEMMA FinishMaps ==
    ASSUME Reading, Reading', Inv, NEW w \in Workers, wpc[w] \in Started,
           NEW outcome \in {"completed", "failed"}, Finish(w, outcome)
    PROVE  LifeCycle!Next
<1>1. Release(w) /\ phase' = phase
  BY DEF Finish, poolVars
<1>2. PICK c \in Jobs : /\ c = wjob[w] /\ Held(c)
                       /\ \A j \in Jobs : Held(j)' <=> Held(j) /\ j # c
  BY <1>1, ReleaseFrees
<1>3. \A j \in Jobs : status'[j] = IF j = c /\ status[j] = "running" THEN outcome
                                                                    ELSE status[j]
  BY <1>2 DEF Finish, Inv, TypeInv, TypeOK
<1>4. TaskOf(c) = "working" /\ status[c] \in {"running", "cancelled"}
  BY <1>2 DEF Reading
<1>5. \A j \in Jobs :
        /\ TaskOf(j)' = IF j = c THEN "over" ELSE TaskOf(j)
        /\ j # c => VerdictOf(j)' = VerdictOf(j)
  BY <1>1, <1>2, <1>3, <1>4 DEF Reading, Terminal
<1>6. \/ VerdictOf(c) = "open" /\ VerdictOf(c)' = outcome
      \/ VerdictOf(c) = "cancelled" /\ VerdictOf(c)' = "cancelled"
  BY <1>2, <1>3, <1>4 DEF Reading, Terminal
<1>7. LifeCycle!End(c)
  BY <1>2, <1>4, <1>5, <1>6 DEF LifeCycle!End
<1> QED
  BY <1>2, <1>7 DEF LifeCycle!Next

\* The thread goes, and the row stays as it is: a cancelled job is over, a
\* RUNNING one is lost.
LEMMA GoneMaps ==
    ASSUME Reading, Reading', Inv, NEW w \in Workers, wpc[w] \in Started,
           Release(w), status' = status, phase' = phase
    PROVE  LifeCycle!Next
<1>1. PICK c \in Jobs : /\ c = wjob[w] /\ Held(c)
                       /\ \A j \in Jobs : Held(j)' <=> Held(j) /\ j # c
  BY ReleaseFrees
<1>2. /\ TaskOf(c) = "working" /\ status[c] \in {"running", "cancelled"}
      /\ phase # "down"
  BY <1>1 DEF Reading
<1>3. \A j \in Jobs :
        /\ TaskOf(j)' = IF j # c THEN TaskOf(j)
                        ELSE IF status[c] = "running" THEN "lost" ELSE "over"
        /\ VerdictOf(j)' = VerdictOf(j)
  BY <1>1, <1>2 DEF Reading, Terminal
<1>4. CASE status[c] = "running"
  <2>1. LifeCycle!Lose(c)
    BY <1>1, <1>2, <1>3, <1>4 DEF LifeCycle!Lose, Reading, Terminal
  <2> QED
    BY <1>1, <2>1 DEF LifeCycle!Next
<1>5. CASE status[c] = "cancelled"
  <2>1. LifeCycle!End(c)
    BY <1>1, <1>2, <1>3, <1>5 DEF LifeCycle!End, Reading, Terminal
  <2> QED
    BY <1>1, <2>1 DEF LifeCycle!Next
<1> QED
  BY <1>2, <1>4, <1>5

-----------------------------------------------------------------------------
LEMMA MapsStep ==
    Inv /\ Inv' /\ CancelKnown /\ [Next]_vars => [LifeCycle!Next]_(LifeCycle!vars)
<1> SUFFICES ASSUME Inv, Inv', CancelKnown, [Next]_vars
             PROVE  LifeCycle!Next \/ UNCHANGED LifeCycle!vars
  OBVIOUS
<1> USE ReadingCorrect, ReadingNext
<1>1. CASE Boot
  BY <1>1, BootMaps
<1>2. CASE Crash
  BY <1>2, CrashMaps DEF LifeCycle!Next
<1>3. ASSUME NEW c \in Creators, CommitJobs(c) PROVE LifeCycle!Next
  BY <1>3, CommitMaps
<1>4. ASSUME NEW x \in Cancellers, CancelWrite(x) PROVE LifeCycle!Next
  BY <1>4, CancelMaps
<1>5. ASSUME NEW w \in Workers, Start(w)
      PROVE  LifeCycle!Next \/ UNCHANGED LifeCycle!vars
  BY <1>5, StartMaps
<1>6. ASSUME NEW w \in Workers, Complete(w) \/ Fail(w) PROVE LifeCycle!Next
  <2>1. PICK outcome \in {"completed", "failed"} : Finish(w, outcome)
    BY <1>6 DEF Complete, Fail
  <2>2. wpc[w] \in Started
    BY <1>6 DEF Complete, Fail, Started
  <2> QED
    BY <2>1, <2>2, FinishMaps
<1>7. ASSUME NEW w \in Workers,
             CompleteLost(w) \/ FailLost(w) \/ Stop(w) \/ StopLost(w) \/ RefreshLost(w)
      PROVE  LifeCycle!Next
  <2>1. wpc[w] \in Started
    BY <1>7 DEF CompleteLost, FailLost, Stop, StopLost, RefreshLost, Started
  <2>2. Release(w) /\ status' = status /\ phase' = phase
    BY <1>7 DEF CompleteLost, FailLost, Stop, StopLost, RefreshLost, dbVars, poolVars
  <2> QED
    BY <2>1, <2>2, GoneMaps
<1>8. ASSUME status' = status, (phase' = "down") <=> (phase = "down"), NEW w \in Workers,
             \A v \in Workers \ {w} : wpc'[v] = wpc[v] /\ wjob'[v] = wjob[v],
             wpc'[w] \in Started <=> wpc[w] \in Started,
             wpc[w] \in Started => wjob'[w] = wjob[w]
      PROVE  UNCHANGED LifeCycle!vars
  <2>1. \A j \in Jobs : Held(j)' <=> Held(j)
    BY <1>8 DEF Held, Holds
  <2> QED
    BY <1>8, <2>1, MapsToStutter
<1>9. ASSUME NEW w \in Workers,
             Take(w) \/ Setup(w) \/ NextItem(w) \/ FinishItem(w) \/ RunFails(w)
      PROVE  UNCHANGED LifeCycle!vars
  <2>1. status' = status /\ phase' = phase
    BY <1>9 DEF Take, Setup, NextItem, FinishItem, RunFails, dbVars, poolVars
  <2>2. /\ \A v \in Workers \ {w} : wpc'[v] = wpc[v] /\ wjob'[v] = wjob[v]
        /\ wpc'[w] \in Started <=> wpc[w] \in Started
        /\ wpc[w] \in Started => wjob'[w] = wjob[w]
    BY <1>9 DEF Take, Setup, NextItem, FinishItem, RunFails, Move, Started,
                Inv, TypeInv, TypeOK
  <2> QED
    BY <1>8, <2>1, <2>2
<1>10. ASSUME NEW w \in Workers, StartFault(w) PROVE UNCHANGED LifeCycle!vars
  <2>1. status' = status /\ phase' = phase
    BY <1>10 DEF StartFault, dbVars, poolVars
  <2>2. /\ \A v \in Workers \ {w} : wpc'[v] = wpc[v] /\ wjob'[v] = wjob[v]
        /\ wpc'[w] \notin Started /\ wpc[w] \notin Started
    BY <1>10 DEF StartFault, Release, Started, Inv, TypeInv, TypeOK
  <2> QED
    BY <1>8, <2>1, <2>2
<1>11. ASSUME status' = status, (phase' = "down") <=> (phase = "down"),
              UNCHANGED <<wpc, wjob>>
       PROVE  UNCHANGED LifeCycle!vars
  <2>1. \A j \in Jobs : Held(j)' <=> Held(j)
    BY <1>11 DEF Held, Holds
  <2> QED
    BY <1>11, <2>1, MapsToStutter
<1>12. ASSUME NEW c \in Creators,
              Request(c) \/ Check(c) \/ Submit(c) \/ Respond(c) \/ RequestFails(c)
       PROVE  UNCHANGED LifeCycle!vars
  <2>1. status' = status /\ phase' = phase /\ UNCHANGED <<wpc, wjob>>
    BY <1>12 DEF Request, Check, Submit, Respond, RequestFails, EndRequest,
                 dbVars, poolVars, workerVars
  <2> QED
    BY <1>11, <2>1
<1>13. ASSUME \/ Serve \/ Quiet \/ UNCHANGED vars
              \/ \E j \in Jobs : ResumeSubmit(j)
              \/ \E x \in Cancellers : CancelFails(x) \/ \E j \in Jobs : CancelRead(x, j)
              \/ \E m \in Mappings : DeleteMapping(m)
       PROVE  UNCHANGED LifeCycle!vars
  <2>1. status' = status /\ ((phase' = "down") <=> (phase = "down"))
          /\ UNCHANGED <<wpc, wjob>>
    BY <1>13 DEF Serve, Quiet, vars, ResumeSubmit, CancelFails, CancelRead,
                 DeleteMapping, dbVars, poolVars, workerVars
  <2> QED
    BY <1>11, <2>1
<1> QED
  BY <1>1, <1>2, <1>3, <1>4, <1>5, <1>6, <1>7, <1>9, <1>10, <1>12, <1>13
     DEF Next, Container, Create, Run, RunDisturbed

\* The job table, the queue, the threads and the restarts implement the life
\* cycle: each job is worked on by one thread at a time, only while it is
\* wanted, and its end is decided once.
THEOREM MachineryImplementsLifeCycle == Spec => ImplementsLifeCycle
<1>1. TypeInv /\ CancelKnown /\ [Next]_vars => CancelKnown'
  BY CancelKnownStep
<1>2. Spec => [](Inv /\ CancelKnown)
  BY <1>1, RunnerCorrect, CancelKnownInit, PTL DEF Spec, Inv
<1>3. Inv /\ CancelKnown /\ (Inv /\ CancelKnown)' /\ [Next]_vars
        => [LifeCycle!Next]_(LifeCycle!vars)
  BY MapsStep
<1> QED
  BY <1>2, <1>3, MapsInit, PTL DEF Spec, ImplementsLifeCycle, LifeCycle!Spec
=============================================================================
