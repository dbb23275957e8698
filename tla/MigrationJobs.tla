---------------------------- MODULE MigrationJobs ----------------------------
(***************************************************************************)
(* The life cycle of migration jobs: the job table in SQLite, the HTTP     *)
(* handlers that create and cancel jobs, the thread pool that runs them,   *)
(* and the container restarting.                                           *)
(*                                                                         *)
(* A job's work is abstracted to a number of items; what happens to one    *)
(* item is the subject of module MailboxImport.  What is kept here is      *)
(* every write to migration_job.status, the read each of them was decided  *)
(* on, and the points where another thread, a failed commit or a crash can *)
(* come in between.                                                        *)
(***************************************************************************)
EXTENDS Naturals, Sequences, FiniteSets, Functions

CONSTANTS
    Mappings,     \* rows of mailbox_mapping, by id
    NoMapping,    \* mapping_id of a job that does not exist yet
    Workers,      \* threads of the ThreadPoolExecutor (CONCURRENCY of them)
    Creators,     \* request threads that run POST /jobs and the resync routes
    Cancellers,   \* request threads that run POST /jobs/{id}/cancel
    MaxJobs,      \* bound: job ids; a request comes while there are ids for it
    MaxRequests,  \* bound: creating requests in a behaviour
    MaxSelect,    \* bound: mappings selected in one request
    MaxItems,     \* bound: items one run of a job processes
    MaxCrashes,   \* bound: crashes of the container
    MaxDbFaults,  \* bound: commits that raise ("database is locked", I/O)
    MaxDeletes,   \* bound: mappings deleted
    MaxCancels    \* bound: jobs there are cancelled when a cancel request reads

ASSUME MappingAssumption == NoMapping \notin Mappings

ASSUME BoundsAssumption ==
    /\ MaxJobs \in Nat /\ MaxRequests \in Nat /\ MaxSelect \in Nat
    /\ MaxItems \in Nat /\ MaxCrashes \in Nat /\ MaxDbFaults \in Nat
    /\ MaxDeletes \in Nat /\ MaxCancels \in Nat

\* The server runs its handlers in a thread pool of a fixed size.
ASSUME CreatorsAssumption == IsFiniteSet(Creators)

VARIABLES
    \* Persisted in SQLite.
    status,     \* migration_job.status, "none" before the row exists
    mappingOf,  \* migration_job.mapping_id
    dryRun,     \* migration_job.dry_run
    finished,   \* migration_job.finished_at is set
    lastJob,    \* highest job id handed out
    present,    \* ids with a mailbox_mapping row
    synced,     \* the job whose started_at is mailbox_mapping.last_synced_at
    \* Lost in a crash.
    phase,      \* "down", "resuming" (FastAPI startup hook), "up"
    toResume,   \* ids resume_incomplete_jobs has still to submit
    queue,      \* the pool's FIFO work queue
    wpc,        \* worker: where it is in MigrationJobRunner.run
    wjob,       \* worker: the job_id it runs
    wleft,      \* worker: items it has still to process
    creq,       \* creator: kind of the request it serves, "none" when idle
    ctodo,      \* creator: mapping ids it has still to check
    cbatch,     \* creator: mapping ids whose job is added but not committed
    cmade,      \* creator: committed jobs it has still to submit
    xjob,       \* canceller: the job it read as active and is about to write
    \* History, kept for the properties only.
    overtaken,  \* creator: mappings in cbatch for which another creator has
                \* committed a job since they were checked
    raced,      \* jobs committed for a mapping that was overtaken
    \* Bounds.
    requests, crashes, dbFaults

dbVars     == <<status, mappingOf, dryRun, finished, lastJob, present, synced>>
poolVars   == <<phase, toResume, queue>>
workerVars == <<wpc, wjob, wleft>>
createVars == <<creq, ctodo, cbatch, cmade, overtaken, raced>>
boundVars  == <<requests, crashes, dbFaults>>
vars == <<dbVars, poolVars, workerVars, createVars, xjob, boundVars>>

Jobs     == 1..MaxJobs
NoJob    == 0
Active   == {"pending", "running"}
Terminal == {"completed", "failed", "cancelled"}
Started  == {"setup", "loop", "item", "failing", "stopping"}

\* Mapping ids in the order a request names them.
Selections == UNION {[1..n -> Mappings] : n \in 1..MaxSelect}

\* Mutant: a job that has begun no longer counts as active.
HasPendingJob(m) == \E j \in Jobs : mappingOf[j] = m /\ status[j] = "pending"

HasActiveJob(m) == \E j \in Jobs : mappingOf[j] = m /\ status[j] \in Active

DbFault == dbFaults < MaxDbFaults /\ dbFaults' = dbFaults + 1

-----------------------------------------------------------------------------
(* The container: startup, serving, crash.                                 *)

Init ==
    /\ status = [j \in Jobs |-> "none"]
    /\ mappingOf = [j \in Jobs |-> NoMapping]
    /\ dryRun = [j \in Jobs |-> FALSE]
    /\ finished = [j \in Jobs |-> FALSE]
    /\ lastJob = 0
    /\ present = Mappings
    /\ synced = [m \in Mappings |-> NoJob]
    /\ phase = "down"
    /\ toResume = {}
    /\ queue = << >>
    /\ wpc = [w \in Workers |-> "idle"]
    /\ wjob = [w \in Workers |-> NoJob]
    /\ wleft = [w \in Workers |-> 0]
    /\ creq = [c \in Creators |-> "none"]
    /\ ctodo = [c \in Creators |-> << >>]
    /\ cbatch = [c \in Creators |-> << >>]
    /\ cmade = [c \in Creators |-> << >>]
    /\ xjob = [x \in Cancellers |-> NoJob]
    /\ overtaken = [c \in Creators |-> {}]
    /\ raced = {}
    /\ requests = 0 /\ crashes = 0 /\ dbFaults = 0

\* Mutant: resubmits what is PENDING and forgets what was RUNNING.
BootPendingOnly ==
    /\ phase = "down"
    /\ toResume' = {j \in Jobs : status[j] = "pending"}
    /\ phase' = "resuming"
    /\ UNCHANGED <<dbVars, queue, workerVars, createVars, xjob, boundVars>>

\* Mutant: resubmits what was RUNNING and forgets what is PENDING.
BootRunningOnly ==
    /\ phase = "down"
    /\ status' = [j \in Jobs |-> IF status[j] = "running" THEN "pending" ELSE status[j]]
    /\ toResume' = {j \in Jobs : status[j] = "running"}
    /\ phase' = "resuming"
    /\ UNCHANGED <<mappingOf, dryRun, finished, lastJob, present, synced,
                   queue, workerVars, createVars, xjob, boundVars>>

\* Mutant: the resume also runs in a container that is already serving.
BootWhileUp ==
    /\ phase # "resuming"
    /\ status' = [j \in Jobs |-> IF status[j] = "running" THEN "pending" ELSE status[j]]
    /\ toResume' = {j \in Jobs : status[j] \in Active}
    /\ phase' = "resuming"
    /\ UNCHANGED <<mappingOf, dryRun, finished, lastJob, present, synced,
                   queue, workerVars, createVars, xjob, boundVars>>

\* The lifespan hook: jobs left RUNNING by the last process go back to
\* PENDING, and every PENDING job is noted for submission.
Boot ==
    /\ phase = "down"
    /\ status' = [j \in Jobs |-> IF status[j] = "running" THEN "pending"
                                                          ELSE status[j]]
    /\ toResume' = {j \in Jobs : status[j] \in Active}
    /\ phase' = "resuming"
    /\ UNCHANGED <<mappingOf, dryRun, finished, lastJob, present, synced,
                   queue, workerVars, createVars, xjob, boundVars>>

\* The pool already runs jobs while the hook submits the rest of the set.
ResumeSubmit(j) ==
    /\ phase = "resuming" /\ j \in toResume
    /\ toResume' = toResume \ {j}
    /\ queue' = Append(queue, j)
    /\ UNCHANGED <<dbVars, phase, workerVars, createVars, xjob, boundVars>>

Serve ==
    /\ phase = "resuming" /\ toResume = {}
    /\ phase' = "up"
    /\ UNCHANGED <<dbVars, toResume, queue, workerVars, createVars, xjob, boundVars>>

\* Everything but the database is gone; docker restarts the container.
Crash ==
    /\ phase # "down" /\ crashes < MaxCrashes
    /\ crashes' = crashes + 1
    /\ phase' = "down"
    /\ toResume' = {}
    /\ queue' = << >>
    /\ wpc' = [w \in Workers |-> "idle"]
    /\ wjob' = [w \in Workers |-> NoJob]
    /\ wleft' = [w \in Workers |-> 0]
    /\ creq' = [c \in Creators |-> "none"]
    /\ ctodo' = [c \in Creators |-> << >>]
    /\ cbatch' = [c \in Creators |-> << >>]
    /\ cmade' = [c \in Creators |-> << >>]
    /\ xjob' = [x \in Cancellers |-> NoJob]
    /\ overtaken' = [c \in Creators |-> {}]
    /\ UNCHANGED <<dbVars, raced, requests, dbFaults>>

-----------------------------------------------------------------------------
(* Requests that create jobs.                                              *)

\* POST /jobs ("initial", "dry"), POST /mappings/{id}/resync ("resync") and
\* POST /mappings/resync-all ("resyncAll", which lists the mappings itself).
Request(c) ==
    /\ phase = "up" /\ creq[c] = "none" /\ requests < MaxRequests
    /\ \E kind \in {"initial", "dry", "resync", "resyncAll"}, ids \in Selections :
         /\ lastJob + Len(ids) <= MaxJobs
         /\ kind = "resync" => Len(ids) = 1
         /\ kind = "resyncAll" =>
              IsInjective(ids) /\ Range(ids) = {m \in present : synced[m] # NoJob}
         /\ creq' = [creq EXCEPT ![c] = kind]
         /\ ctodo' = [ctodo EXCEPT ![c] = ids]
    /\ requests' = requests + 1
    /\ UNCHANGED <<dbVars, poolVars, workerVars, cbatch, cmade, overtaken, raced, xjob,
                   crashes, dbFaults>>

\* POST /jobs commits once, after its loop; a resync commits job by job.
CommitDue(c) ==
    /\ cbatch[c] # << >>
    /\ creq[c] \in {"resync", "resyncAll"} \/ ctodo[c] = << >>

\* After its first commit resync-all reloads each mapping it turns to, which
\* raises when the row is gone.
MappingLost(c) ==
    /\ creq[c] = "resyncAll" /\ ctodo[c] # << >> /\ cmade[c] # << >>
    /\ Head(ctodo[c]) \notin present

\* Mutant: without the set of ids already seen in this request.
EligibleUnseen(c, m) ==
    /\ ~HasActiveJob(m)
    /\ creq[c] = "resync" => m \in present /\ synced[m] # NoJob

Eligible(c, m) ==
    /\ m \notin Range(cbatch[c])
    /\ ~HasActiveJob(m)
    /\ creq[c] = "resync" => m \in present /\ synced[m] # NoJob

Check(c) ==
    /\ ctodo[c] # << >> /\ ~CommitDue(c) /\ ~MappingLost(c)
    /\ ctodo' = [ctodo EXCEPT ![c] = Tail(@)]
    /\ cbatch' = IF Eligible(c, Head(ctodo[c]))
                 THEN [cbatch EXCEPT ![c] = Append(@, Head(ctodo[c]))]
                 ELSE cbatch
    /\ UNCHANGED <<dbVars, poolVars, workerVars, creq, cmade, overtaken, raced, xjob,
                   boundVars>>

\* The insert does not look again for jobs another request has committed.
CommitJobs(c) ==
    LET n   == Len(cbatch[c])
        new == lastJob + 1 .. lastJob + n IN
    /\ CommitDue(c) /\ lastJob + n <= MaxJobs
    /\ lastJob' = lastJob + n
    /\ status' = [j \in Jobs |-> IF j \in new THEN "pending" ELSE status[j]]
    /\ mappingOf' = [j \in Jobs |-> IF j \in new THEN cbatch[c][j - lastJob]
                                                 ELSE mappingOf[j]]
    /\ dryRun' = [j \in Jobs |-> IF j \in new THEN creq[c] = "dry" ELSE dryRun[j]]
    /\ cmade' = [cmade EXCEPT ![c] = @ \o [i \in 1..n |-> lastJob + i]]
    /\ cbatch' = [cbatch EXCEPT ![c] = << >>]
    /\ raced' = raced \cup {j \in new : cbatch[c][j - lastJob] \in overtaken[c]}
    /\ overtaken' = [d \in Creators |->
                       IF d = c THEN {}
                       ELSE overtaken[d] \cup (Range(cbatch[c]) \cap Range(cbatch[d]))]
    /\ UNCHANGED <<finished, present, synced, poolVars, workerVars, creq, ctodo,
                   xjob, boundVars>>

\* Jobs are handed to the pool only after the last of them is committed.
Submit(c) ==
    /\ ctodo[c] = << >> /\ cbatch[c] = << >> /\ cmade[c] # << >>
    /\ queue' = Append(queue, Head(cmade[c]))
    /\ cmade' = [cmade EXCEPT ![c] = Tail(@)]
    /\ UNCHANGED <<dbVars, phase, toResume, workerVars, creq, ctodo, cbatch, overtaken,
                   raced, xjob, boundVars>>

EndRequest(c) ==
    /\ creq' = [creq EXCEPT ![c] = "none"]
    /\ ctodo' = [ctodo EXCEPT ![c] = << >>]
    /\ cbatch' = [cbatch EXCEPT ![c] = << >>]
    /\ cmade' = [cmade EXCEPT ![c] = << >>]
    /\ overtaken' = [overtaken EXCEPT ![c] = {}]
    /\ UNCHANGED <<dbVars, poolVars, workerVars, raced, xjob, requests, crashes>>

Respond(c) ==
    /\ creq[c] # "none"
    /\ ctodo[c] = << >> /\ cbatch[c] = << >> /\ cmade[c] = << >>
    /\ EndRequest(c) /\ UNCHANGED dbFaults

\* The handler raises: jobs it committed but did not submit stay behind.
RequestFails(c) ==
    /\ creq[c] # "none"
    /\ \/ MappingLost(c) /\ UNCHANGED dbFaults
       \/ DbFault
    /\ EndRequest(c)

-----------------------------------------------------------------------------
(* Requests that cancel a job or delete a mapping.                         *)

CancelRead(x, j) ==
    /\ phase = "up" /\ xjob[x] = NoJob
    /\ status[j] \in Active
    /\ Cardinality({i \in Jobs : status[i] = "cancelled"}) < MaxCancels
    /\ xjob' = [xjob EXCEPT ![x] = j]
    /\ UNCHANGED <<dbVars, poolVars, workerVars, createVars, boundVars>>

\* The write goes by primary key: it does not look at the status again.
CancelWrite(x) ==
    /\ xjob[x] # NoJob
    /\ status' = [status EXCEPT ![xjob[x]] = "cancelled"]
    /\ xjob' = [xjob EXCEPT ![x] = NoJob]
    /\ UNCHANGED <<mappingOf, dryRun, finished, lastJob, present, synced,
                   poolVars, workerVars, createVars, boundVars>>

CancelFails(x) ==
    /\ xjob[x] # NoJob /\ DbFault
    /\ xjob' = [xjob EXCEPT ![x] = NoJob]
    /\ UNCHANGED <<dbVars, poolVars, workerVars, createVars, requests, crashes>>

\* No check for jobs of the mapping, and SQLite does not enforce the key.
DeleteMapping(m) ==
    /\ phase = "up" /\ m \in present
    /\ Cardinality(Mappings \ present) < MaxDeletes
    /\ present' = present \ {m}
    /\ UNCHANGED <<status, mappingOf, dryRun, finished, lastJob, synced,
                   poolVars, workerVars, createVars, xjob, boundVars>>

-----------------------------------------------------------------------------
(* A pool thread in MigrationJobRunner.run.                                *)

Move(w, to) == wpc' = [wpc EXCEPT ![w] = to]

\* run returned or raised; _run_safely swallows the exception.
Release(w) ==
    /\ wpc' = [wpc EXCEPT ![w] = "idle"]
    /\ wjob' = [wjob EXCEPT ![w] = NoJob]
    /\ wleft' = [wleft EXCEPT ![w] = 0]

Take(w) ==
    /\ wpc[w] = "idle" /\ queue # << >>
    /\ queue' = Tail(queue)
    /\ wjob' = [wjob EXCEPT ![w] = Head(queue)]
    /\ Move(w, "start")
    /\ UNCHANGED <<dbVars, phase, toResume, wleft, createVars, xjob, boundVars>>

\* Mutant: the UPDATE without its guard.
StartUnguarded(w) ==
    /\ wpc[w] = "start"
    /\ status' = [status EXCEPT ![wjob[w]] = "running"]
    /\ Move(w, "setup")
    /\ UNCHANGED <<mappingOf, dryRun, finished, lastJob, present, synced,
                   poolVars, wjob, wleft, createVars, xjob, boundVars>>

\* The guarded UPDATE: only a PENDING job is started.
Start(w) ==
    LET j == wjob[w] IN
    /\ wpc[w] = "start"
    /\ IF status[j] = "pending"
       THEN /\ status' = [status EXCEPT ![j] = "running"]
            /\ Move(w, "setup")
            /\ UNCHANGED <<wjob, wleft>>
       ELSE Release(w) /\ UNCHANGED status
    /\ UNCHANGED <<mappingOf, dryRun, finished, lastJob, present, synced,
                   poolVars, createVars, xjob, boundVars>>

\* The start commit is outside the inner try: nothing marks the job FAILED.
StartFault(w) ==
    /\ wpc[w] = "start" /\ DbFault
    /\ Release(w)
    /\ UNCHANGED <<dbVars, poolVars, createVars, xjob, requests, crashes>>

\* The read back of the row it has just started is outside it as well: the
\* job is RUNNING, and no thread has it.
RefreshLost(w) ==
    /\ wpc[w] = "setup" /\ DbFault
    /\ Release(w)
    /\ UNCHANGED <<dbVars, poolVars, createVars, xjob, requests, crashes>>

\* Without its mailbox_mapping row a job fails on the first use of it.
Setup(w) ==
    /\ wpc[w] = "setup"
    /\ \E n \in 0..MaxItems : wleft' = [wleft EXCEPT ![w] = n]
    /\ Move(w, IF mappingOf[wjob[w]] \in present THEN "loop" ELSE "failing")
    /\ UNCHANGED <<dbVars, poolVars, wjob, createVars, xjob, boundVars>>

\* Anything run itself does not survive: no tenant, a failed login or
\* listing, a mapping deleted meanwhile, a raising close().
RunFails(w) ==
    /\ wpc[w] \in {"setup", "loop", "item", "stopping"}
    /\ Move(w, "failing")
    /\ UNCHANGED <<dbVars, poolVars, wjob, wleft, createVars, xjob, boundVars>>

\* Mutant: one item too many.
NextItemPastEnd(w) ==
    /\ wpc[w] = "loop"
    /\ Move(w, IF status[wjob[w]] = "cancelled" THEN "stopping" ELSE "item")
    /\ UNCHANGED <<dbVars, poolVars, wjob, wleft, createVars, xjob, boundVars>>

\* Mutant: a cancelled run waits where it is instead of raising.
NextItemWaits(w) ==
    /\ wpc[w] = "loop" /\ wleft[w] > 0 /\ status[wjob[w]] # "cancelled"
    /\ Move(w, "item")
    /\ UNCHANGED <<dbVars, poolVars, wjob, wleft, createVars, xjob, boundVars>>

\* The check for a cancellation comes before every item, and only there.
NextItem(w) ==
    /\ wpc[w] = "loop" /\ wleft[w] > 0
    /\ Move(w, IF status[wjob[w]] = "cancelled" THEN "stopping" ELSE "item")
    /\ UNCHANGED <<dbVars, poolVars, wjob, wleft, createVars, xjob, boundVars>>

FinishItem(w) ==
    /\ wpc[w] = "item"
    /\ wleft' = [wleft EXCEPT ![w] = @ - 1]
    /\ Move(w, "loop")
    /\ UNCHANGED <<dbVars, poolVars, wjob, createVars, xjob, boundVars>>

\* The last commit of run: the guarded terminal write and finished_at.
Finish(w, outcome) ==
    LET j == wjob[w] IN
    /\ status' = [status EXCEPT ![j] = IF @ = "running" THEN outcome ELSE @]
    /\ finished' = [finished EXCEPT ![j] = TRUE]
    /\ Release(w)
    /\ UNCHANGED <<mappingOf, dryRun, lastJob, present, poolVars, createVars,
                   xjob, boundVars>>

\* The watermark is assigned whatever the guarded UPDATE then finds.
Complete(w) ==
    LET j == wjob[w]
        m == mappingOf[j] IN
    /\ wpc[w] = "loop" /\ wleft[w] = 0
    /\ dryRun[j] \/ m \in present
    /\ synced' = IF dryRun[j] THEN synced ELSE [synced EXCEPT ![m] = j]
    /\ Finish(w, "completed")

\* The commit in run's finally raises and takes the COMPLETED write with it:
\* the UPDATE of a deleted mapping matches no row, or SQLite fails.
CompleteLost(w) ==
    LET j == wjob[w] IN
    /\ wpc[w] = "loop" /\ wleft[w] = 0
    /\ \/ ~dryRun[j] /\ mappingOf[j] \notin present /\ UNCHANGED dbFaults
       \/ DbFault
    /\ Release(w)
    /\ UNCHANGED <<dbVars, poolVars, createVars, xjob, requests, crashes>>

\* Mutant: only finished_at is written, the exception is left to the log.
FailUnrecorded(w) ==
    LET j == wjob[w] IN
    /\ wpc[w] = "failing"
    /\ finished' = [finished EXCEPT ![j] = TRUE]
    /\ Release(w)
    /\ UNCHANGED <<status, mappingOf, dryRun, lastJob, present, synced, poolVars,
                   createVars, xjob, boundVars>>

\* Mutant: the watermark assignment in the finally clause.
FailSynced(w) ==
    /\ wpc[w] = "failing"
    /\ synced' = [synced EXCEPT ![mappingOf[wjob[w]]] = wjob[w]]
    /\ Finish(w, "failed")

Fail(w) ==
    /\ wpc[w] = "failing"
    /\ UNCHANGED synced
    /\ Finish(w, "failed")

\* Either the FAILED write raises, and finished_at is still committed, or
\* the commit raises and nothing is.
FailLost(w) ==
    LET j == wjob[w] IN
    /\ wpc[w] = "failing" /\ DbFault
    /\ \E persisted \in {TRUE, finished[j]} : finished' = [finished EXCEPT ![j] = persisted]
    /\ Release(w)
    /\ UNCHANGED <<status, mappingOf, dryRun, lastJob, present, synced, poolVars,
                   createVars, xjob, requests, crashes>>

\* JobCancelledError: the status is left alone.
Stop(w) ==
    LET j == wjob[w] IN
    /\ wpc[w] = "stopping"
    /\ finished' = [finished EXCEPT ![j] = TRUE]
    /\ Release(w)
    /\ UNCHANGED <<status, mappingOf, dryRun, lastJob, present, synced, poolVars,
                   createVars, xjob, boundVars>>

StopLost(w) ==
    /\ wpc[w] = "stopping" /\ DbFault
    /\ Release(w)
    /\ UNCHANGED <<dbVars, poolVars, createVars, xjob, requests, crashes>>

-----------------------------------------------------------------------------
Container == Boot \/ Serve \/ \E j \in Jobs : ResumeSubmit(j)

Create(c) == Check(c) \/ CommitJobs(c) \/ Submit(c) \/ Respond(c)

Run(w) ==
    \/ Take(w) \/ Start(w) \/ Setup(w) \/ NextItem(w) \/ FinishItem(w)
    \/ Complete(w) \/ Fail(w) \/ Stop(w)

\* What the environment may do to a run, at any time.
RunDisturbed(w) ==
    \/ RunFails(w) \/ StartFault(w) \/ RefreshLost(w)
    \/ CompleteLost(w) \/ FailLost(w) \/ StopLost(w)

\* Nothing to do until the next request; a state that is stuck short of
\* this one is a deadlock.
Quiet ==
    /\ phase = "up" /\ queue = << >>
    /\ \A w \in Workers : wpc[w] = "idle"
    /\ \A c \in Creators : creq[c] = "none"
    /\ UNCHANGED vars

Next ==
    \/ Container \/ Crash \/ Quiet
    \/ \E c \in Creators : Request(c) \/ Create(c) \/ RequestFails(c)
    \/ \E x \in Cancellers :
         CancelWrite(x) \/ CancelFails(x) \/ \E j \in Jobs : CancelRead(x, j)
    \/ \E m \in Mappings : DeleteMapping(m)
    \/ \E w \in Workers : Run(w) \/ RunDisturbed(w)

\* Threads that can run do run, to the point where the code raises if there
\* is no other; nothing is promised about users, about failures of other
\* systems, or about the container staying up.
Fairness ==
    /\ WF_vars(Container)
    /\ \A c \in Creators : WF_vars(Create(c) \/ RequestFails(c))
    /\ \A x \in Cancellers : WF_vars(CancelWrite(x))
    /\ \A w \in Workers : WF_vars(Run(w) \/ CompleteLost(w))

Spec == Init /\ [][Next]_vars

FairSpec == Spec /\ Fairness

-----------------------------------------------------------------------------
(* Properties.                                                             *)

Holds(w, j) == wpc[w] \in Started /\ wjob[w] = j

\* Every variable has its type.
TypeOK ==
    /\ status \in [Jobs -> {"none"} \cup Active \cup Terminal]
    /\ mappingOf \in [Jobs -> Mappings \cup {NoMapping}]
    /\ dryRun \in [Jobs -> BOOLEAN]
    /\ finished \in [Jobs -> BOOLEAN]
    /\ lastJob \in 0..MaxJobs
    /\ present \in SUBSET Mappings
    /\ synced \in [Mappings -> Jobs \cup {NoJob}]
    /\ phase \in {"down", "resuming", "up"}
    /\ toResume \in SUBSET Jobs
    /\ queue \in Seq(Jobs)
    /\ wpc \in [Workers -> {"idle", "start"} \cup Started]
    /\ wjob \in [Workers -> Jobs \cup {NoJob}]
    /\ wleft \in [Workers -> 0..MaxItems]
    /\ creq \in [Creators -> {"none", "initial", "dry", "resync", "resyncAll"}]
    /\ ctodo \in [Creators -> Seq(Mappings)]
    /\ cbatch \in [Creators -> Seq(Mappings)]
    /\ cmade \in [Creators -> Seq(Jobs)]
    /\ xjob \in [Cancellers -> Jobs \cup {NoJob}]
    /\ overtaken \in [Creators -> SUBSET Mappings]
    /\ raced \in SUBSET Jobs
    /\ requests \in Nat /\ crashes \in Nat /\ dbFaults \in Nat

\* Two pool threads never run the same job: a restart returns a job to
\* PENDING only when the thread that ran it is gone, and no path submits a
\* job a second time that a thread has already started.
OneRunnerPerJob ==
    \A v, w \in Workers :
        wpc[v] \in Started /\ wpc[w] \in Started /\ wjob[v] = wjob[w] => v = w

\* A cancellation is never undone: not by the terminal write of a run that
\* was already finishing, not by a start from the queue, not by a restart.
CancelledIsFinal ==
    [][\A j \in Jobs : status[j] = "cancelled" => status'[j] = "cancelled"]_vars

\* While the container is up a RUNNING job has a thread that runs it, unless
\* a commit failed or the job's mapping was deleted.
RunningIsOwned ==
    \A j \in Jobs :
        /\ status[j] = "running" /\ phase # "down"
        /\ dbFaults = 0 /\ mappingOf[j] \in present
        => \E w \in Workers : Holds(w, j)

\* While the container is up a PENDING job is on its way to a thread, unless
\* a commit failed or a mapping was deleted: it is still to be resumed or
\* submitted, queued, or taken by a thread that has not started it.
PendingIsDispatched ==
    \A j \in Jobs :
        status[j] = "pending" /\ phase # "down" /\ dbFaults = 0 /\ present = Mappings =>
            \/ j \in toResume \cup Range(queue)
            \/ \E c \in Creators : j \in Range(cmade[c])
            \/ \E w \in Workers : wpc[w] = "start" /\ wjob[w] = j

\* Without a failed commit, finished_at is set on settled jobs only, and the
\* thread that set it is done with the job.
FinishedIsSettled ==
    \A j \in Jobs :
        finished[j] /\ dbFaults = 0 =>
            status[j] \in Terminal /\ \A w \in Workers : ~Holds(w, j)

\* The watermark of a mapping is the start of a real run of that mapping
\* that got to its end; a run that failed or crashed never moves it, and no
\* failed commit separates it from the terminal write.
SyncedByWholeRun ==
    \A m \in Mappings :
        synced[m] # NoJob =>
            /\ mappingOf[synced[m]] = m /\ ~dryRun[synced[m]]
            /\ finished[synced[m]]
            /\ status[synced[m]] \in {"completed", "cancelled"}

\* has_active_job_for_mapping keeps a mapping from having two active jobs,
\* whatever is selected twice in a request, cancelled, deleted, lost or
\* restarted.  The one way past it: the later job was inserted by a request
\* that had made its check before another request committed a job of that
\* mapping.
OneActiveUnlessRaced ==
    \A i, j \in Jobs :
        /\ i < j /\ mappingOf[i] = mappingOf[j]
        /\ status[i] \in Active /\ status[j] \in Active
        => j \in raced

\* The check is there to keep two threads from working on one mapping.  What
\* it achieves: two threads do so only if one of them has yet to let go of a
\* job that was cancelled, or if one of the two jobs was inserted past the
\* check as above.
OverlapHasCause ==
    \A v, w \in Workers :
        /\ v # w /\ wpc[v] \in Started /\ wpc[w] \in Started
        /\ mappingOf[wjob[v]] = mappingOf[wjob[w]]
        => \/ "cancelled" \in {status[wjob[v]], status[wjob[w]]}
           \/ {wjob[v], wjob[w]} \cap raced # {}

\* A watermark goes back to an earlier job in two cases only: a cancelled run
\* comes to its end late, or the job the watermark was at was inserted past
\* the check while the earlier one was active.  The others follow each other.
WatermarkMovesForward ==
    [][\A m \in Mappings :
         synced'[m] < synced[m] =>
             status[synced'[m]] = "cancelled" \/ synced[m] \in raced]_vars

\* A PENDING job is settled in the end: it is not forgotten in a queue, by a
\* restart or by the request that made it, unless a commit failed or a
\* mapping was deleted.
PendingSettles ==
    \A j \in Jobs :
        status[j] = "pending" ~>
            status[j] \in Terminal \/ dbFaults > 0 \/ present # Mappings

\* A cancelled job is let go by its thread, whatever commit fails.
CancelStops ==
    \A j \in Jobs : status[j] = "cancelled" ~> \A w \in Workers : ~Holds(w, j)

\* What a job amounts to, given its row and the threads there are.
TaskOf(j) ==
    IF \E w \in Workers : Holds(w, j) THEN "working"
    ELSE CASE status[j] = "none"      -> "new"
           [] status[j] = "pending"   -> "waiting"
           [] status[j] = "running"   -> IF phase = "down" THEN "waiting" ELSE "lost"
           [] status[j] \in Terminal -> "over"

VerdictOf(j) == IF status[j] \in Terminal THEN status[j] ELSE "open"

LifeCycle == INSTANCE JobLifeCycle
             WITH task    <- [j \in Jobs |-> TaskOf(j)],
                  verdict <- [j \in Jobs |-> VerdictOf(j)]

\* Rows, queue, threads and restarts together keep the promise of
\* JobLifeCycle: no job is worked on twice at once, after it is over or after
\* it was cancelled while it waited, and a cancellation is never lost.
ImplementsLifeCycle == LifeCycle!Spec
=============================================================================
