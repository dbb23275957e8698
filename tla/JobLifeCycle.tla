----------------------------- MODULE JobLifeCycle -----------------------------
(***************************************************************************)
(* What the job machinery promises about each job, whatever threads,       *)
(* queues, commits and restarts lie behind it: a job is worked on only     *)
(* while it is wanted, by one thread at a time, and once it is over        *)
(* nothing works on it again.  MigrationJobs implements this.              *)
(***************************************************************************)
CONSTANT Jobs

VARIABLES
    task,    \* "new", "waiting", "working", "lost" (to be taken up again by
             \* a restart only), "over"
    verdict  \* what the job table says of it: "open" or how it ended

vars == <<task, verdict>>

TypeOK ==
    /\ task \in [Jobs -> {"new", "waiting", "working", "lost", "over"}]
    /\ verdict \in [Jobs -> {"open", "completed", "failed", "cancelled"}]

Init ==
    /\ task = [j \in Jobs |-> "new"]
    /\ verdict = [j \in Jobs |-> "open"]

\* One request makes any number of jobs.
Create(S) ==
    /\ \A j \in S : task[j] = "new"
    /\ task' = [j \in Jobs |-> IF j \in S THEN "waiting" ELSE task[j]]
    /\ UNCHANGED verdict

Begin(j) ==
    /\ task[j] = "waiting"
    /\ task' = [task EXCEPT ![j] = "working"]
    /\ UNCHANGED verdict

\* How a job ends is decided once: a cancellation that came first stands.
End(j) ==
    /\ task[j] = "working"
    /\ task' = [task EXCEPT ![j] = "over"]
    /\ \/ verdict[j] = "open" /\ \E v \in {"completed", "failed"} : verdict' = [verdict EXCEPT ![j] = v]
       \/ verdict[j] = "cancelled" /\ UNCHANGED verdict

\* The thread is gone without a word about how the job ended.
Lose(j) ==
    /\ task[j] = "working" /\ verdict[j] = "open"
    /\ task' = [task EXCEPT ![j] = "lost"]
    /\ UNCHANGED verdict

\* A thread at work is not interrupted, and a job that has just ended may be
\* relabelled; a job nobody works on is over at once.
Cancel(j) ==
    /\ task[j] # "new"
    /\ verdict' = [verdict EXCEPT ![j] = "cancelled"]
    /\ task' = [task EXCEPT ![j] = IF @ = "working" THEN "working" ELSE "over"]

\* All threads are gone; what was neither over nor cancelled waits again.
Restart ==
    /\ task' = [j \in Jobs |->
                  IF task[j] \notin {"working", "lost"} THEN task[j]
                  ELSE IF verdict[j] = "open" THEN "waiting" ELSE "over"]
    /\ UNCHANGED verdict

Next ==
    \/ \E S \in SUBSET Jobs : Create(S)
    \/ \E j \in Jobs : Begin(j) \/ End(j) \/ Lose(j) \/ Cancel(j)
    \/ Restart

Spec == Init /\ [][Next]_vars
=============================================================================
