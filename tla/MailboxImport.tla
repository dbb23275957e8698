---------------------------- MODULE MailboxImport ----------------------------
(***************************************************************************)
(* What a migration job does to one mailbox: for each listed item, decide  *)
(* whether to import it, hand it to mailcow, record the result in          *)
(* migration_item, count it in migration_job, and go on when it fails.     *)
(*                                                                         *)
(* Runs of the same mailbox follow each other.  Messages are appended over *)
(* IMAP: every append that takes effect is one more copy.  Events and      *)
(* contacts are put under their uid: the last put wins.  An item's version *)
(* stands for its lastModifiedDateTime.                                    *)
(***************************************************************************)
EXTENDS Naturals, FiniteSets

CONSTANTS
    Mail,         \* messages, by Graph id
    Dav,          \* events and contacts, by uid
    MaxAttempts,  \* MAX_ITEM_RETRIES
    MaxVersion,   \* bound: versions of an event or contact in Exchange
    MaxRuns,      \* bound: jobs of this mailbox
    MaxLost,      \* bound: deliveries that take effect and raise
    MaxDbFaults,  \* bound: flushes that raise ("database is locked")
    MaxCrashes    \* bound: crashes of the container

Items == Mail \cup Dav

ASSUME ItemAssumption == Mail \cap Dav = {}

ASSUME AttemptAssumption == MaxAttempts \in Nat \ {0}

VARIABLES
    srcVer,    \* Exchange: version of each event or contact
    copies,    \* mailcow: copies of each message
    davVer,    \* mailcow: version stored under each uid, 0 for none
    row,       \* migration_item.status, "none" without a row
    rowVer,    \* migration_item.source_modified_at, 0 for NULL
    counts,    \* migration_job.count_*, as committed
    outcome,   \* how the job stands
    pc,        \* where the run is
    dry,       \* migration_job.dry_run
    listed,    \* items Graph lists for this job
    todo,      \* listed items the run has not reached
    item,      \* the item being processed
    ver,       \* its version in the listing
    was,       \* its row's status when the run looked it up
    attempt,   \* attempts at it, this one included
    session,   \* SQLAlchemy session: "broken" after a failed flush
    tally,     \* counter incremented on the job object, not committed yet
    startVer,  \* srcVer when the listing began
    lost, dbFaults, crashes, runs

rowVars   == <<row, rowVer>>
jobVars   == <<counts, outcome, dry, listed, startVer, runs>>
itemVars  == <<item, ver, was, attempt>>
faultVars == <<lost, dbFaults, crashes>>
vars == <<srcVer, copies, davVer, rowVars, jobVars, pc, todo, itemVars,
          session, tally, faultVars>>

Counters == {"created", "updated", "skipped", "failed"}

DbFault == dbFaults < MaxDbFaults /\ dbFaults' = dbFaults + 1 /\ UNCHANGED <<lost, crashes>>

-----------------------------------------------------------------------------
Init ==
    /\ srcVer = [i \in Dav |-> 1]
    /\ copies = [i \in Mail |-> 0]
    /\ davVer = [i \in Dav |-> 0]
    /\ row = [i \in Items |-> "none"]
    /\ rowVer = [i \in Items |-> 0]
    /\ counts = [k \in Counters |-> 0]
    /\ outcome = "none" /\ pc = "idle" /\ dry = FALSE
    /\ listed = {} /\ todo = {}
    /\ item \in Items /\ ver = 0 /\ was = "none" /\ attempt = 0
    /\ session = "ok" /\ tally = "none"
    /\ startVer = srcVer
    /\ lost = 0 /\ dbFaults = 0 /\ crashes = 0 /\ runs = 0

\* Somebody edits an event or contact in Exchange.
Edit(i) ==
    /\ srcVer[i] < MaxVersion
    /\ srcVer' = [srcVer EXCEPT ![i] = @ + 1]
    /\ UNCHANGED <<copies, davVer, rowVars, jobVars, pc, todo, itemVars, session,
                   tally, faultVars>>

-----------------------------------------------------------------------------
(* The job around the items.                                               *)

\* A new job; which items Graph lists depends on its categories and dates.
Begin ==
    /\ pc = "idle" /\ runs < MaxRuns
    /\ runs' = runs + 1
    /\ dry' \in BOOLEAN
    /\ listed' \in SUBSET Items
    /\ todo' = listed'
    /\ counts' = [k \in Counters |-> 0]
    /\ outcome' = "running" /\ pc' = "list" /\ startVer' = srcVer
    /\ UNCHANGED <<srcVer, copies, davVer, rowVars, itemVars, session, tally, faultVars>>

Crash ==
    /\ pc \notin {"idle", "crashed"} /\ crashes < MaxCrashes
    /\ crashes' = crashes + 1
    /\ pc' = "crashed" /\ session' = "ok" /\ tally' = "none"
    /\ UNCHANGED <<srcVer, copies, davVer, rowVars, jobVars, todo, itemVars, lost, dbFaults>>

\* The restarted container runs the same job from the top; its counters go
\* on from where they were.
Resume ==
    /\ pc = "crashed"
    /\ todo' = listed /\ startVer' = srcVer /\ pc' = "list"
    /\ UNCHANGED <<srcVer, copies, davVer, rowVars, counts, outcome, dry, listed, runs,
                   itemVars, session, tally, faultVars>>

Finish(how) ==
    /\ outcome' = how /\ pc' = "idle"
    /\ session' = "ok" /\ tally' = "none"
    /\ UNCHANGED <<srcVer, copies, davVer, counts, dry, listed, startVer, runs, todo, itemVars>>

Complete ==
    /\ pc = "list" /\ todo = {}
    /\ Finish("completed") /\ UNCHANGED <<rowVars, faultVars>>

\* Cancelled, or failed between two items: login, listing, logout.
Stop ==
    /\ pc = "list"
    /\ Finish("stopped") /\ UNCHANGED <<rowVars, faultVars>>

-----------------------------------------------------------------------------
(* One item: _migrate_one_message, _migrate_one_calendar_event,            *)
(* _migrate_one_contact.                                                   *)

\* Mutant: a failed row is taken for a finished one.
NeedsImportOnce(i, v) ==
    \/ row[i] = "none"
    \/ i \in Dav /\ rowVer[i] # 0 /\ v > rowVer[i]

\* Mutant: an item that was done is never looked at again.
NeedsImportStale(i, v) == row[i] \in {"none", "failed"}

\* Mutant: a row without a version counts as outdated.
NeedsImportAlways(i, v) ==
    \/ row[i] \in {"none", "failed"}
    \/ v >= rowVer[i]

NeedsImport(i, v) ==
    \/ row[i] \in {"none", "failed"}
    \/ i \in Dav /\ rowVer[i] # 0 /\ v > rowVer[i]

\* is_update looks at whether there is a row; mail has no such case.
SuccessCounter(i, s) == IF i \in Dav /\ s # "none" THEN "updated" ELSE "created"

Pick(i) ==
    LET v == IF i \in Dav THEN srcVer[i] ELSE 0 IN
    /\ pc = "list" /\ i \in todo
    /\ todo' = todo \ {i}
    /\ item' = i /\ ver' = v /\ was' = row[i]
    /\ \/ /\ ~NeedsImport(i, v)
          /\ tally' = "skipped" /\ pc' = "commit" /\ attempt' = 0
       \/ /\ NeedsImport(i, v) /\ dry
          /\ tally' = SuccessCounter(i, row[i]) /\ pc' = "commit" /\ attempt' = 0
       \/ /\ NeedsImport(i, v) /\ ~dry
          /\ pc' = "deliver" /\ attempt' = 1 /\ UNCHANGED tally
    /\ UNCHANGED <<srcVer, copies, davVer, rowVars, jobVars, session, faultVars>>

\* What mailcow does with the item.
Store ==
    IF item \in Mail
    THEN copies' = [copies EXCEPT ![item] = @ + 1] /\ UNCHANGED davVer
    ELSE davVer' = [davVer EXCEPT ![item] = ver] /\ UNCHANGED copies

\* mapping.exo_upn, an attribute that a failed flush has expired, is read
\* before a message is fetched: with a broken session that raises.
CanSend == session = "ok" \/ item \in Dav

Deliver ==
    /\ pc = "deliver" /\ CanSend
    /\ Store
    /\ pc' = "record"
    /\ UNCHANGED <<srcVer, rowVars, jobVars, todo, itemVars, session, tally, faultVars>>

DeliverFails ==
    /\ pc = "deliver"
    /\ pc' = "caught"
    /\ UNCHANGED <<srcVer, copies, davVer, rowVars, jobVars, todo, itemVars, session,
                   tally, faultVars>>

\* The reply is lost, or the server answers an append without APPENDUID.
DeliverLost ==
    /\ pc = "deliver" /\ CanSend /\ lost < MaxLost
    /\ Store
    /\ lost' = lost + 1
    /\ pc' = "caught"
    /\ UNCHANGED <<srcVer, rowVars, jobVars, todo, itemVars, session, tally, dbFaults, crashes>>

\* Mutant: the row gets the version Exchange has now, not the one delivered.
RecordLatest ==
    /\ pc = "record" /\ session = "ok"
    /\ row' = [row EXCEPT ![item] = "done"]
    /\ rowVer' = [rowVer EXCEPT ![item] = IF item \in Dav THEN srcVer[item] ELSE @]
    /\ tally' = SuccessCounter(item, was)
    /\ pc' = "commit"
    /\ UNCHANGED <<srcVer, copies, davVer, jobVars, todo, itemVars, session, faultVars>>

RecordSuccess ==
    /\ pc = "record" /\ session = "ok"
    /\ row' = [row EXCEPT ![item] = "done"]
    /\ rowVer' = [rowVer EXCEPT ![item] = IF item \in Dav THEN ver ELSE @]
    /\ tally' = SuccessCounter(item, was)
    /\ pc' = "commit"
    /\ UNCHANGED <<srcVer, copies, davVer, jobVars, todo, itemVars, session, faultVars>>

\* Nothing rolls the session back: from now on every use of it raises.
RecordFails ==
    /\ pc = "record"
    /\ \/ session = "broken" /\ UNCHANGED faultVars
       \/ session = "ok" /\ DbFault
    /\ session' = "broken"
    /\ pc' = "caught"
    /\ UNCHANGED <<srcVer, copies, davVer, rowVars, jobVars, todo, itemVars, tally>>

\* Mutant: the attempts are not counted.
RetryForever ==
    /\ pc = "caught" /\ attempt < MaxAttempts
    /\ pc' = "deliver"
    /\ UNCHANGED <<srcVer, copies, davVer, rowVars, jobVars, todo, itemVars,
                   session, tally, faultVars>>

Retry ==
    /\ pc = "caught" /\ attempt < MaxAttempts
    /\ attempt' = attempt + 1
    /\ pc' = "deliver"
    /\ UNCHANGED <<srcVer, copies, davVer, rowVars, jobVars, todo, item, ver, was,
                   session, tally, faultVars>>

\* Mutant: the failure is recorded, the loop goes on to the next attempt.
RecordFailureGoOn ==
    /\ pc = "caught" /\ attempt = MaxAttempts /\ session = "ok"
    /\ row' = [row EXCEPT ![item] = "failed"]
    /\ attempt' = attempt + 1
    /\ pc' = "deliver"
    /\ UNCHANGED <<srcVer, copies, davVer, rowVer, jobVars, todo, item, ver, was,
                   session, tally, faultVars>>

\* Mutant: a failed item is not counted.
RecordFailureUncounted ==
    /\ pc = "caught" /\ attempt = MaxAttempts /\ session = "ok"
    /\ row' = [row EXCEPT ![item] = "failed"]
    /\ pc' = "list"
    /\ UNCHANGED <<srcVer, copies, davVer, rowVer, jobVars, todo, itemVars, session,
                   tally, faultVars>>

\* Mutant: a failed item is counted and not recorded.
RecordFailureUnrecorded ==
    /\ pc = "caught" /\ attempt = MaxAttempts /\ session = "ok"
    /\ tally' = "failed"
    /\ pc' = "commit"
    /\ UNCHANGED <<srcVer, copies, davVer, rowVars, jobVars, todo, itemVars, session,
                   faultVars>>

RecordFailure ==
    /\ pc = "caught" /\ attempt = MaxAttempts /\ session = "ok"
    /\ row' = [row EXCEPT ![item] = "failed"]
    /\ tally' = "failed"
    /\ pc' = "commit"
    /\ UNCHANGED <<srcVer, copies, davVer, rowVer, jobVars, todo, itemVars, session, faultVars>>

\* record_failure raises out of the item's except clause: run marks the
\* whole job FAILED.
ItemFailsJob ==
    /\ pc = "caught" /\ attempt = MaxAttempts
    /\ \/ session = "broken" /\ UNCHANGED faultVars
       \/ session = "ok" /\ DbFault
    /\ Finish("failed") /\ UNCHANGED rowVars

CommitCounts ==
    /\ pc = "commit"
    /\ counts' = [counts EXCEPT ![tally] = @ + 1]
    /\ tally' = "none" /\ pc' = "list"
    /\ UNCHANGED <<srcVer, copies, davVer, rowVars, outcome, dry, listed, startVer, runs,
                   todo, itemVars, session, faultVars>>

\* The rollback before the retry discards the increment; what the retry
\* commits has no writes left that could fail.
CommitFault ==
    /\ pc = "commit" /\ DbFault
    /\ tally' = "none" /\ pc' = "list"
    /\ UNCHANGED <<srcVer, copies, davVer, rowVars, jobVars, todo, itemVars, session>>

-----------------------------------------------------------------------------
Run ==
    \/ Resume \/ Complete \/ Stop
    \/ \E i \in Items : Pick(i)
    \/ Deliver \/ DeliverFails \/ RecordSuccess \/ RecordFails \/ Retry
    \/ RecordFailure \/ ItemFailsJob \/ CommitCounts

\* No job to run.
Quiet == pc = "idle" /\ UNCHANGED vars

Next ==
    \/ Begin \/ Run \/ DeliverLost \/ CommitFault \/ Crash \/ Quiet
    \/ \E i \in Dav : Edit(i)

Spec == Init /\ [][Next]_vars

\* A running container runs its job; a crashed one is restarted.
FairSpec == Spec /\ WF_vars(Run)

\* What report_json and report_csv list, for any job of the mapping.
FailedItems == {i \in Items : row[i] = "failed"}

-----------------------------------------------------------------------------
(* Properties.                                                             *)

\* Every variable has its type.
TypeOK ==
    /\ srcVer \in [Dav -> Nat \ {0}] /\ startVer \in [Dav -> Nat \ {0}]
    /\ copies \in [Mail -> Nat] /\ davVer \in [Dav -> Nat]
    /\ row \in [Items -> {"none", "done", "failed"}]
    /\ rowVer \in [Items -> Nat]
    /\ counts \in [Counters -> Nat]
    /\ outcome \in {"none", "running", "completed", "failed", "stopped"}
    /\ pc \in {"idle", "crashed", "list", "deliver", "record", "caught", "commit"}
    /\ dry \in BOOLEAN
    /\ listed \subseteq Items /\ todo \subseteq Items
    /\ item \in Items /\ ver \in Nat /\ was \in {"none", "done", "failed"}
    /\ attempt \in 0..MaxAttempts
    /\ session \in {"ok", "broken"}
    /\ tally \in Counters \cup {"none"} /\ (pc = "commit" <=> tally # "none")
    /\ lost \in Nat /\ dbFaults \in Nat /\ crashes \in Nat /\ runs \in Nat

\* What is recorded as done is in mailcow, in the version recorded or a
\* later one: nothing that is skipped from now on is missing there.
DoneIsDelivered ==
    \A i \in Items :
        row[i] = "done" => IF i \in Mail THEN copies[i] >= 1 ELSE davVer[i] >= rowVer[i]

\* A message is in the mailbox twice only because of a delivery whose reply
\* was lost, a failed flush or a crash, and once more for each of these.
DuplicatesBounded == \A i \in Mail : copies[i] <= 1 + lost + dbFaults + crashes

\* Whatever a run skips is in mailcow, in the version Exchange listed.
SkippedIsThere ==
    [][pc = "list" /\ tally' = "skipped" =>
         IF item' \in Mail THEN copies[item'] >= 1 ELSE davVer[item'] >= ver']_vars

\* When a job completes, each item it listed is either recorded as failed
\* or in mailcow, events and contacts at least as new as when the job began.
CompletedIsCurrent ==
    outcome = "completed" /\ ~dry =>
        \A i \in listed :
            \/ row[i] = "failed"
            \/ i \in Mail /\ copies[i] >= 1
            \/ i \in Dav /\ davVer[i] >= startVer[i]

Total == counts["created"] + counts["updated"] + counts["skipped"] + counts["failed"]

\* The counters of a job count each item it has gone through exactly once,
\* as long as no flush failed and the container stayed up.
CountersComplete ==
    pc = "list" /\ dbFaults = 0 /\ crashes = 0 =>
        Total = Cardinality(listed \ todo)

\* A run comes to its end, whatever fails.
RunEnds == pc # "idle" ~> pc = "idle"

\* The report names the items a job counted as failed: there are at least as
\* many of them, unless a crash made the job count some of them twice.
ReportNamesFailures ==
    outcome = "completed" /\ crashes = 0 => counts["failed"] <= Cardinality(FailedItems)
=============================================================================
