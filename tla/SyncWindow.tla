------------------------------ MODULE SyncWindow ------------------------------
(***************************************************************************)
(* Which items a job asks Graph for, and the watermark the next resync     *)
(* starts from: mailbox_mapping.last_synced_at, a time of this server,     *)
(* against receivedDateTime and lastModifiedDateTime, times of Exchange.   *)
(*                                                                         *)
(* One mailbox, one job at a time.  Exchange's clock ticks when something  *)
(* happens in the mailbox; an item's version is the time of its last       *)
(* change.  What can happen to one delivery is the subject of module       *)
(* MailboxImport: here it succeeds or is recorded as failed.  A listing    *)
(* reaches every item of its folders; what it can miss while messages are  *)
(* removed is the subject of module GraphClient.                           *)
(***************************************************************************)
EXTENDS Integers, FiniteSets

CONSTANTS
    Mail, Events, Contacts,  \* ids of what may appear in the mailbox
    Buffer,     \* RESYNC_BUFFER
    MaxDrift,   \* most this server's clock is ahead of or behind Exchange's
    MaxTime,    \* bound: Exchange's clock
    MaxJobs     \* bound: jobs

Items      == Mail \cup Events \cup Contacts
Categories == {"mail", "calendar", "contacts"}
ItemsOf    == [mail |-> Mail, calendar |-> Events, contacts |-> Contacts]

ASSUME ItemAssumption ==
    Mail \cap Events = {} /\ Mail \cap Contacts = {} /\ Events \cap Contacts = {}

ASSUME ClockAssumption == Buffer \in Nat /\ MaxDrift \in 0..Buffer

NoTime == 0                     \* NULL, or: does not exist yet
Origin == Buffer + MaxDrift + 1 \* what happens is later than this

VARIABLES
    now,        \* Exchange's clock
    changed,    \* version of each item in Exchange, NoTime before it is there
    delivered,  \* version recorded for each item, NoTime for none
    failed,     \* items whose row says failed
    synced,     \* mailbox_mapping.last_synced_at
    pc,         \* "idle", "pending" or "running"
    resync,     \* migration_job.job_type is resync
    dry,        \* migration_job.dry_run
    cats,       \* the categories with migrate_... set
    mailSince,  \* migration_job.mail_since_date
    davSince,   \* modified_since of the run
    started,    \* migration_job.started_at
    todo,       \* items the run's listings have not come to
    page,       \* listed items still to be processed, with their versions
    cut,        \* history: categories the last initial job did not take whole
    whole,      \* history: some initial job has taken everything
    jobs

itemVars  == <<changed, delivered, failed>>
jobVars   == <<resync, dry, cats, mailSince>>
runVars   == <<davSince, started, todo, page>>
vars == <<now, itemVars, synced, pc, jobVars, runVars, cut, whole, jobs>>

Init ==
    /\ now = Origin
    /\ changed \in [Items -> {NoTime, Origin}]
    /\ delivered = [i \in Items |-> NoTime]
    /\ failed = {}
    /\ synced = NoTime
    /\ pc = "idle" /\ resync = FALSE /\ dry = FALSE /\ cats = {}
    /\ mailSince = NoTime /\ davSince = NoTime /\ started = NoTime
    /\ todo = {} /\ page = {}
    /\ cut = {} /\ whole = FALSE /\ jobs = 0

\* A message arrives, an event or a contact is added or edited.
Change(i) ==
    /\ now < MaxTime
    /\ i \in Mail => changed[i] = NoTime
    /\ now' = now + 1
    /\ changed' = [changed EXCEPT ![i] = now + 1]
    /\ UNCHANGED <<delivered, failed, synced, pc, jobVars, runVars, cut, whole, jobs>>

-----------------------------------------------------------------------------
(* Jobs.                                                                   *)

\* Mutant: the watermark itself, without the buffer.
WindowStartExact(t) == t

\* Where a resync begins to look.
WindowStart(t) == t - Buffer

\* POST /jobs: the user chooses.
CreateInitial ==
    /\ pc = "idle" /\ jobs < MaxJobs
    /\ resync' = FALSE /\ dry' \in BOOLEAN
    /\ cats' \in SUBSET Categories
    /\ mailSince' \in {NoTime} \cup Origin..now
    /\ pc' = "pending" /\ jobs' = jobs + 1
    /\ UNCHANGED <<now, itemVars, synced, runVars, cut, whole>>

\* Mutant: without the check that there is a watermark.
CreateResyncUnchecked ==
    /\ pc = "idle" /\ jobs < MaxJobs
    /\ resync' = TRUE /\ dry' = FALSE
    /\ cats' = Categories
    /\ mailSince' = WindowStart(synced)
    /\ pc' = "pending" /\ jobs' = jobs + 1
    /\ UNCHANGED <<now, itemVars, synced, runVars, cut, whole>>

\* POST /mappings/{id}/resync and resync-all.
CreateResync ==
    /\ pc = "idle" /\ jobs < MaxJobs
    /\ synced # NoTime
    /\ resync' = TRUE /\ dry' = FALSE
    /\ cats' = Categories
    /\ mailSince' = WindowStart(synced)
    /\ pc' = "pending" /\ jobs' = jobs + 1
    /\ UNCHANGED <<now, itemVars, synced, runVars, cut, whole>>

\* The guarded start and the window of the run.
Start ==
    /\ pc = "pending"
    /\ started' \in now - MaxDrift .. now + MaxDrift
    /\ davSince' = IF resync THEN WindowStart(synced) ELSE NoTime
    /\ todo' = UNION {ItemsOf[c] : c \in cats}
    /\ page' = {}
    /\ pc' = "running"
    /\ UNCHANGED <<now, itemVars, synced, jobVars, cut, whole, jobs>>

Since(i) == IF i \in Mail THEN mailSince ELSE davSince

\* Mail, then calendars, then contacts.
Precedes(c, d) ==
    \/ c = d \/ c = "mail" \/ d = "contacts"

\* One page of a folder, a calendar or the contacts, as Exchange has them
\* now; $filter leaves out what is older than the window.  Assumed: whatever is
\* there is on some page.  GraphClient says what pages by position can miss.
ListPage(c, items) ==
    /\ pc = "running" /\ page = {}
    /\ items # {} /\ items \subseteq todo \cap ItemsOf[c]
    /\ \A i \in todo : \E d \in Categories : i \in ItemsOf[d] /\ Precedes(c, d)
    /\ todo' = todo \ items
    /\ page' = {<<i, changed[i]>> : i \in
                  {k \in items : changed[k] # NoTime /\ changed[k] >= Since(k)}}
    /\ UNCHANGED <<now, itemVars, synced, pc, jobVars, davSince, started, cut, whole, jobs>>

NeedsImport(i, v) ==
    \/ delivered[i] = NoTime \/ i \in failed
    \/ i \notin Mail /\ v > delivered[i]

Import(i, v) ==
    /\ pc = "running" /\ <<i, v>> \in page
    /\ page' = page \ {<<i, v>>}
    /\ \/ /\ dry \/ ~NeedsImport(i, v)
          /\ UNCHANGED <<delivered, failed>>
       \/ /\ ~dry /\ NeedsImport(i, v)
          /\ delivered' = [delivered EXCEPT ![i] = v]
          /\ failed' = failed \ {i}
       \/ /\ ~dry /\ NeedsImport(i, v)
          /\ failed' = failed \cup {i}
          /\ UNCHANGED delivered
    /\ UNCHANGED <<now, changed, synced, pc, jobVars, davSince, started, todo, cut, whole, jobs>>

\* Categories the job at hand leaves out or takes only in part.
NotWhole == {c \in Categories : c \notin cats \/ (c = "mail" /\ mailSince # NoTime)}

Done == pc = "running" /\ todo = {} /\ page = {}

TakeHistory ==
    IF resync THEN UNCHANGED <<cut, whole>>
    ELSE cut' = NotWhole /\ whole' = (whole \/ NotWhole = {})

\* The job is over, the next one has a row and a run of its own.
Leave ==
    /\ pc' = "idle"
    /\ resync' = FALSE /\ dry' = FALSE /\ cats' = {} /\ mailSince' = NoTime
    /\ davSince' = NoTime /\ started' = NoTime /\ todo' = {} /\ page' = {}
    /\ UNCHANGED <<now, itemVars, jobs>>

\* Mutant: the time the run ends instead of the time it started.
CompleteAtEnd ==
    /\ Done
    /\ IF dry THEN UNCHANGED <<synced, cut, whole>>
              ELSE synced' \in now - MaxDrift .. now + MaxDrift /\ TakeHistory
    /\ Leave

Complete ==
    /\ Done
    /\ IF dry THEN UNCHANGED <<synced, cut, whole>>
              ELSE synced' = started /\ TakeHistory
    /\ Leave

\* Cancelled or failed as a whole, before or while it runs.
Stop ==
    /\ pc # "idle"
    /\ Leave /\ UNCHANGED <<synced, cut, whole>>

\* The container is restarted; the job is run again, from the top.
Resume ==
    /\ pc = "running"
    /\ pc' = "pending"
    /\ davSince' = NoTime /\ started' = NoTime /\ todo' = {} /\ page' = {}
    /\ UNCHANGED <<now, itemVars, synced, jobVars, cut, whole, jobs>>

\* No job to run.
Quiet == pc = "idle" /\ UNCHANGED vars

Next ==
    \/ CreateInitial \/ CreateResync \/ Start \/ Complete \/ Stop \/ Resume
    \/ Quiet
    \/ \E c \in Categories : \E items \in SUBSET ItemsOf[c] : ListPage(c, items)
    \/ \E p \in page : Import(p[1], p[2])
    \/ \E i \in Items : Change(i)

Spec == Init /\ [][Next]_vars

-----------------------------------------------------------------------------
(* Properties.                                                             *)

\* Every variable has its type.
TypeOK ==
    /\ now \in Nat
    /\ changed \in [Items -> Nat] /\ delivered \in [Items -> Nat]
    /\ failed \subseteq Items
    /\ synced \in Nat
    /\ pc \in {"idle", "pending", "running"}
    /\ resync \in BOOLEAN /\ dry \in BOOLEAN /\ cats \subseteq Categories
    /\ mailSince \in Nat /\ davSince \in Nat /\ started \in Nat
    /\ todo \subseteq Items /\ page \subseteq Items \X Nat
    /\ cut \subseteq Categories /\ whole \in BOOLEAN
    /\ jobs \in Nat

\* In Exchange in a version that is not recorded, and not known as failed.
Missing(i) == changed[i] # delivered[i] /\ i \notin failed

\* Whatever is missing in mailcow without being recorded as failed lies in
\* the window of the next resync: neither the drift of the clocks, nor
\* changes during a run, nor a run that stopped or was resumed leave a gap,
\* in any category the last initial job took whole.
WindowCovers ==
    synced # NoTime =>
        \A c \in Categories \ cut : \A i \in ItemsOf[c] :
            Missing(i) => changed[i] >= WindowStart(synced)

\* README, section 4: a resync brings what was added or changed since the
\* initial migration.  Whatever came after an initial job that took
\* everything is there, recorded as failed, or in the next window.
NoSilentGap ==
    whole => \A i \in Items : Missing(i) => changed[i] >= WindowStart(synced)
=============================================================================
