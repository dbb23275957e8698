----------------------------- MODULE MappingTable -----------------------------
(***************************************************************************)
(* The table of mailbox mappings while jobs work from it.  A mapping is    *)
(* added, imported from CSV and deleted; there is no editing, so a mistake *)
(* is corrected by deleting and adding again.  The item rows of a mapping  *)
(* are not deleted with it, jobs name it by its id alone, and SQLite hands *)
(* the id of the last row out again.  Purging the secrets and setting up   *)
(* the tenant once more happen at any time, as restarts do.                *)
(*                                                                         *)
(* A job asks for some categories, for all of the mail or the mail from a  *)
(* date on, or is a dry run; a resync lists what was modified.  Whether an *)
(* item is at an address is all that is kept of the copies: MailboxImport  *)
(* and OverlappingRuns count them.  A request looks for active jobs and    *)
(* adds its own in one step, and no job is cancelled: that two jobs of a   *)
(* mapping may run at once is the subject of MigrationJobs and             *)
(* OverlappingRuns, and what is said here of a job does not rest on it.    *)
(***************************************************************************)
EXTENDS Naturals, FiniteSets, Sequences

CONSTANTS
    Users,      \* mailboxes in Exchange
    Addresses,  \* mailboxes in mailcow
    Meeting,    \* an event that all users attend, with one uid for all
    Orders,     \* what the form asks of a new job; see Kinds
    MaxMade,    \* bound: mappings ever made
    MaxRows,    \* bound: rows of a CSV file
    MaxJobs     \* bound: jobs

Ids  == 1..MaxMade
Jobs == 1..MaxJobs

Categories == {"mail", "event"}   \* event: the calendars, and the contacts

\* The categories a job migrates, those of them that it lists from the beginning,
\* and whether it is a dry run.
Kinds == {o \in [cats : SUBSET Categories, full : SUBSET Categories, dry : BOOLEAN] :
            o.full \subseteq o.cats}

ASSUME OrderAssumption == Orders \subseteq Kinds

ASSUME UserAssumption == IsFiniteSet(Users) /\ Meeting \notin Users

ASSUME BoundsAssumption == MaxMade \in Nat /\ MaxRows \in Nat /\ MaxJobs \in Nat

\* One message and one event of each user's own, and the meeting.
Items == Categories \X (Users \cup {Meeting})
Contents(u, stage) == IF stage = "mail" THEN {<<"mail", u>>}
                                        ELSE {"event"} \X {u, Meeting}
Whole(u) == Contents(u, "mail") \cup Contents(u, "event")

VARIABLES
    secret,   \* tenant_config: the client secret is there
    mapping,  \* mailbox_mapping: by id the number of the mapping in made, or 0
    usable,   \* ids whose app password is there
    synced,   \* ids with a last_synced_at
    rows,     \* migration_item: <<id, item>> recorded as done
    failed,   \* migration_item: <<id, item>> recorded as failed
    copies,   \* mailcow: <<address, item>> for what is there
    job,      \* migration_job, and where its thread is; see JobRows
    order,    \* migration_job: what the job is asked for, of Kinds
    made,     \* history: the mappings ever made
    purged    \* history: mappings there had been at the last purge

table == <<mapping, usable, synced, made>>
items == <<rows, failed, copies>>
vars == <<secret, table, items, job, order, purged>>

Pairs == [user : Users, addr : Addresses]

JobRows == [status : {"none", "pending", "running", "completed", "failed"},
            id     : Ids \cup {0},          \* mapping_id
            stage  : {"-", "mail", "event", "end", "gone"},
            target : 0..MaxMade,            \* mapping whose address and password it has
            source : 0..MaxMade,            \* mapping whose user was listed last
            held   : 0..MaxMade,            \* mapping as the session holds it, 0 for not
            todo   : SUBSET Items,
            sent   : SUBSET Items]          \* the item in hand, when it has been delivered

NoJob == [status |-> "none", id |-> 0, stage |-> "-", target |-> 0, source |-> 0,
          held |-> 0, todo |-> {}, sent |-> {}]

NoOrder == [cats |-> {}, full |-> {}, dry |-> FALSE]

Active(j) == job[j].status \in {"pending", "running"}

Init ==
    /\ secret = FALSE
    /\ mapping = [i \in Ids |-> 0]
    /\ usable = {} /\ synced = {}
    /\ rows = {} /\ failed = {} /\ copies = {}
    /\ job = [j \in Jobs |-> NoJob] /\ order = [j \in Jobs |-> NoOrder]
    /\ made = << >> /\ purged = 0

-----------------------------------------------------------------------------
(* The operator: mappings, secrets, jobs.                                  *)

Taken == {i \in Ids : mapping[i] # 0}

\* SQLite's rowid: one more than the largest there is.
LastId == CHOOSE n \in Ids \cup {0} :
            (n = 0 \/ n \in Taken) /\ \A i \in Taken : i <= n

\* One commit; ids are given in the order of the rows.
Insert(new) ==
    LET ids == LastId + 1..LastId + Len(new) IN
    /\ Len(made) + Len(new) <= MaxMade
    /\ made' = made \o [k \in 1..Len(new) |->
                          [id |-> LastId + k, user |-> new[k].user, addr |-> new[k].addr]]
    /\ mapping' = [i \in Ids |-> IF i \in ids THEN Len(made) + i - LastId ELSE mapping[i]]
    /\ usable' = usable \cup ids
    /\ synced' = synced \ ids
    /\ UNCHANGED <<secret, items, job, order, purged>>

Add(p) == Insert(<< p >>)

\* Rows with a field missing or empty are passed over: a file is what is left
\* of it then.
ImportCsv(file) == Insert(file)

Delete(i) ==
    /\ i \in Taken
    /\ mapping' = [mapping EXCEPT ![i] = 0]
    /\ usable' = usable \ {i} /\ synced' = synced \ {i}
    /\ UNCHANGED <<secret, items, job, order, made, purged>>

SaveSetup ==
    /\ secret' = TRUE
    /\ UNCHANGED <<table, items, job, order, purged>>

\* Mutant: only the tenant's secret goes.
PurgeTenant ==
    /\ secret' = FALSE /\ purged' = Len(made)
    /\ UNCHANGED <<table, items, job, order>>

Purge ==
    /\ secret' = FALSE /\ usable' = {} /\ purged' = Len(made)
    /\ UNCHANGED <<mapping, synced, made, items, job, order>>

Ask(j, i, o) ==
    /\ job[j] = NoJob /\ \A k \in 1..j-1 : job[k] # NoJob
    /\ \A k \in Jobs : job[k].id = i => ~Active(k)
    /\ job' = [job EXCEPT ![j].status = "pending", ![j].id = i]
    /\ order' = [order EXCEPT ![j] = o]
    /\ UNCHANGED <<secret, table, items, purged>>

\* create_jobs takes the id from the form and does not look the mapping up.
Create(j, i) == \E o \in Orders : Ask(j, i, o)

\* A resync takes all categories, each from the watermark on.
Resync(j, i) ==
    /\ i \in synced
    /\ Ask(j, i, [cats |-> Categories, full |-> {}, dry |-> FALSE])

-----------------------------------------------------------------------------
(* The thread of a job.                                                    *)

There(j) == mapping[job[j].id]

Ready(j) == There(j) # 0 /\ secret /\ job[j].id \in usable

\* What a listing of the category for mapping m may hold: all there is, when it
\* starts from the beginning, and otherwise what the dates leave of it.
Listed(j, stage, m) ==
    LET all == Contents(made[m].user, stage)
    IN  IF stage \notin order[j].cats THEN {{}}
        ELSE IF stage \in order[j].full THEN {all} ELSE SUBSET all

AfterMail(j) == IF "event" \in order[j].cats THEN "event" ELSE "end"

\* Address and password are read once.  With the mapping just read go the
\* folders and the listing; a commit for the folders makes the session let it go.
Start(j) ==
    /\ job[j].status = "pending" /\ Ready(j)
    /\ \E held \in {There(j), 0}, mail \in Listed(j, "mail", There(j)) :
         job' = [job EXCEPT ![j] =
                   [@ EXCEPT !.status = "running",
                             !.stage = IF mail # {} THEN "mail" ELSE AfterMail(j),
                             !.target = There(j), !.source = There(j),
                             !.held = held, !.todo = mail]]
    /\ UNCHANGED <<secret, table, items, order, purged>>

\* The mapping of a running job: after each commit whatever has its id now.
Seen(j) == IF job[j].held # 0 THEN job[j].held ELSE There(j)

Settle(j, status) ==
    job' = [job EXCEPT ![j].status = status, ![j].stage = "-", ![j].todo = {},
                          ![j].held = 0, ![j].sent = {}]

\* Mutant: the watermark is set when the job has started, whatever comes.
FailSynced(j) ==
    /\ job[j].stage \in {"mail", "event", "end"}
    /\ Settle(j, "failed")
    /\ synced' = IF There(j) # 0 THEN synced \cup {job[j].id} ELSE synced
    /\ UNCHANGED <<secret, mapping, usable, made, items, order, purged>>

\* No mapping, nothing to decrypt; or anything else that raises, later on.
Fail(j) ==
    /\ \/ job[j].status = "pending" /\ ~Ready(j)
       \/ job[j].stage \in {"mail", "event", "end"}
    /\ Settle(j, "failed")
    /\ UNCHANGED <<secret, table, items, order, purged>>

Listing(j, m, events) ==
    [job EXCEPT ![j].source = m, ![j].held = m, ![j].todo = events,
                ![j].stage = IF events = {} THEN "end" ELSE @]

\* Mutant: the mapping is the first that comes.
ListAnyone(j) ==
    /\ job[j].stage = "event" /\ job[j].todo = {}
    /\ \E i \in Taken : \E events \in Listed(j, "event", mapping[i]) :
         job' = Listing(j, mapping[i], events)
    /\ UNCHANGED <<secret, table, items, order, purged>>

\* The calendars are listed after the mail, for the user the mapping names then.
List(j) ==
    /\ job[j].stage = "event" /\ job[j].todo = {} /\ Seen(j) # 0
    /\ \E events \in Listed(j, "event", Seen(j)) : job' = Listing(j, Seen(j), events)
    /\ UNCHANGED <<secret, table, items, order, purged>>

\* The job with item i dealt with and the counters committed: the next item, or
\* the next category.
Past(j, i) ==
    LET rest == job[j].todo \ {i}
        next == IF job[j].stage = "mail" THEN AfterMail(j) ELSE "end"
    IN  [job EXCEPT ![j].todo = rest, ![j].held = 0, ![j].sent = {},
                    ![j].stage = IF rest = {} THEN next ELSE @]

\* Mutant: get_item leaves the mapping out.
RecordedAnywhere(j, i) == \E n \in Ids : <<n, i>> \in rows

Recorded(j, i) == <<job[j].id, i>> \in rows

\* The item job j turns to, through the mapping; a delivered one comes first.
InHand(j, i) == i \in job[j].todo /\ job[j].sent \subseteq {i} /\ Seen(j) # 0

\* An event may have been edited since it was recorded.
NeedsImport(j, i) == ~Recorded(j, i) \/ i[1] = "event"

Skip(j, i) ==
    /\ InHand(j, i) /\ job[j].sent = {} /\ Recorded(j, i)
    /\ job' = Past(j, i)
    /\ UNCHANGED <<secret, table, items, order, purged>>

\* A dry run counts the item and leaves it.
CountOnly(j, i) ==
    /\ InHand(j, i) /\ NeedsImport(j, i) /\ order[j].dry
    /\ job' = Past(j, i)
    /\ UNCHANGED <<secret, table, items, order, purged>>

\* A message is fetched by its id from the mailbox of whoever the mapping now
\* names; of an event the listing has all that is needed.
Fetchable(j, i) == i[1] = "mail" => made[Seen(j)].user = made[job[j].source].user

\* Appended or put; the mapping stays in the session until the next commit.
Deliver(j, i) ==
    /\ InHand(j, i) /\ NeedsImport(j, i) /\ ~order[j].dry /\ Fetchable(j, i)
    /\ copies' = copies \cup {<<made[job[j].target].addr, i>>}
    /\ job' = [job EXCEPT ![j].sent = {i}, ![j].held = Seen(j)]
    /\ UNCHANGED <<secret, table, rows, failed, order, purged>>

Record(j, i) ==
    /\ i \in job[j].sent
    /\ rows' = rows \cup {<<job[j].id, i>>}
    /\ failed' = failed \ {<<job[j].id, i>>}
    /\ job' = Past(j, i)
    /\ UNCHANGED <<secret, table, copies, order, purged>>

\* The last of three attempts raises, before the delivery or after it; the job
\* goes on.
ImportFails(j, i) ==
    /\ InHand(j, i) /\ NeedsImport(j, i) /\ ~order[j].dry
    /\ rows' = rows \ {<<job[j].id, i>>}
    /\ failed' = failed \cup {<<job[j].id, i>>}
    /\ job' = Past(j, i)
    /\ UNCHANGED <<secret, table, copies, order, purged>>

\* Mutant: nobody asks whether the row is still there.
CompleteBlind(j) ==
    /\ job[j].stage = "end"
    /\ Settle(j, "completed")
    /\ synced' = synced \cup {job[j].id}
    /\ UNCHANGED <<secret, mapping, usable, made, items, order, purged>>

\* last_synced_at is written to the row that has the id; not by a dry run.
Complete(j) ==
    /\ job[j].stage = "end" /\ (order[j].dry \/ There(j) # 0)
    /\ Settle(j, "completed")
    /\ synced' = IF order[j].dry THEN synced ELSE synced \cup {job[j].id}
    /\ UNCHANGED <<secret, mapping, usable, made, items, order, purged>>

\* There is none: the last commit raises, and the row goes on to say RUNNING.
CompleteLost(j) ==
    /\ job[j].stage = "end" /\ ~order[j].dry /\ There(j) = 0
    /\ job' = [job EXCEPT ![j].stage = "gone", ![j].held = 0]
    /\ UNCHANGED <<secret, table, items, order, purged>>

\* The container restarts: RUNNING jobs are PENDING again.
Restart ==
    /\ \E j \in Jobs : job[j].status = "running"
    /\ job' = [j \in Jobs |->
                 IF job[j].status = "running"
                 THEN [NoJob EXCEPT !.status = "pending", !.id = job[j].id]
                 ELSE job[j]]
    /\ UNCHANGED <<secret, table, items, order, purged>>

-----------------------------------------------------------------------------
Files == UNION {[1..n -> Pairs] : n \in 1..MaxRows}

Run(j) ==
    \/ Start(j) \/ Fail(j) \/ List(j) \/ Complete(j) \/ CompleteLost(j)
    \/ \E i \in job[j].todo : \/ Skip(j, i) \/ CountOnly(j, i)
                              \/ Deliver(j, i) \/ Record(j, i) \/ ImportFails(j, i)

Next ==
    \/ \E p \in Pairs : Add(p)
    \/ \E file \in Files : ImportCsv(file)
    \/ \E i \in Ids : Delete(i)
    \/ SaveSetup \/ Purge \/ Restart
    \/ \E j \in Jobs : Run(j) \/ \E i \in Ids : Create(j, i) \/ Resync(j, i)

Spec == Init /\ [][Next]_vars

-----------------------------------------------------------------------------
(* Properties.                                                             *)

\* Every variable has its type.
TypeOK ==
    /\ secret \in BOOLEAN
    /\ mapping \in [Ids -> 0..Len(made)]
    /\ usable \subseteq Taken /\ synced \subseteq Taken
    /\ rows \subseteq Ids \X Items /\ failed \subseteq Ids \X Items
    /\ copies \subseteq Addresses \X Items
    /\ job \in [Jobs -> JobRows] /\ order \in [Jobs -> Kinds]
    /\ made \in Seq([id : Ids, user : Users, addr : Addresses])
    /\ purged \in 0..Len(made)

Owners(i) == {n \in DOMAIN made : made[n].id = i}

HandedOn(i) == Cardinality(Owners(i)) > 1

\* An item is at an address only if its user was mapped to it, or if an id of a
\* mapping to that address has been handed on to a mapping of that user.
DeliveredAsMapped ==
    \A c \in copies :
        \E n, m \in DOMAIN made :
            /\ made[n].addr = c[1] /\ c[2] \in Whole(made[m].user)
            /\ made[n].id = made[m].id /\ n <= m

Real(j) == job[j].status = "completed" /\ ~order[j].dry

\* A resync is offered for a mapping only after a job that was started for that
\* very mapping, and was not a dry run, has completed, whatever was deleted and
\* added while jobs ran; unless its id was another mapping's before.
ResyncAfterMigration ==
    \A i \in synced :
        HandedOn(i) \/ \E j \in Jobs : Real(j) /\ job[j].target = mapping[i]

\* What a completed job listed from the beginning is at the address of its mapping
\* or reported as failed, item by item, through restarts, later jobs and resyncs;
\* unless the id of its mapping is not its own, or the job was a dry run.
CompletedIsThere ==
    \A j \in Jobs :
        Real(j) /\ ~HandedOn(job[j].id) =>
            LET m == made[job[j].target]
            IN  \A stage \in order[j].full : \A i \in Contents(m.user, stage) :
                    <<m.addr, i>> \in copies \/ <<job[j].id, i>> \in failed

\* A job reaches mailcow after a purge only with what it had read before, or
\* for a mapping made since.
PurgeIsFinal ==
    [][\A j \in Jobs : Start(j) => There(j) > purged]_vars

\* A job passes over an item only if the item is at the address the job migrates
\* to: rows of migration_item are about the mapping they were written for.
SkippedIsAtTarget ==
    [][\A j \in Jobs : \A i \in job[j].todo :
         Skip(j, i) => <<made[job[j].target].addr, i>> \in copies]_vars
=============================================================================
