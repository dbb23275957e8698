---------------------------- MODULE OverlappingRuns ----------------------------
(***************************************************************************)
(* Two threads in one mailbox.  There are two ways to get there.           *)
(*  - A cancelled job's thread finishes the item it has in hand, retries   *)
(*    included, while the mapping already counts as free: the next job of  *)
(*    the mapping may start beside it.                                     *)
(*  - The check for an active job and the commit of the new one are steps  *)
(*    of a request handler, and handlers run in threads: of two requests   *)
(*    that have both checked, both insert a job.                           *)
(* Both threads look up and write the same migration_item rows, each       *)
(* through a session of its own, and both deliver to the same mailbox.     *)
(*                                                                         *)
(* Nothing else goes wrong here: no delivery takes effect and raises, no   *)
(* commit fails but for the unique constraint, nothing crashes (a restart  *)
(* resumes the job that is not cancelled, alone).  MailboxImport has those *)
(* faults, for runs that follow each other.                                *)
(***************************************************************************)
EXTENDS Naturals, FiniteSets

CONSTANTS
    Mail,         \* messages, by Graph id
    Dav,          \* events and contacts, by uid
    MaxAttempts,  \* MAX_ITEM_RETRIES
    MaxVersion,   \* bound: versions of an event or contact in Exchange
    MaxRuns,      \* bound: jobs of this mapping
    MaxRequests,  \* bound: requests between their check and their commit
    MaxListed     \* bound: items Graph lists for one job

Items == Mail \cup Dav
Runs  == 1..MaxRuns

ASSUME ItemAssumption == Mail \cap Dav = {} /\ Items # {}

ASSUME BoundsAssumption ==
    /\ MaxAttempts \in Nat \ {0} /\ MaxVersion \in Nat \ {0}
    /\ MaxRuns \in Nat /\ MaxRequests \in Nat /\ MaxListed \in Nat

VARIABLES
    srcVer,      \* Exchange: version of each event or contact
    copies,      \* mailcow: copies of each message
    davVer,      \* mailcow: version stored under each uid, 0 for none
    row,         \* migration_item: status ("none" without a row) and version
    job,         \* migration_job.status of each run, "checked" before the insert
    pc,          \* where the run's thread is
    todo,        \* items the run has listed and not reached
    startVer,    \* srcVer when the run began
    hand,        \* the item the run is at, see Hands
    session,     \* "broken" after a failed flush
    raced,       \* history: runs whose check missed another's commit
    astray       \* history: <<run, item>>, the item in the hand of a run that
                 \* was cancelled with it, or is one of raced

mailcow    == <<copies, davVer>>
threadVars == <<todo, startVer>>
vars == <<srcVer, mailcow, row, job, pc, threadVars, hand, session, raced, astray>>

Listings == {S \in SUBSET Items : Cardinality(S) <= MaxListed}

Rows  == [status : {"none", "done", "failed"}, ver : 0..MaxVersion]
NoRow == [status |-> "none", ver |-> 0]

Hands == [item : Items, ver : 0..MaxVersion,  \* what was listed
          seen : Rows,                        \* its row as the session holds it
          attempt : 0..MaxAttempts,           \* attempts, this one included
          goal : {"done", "failed"}]          \* what is to be recorded

Empty == [item |-> CHOOSE i \in Items : TRUE, ver |-> 0, seen |-> NoRow,
          attempt |-> 0, goal |-> "done"]

Fresh(i, v) == [item |-> i, ver |-> v, seen |-> NoRow, attempt |-> 1, goal |-> "done"]

InHand == {"pick", "deliver", "caught", "lookup", "write"}

Goto(r, to) == pc' = [pc EXCEPT ![r] = to]

LetGo(r) == Goto(r, "list") /\ hand' = [hand EXCEPT ![r] = Empty]

Init ==
    /\ srcVer = [i \in Dav |-> 1]
    /\ copies = [i \in Mail |-> 0]
    /\ davVer = [i \in Dav |-> 0]
    /\ row = [i \in Items |-> NoRow]
    /\ job = [r \in Runs |-> "none"]
    /\ pc = [r \in Runs |-> "none"]
    /\ todo = [r \in Runs |-> {}]
    /\ startVer = [r \in Runs |-> srcVer]
    /\ hand = [r \in Runs |-> Empty]
    /\ session = [r \in Runs |-> "ok"]
    /\ raced = {} /\ astray = {}

-----------------------------------------------------------------------------
(* Exchange, and the operator's requests.                                  *)

Edit(i) ==
    /\ srcVer[i] < MaxVersion
    /\ srcVer' = [srcVer EXCEPT ![i] = @ + 1]
    /\ UNCHANGED <<mailcow, row, job, pc, threadVars, hand, session, raced, astray>>

\* The next job is not created before the one before it has been asked for.
InTurn(r) ==
    /\ job[r] = "none" /\ \A s \in 1..r-1 : job[s] # "none"
    /\ Cardinality({s \in Runs : job[s] = "checked"}) < MaxRequests

HasActiveJob == \E s \in Runs : job[s] \in {"pending", "running"}

\* Mutant: a job is created whatever else the mapping has.
CheckNothing(r) ==
    /\ InTurn(r)
    /\ job' = [job EXCEPT ![r] = "checked"]
    /\ UNCHANGED <<srcVer, mailcow, row, pc, threadVars, hand, session, raced, astray>>

\* A request finds no active job of the mapping, and adds one to its session.
Check(r) ==
    /\ InTurn(r) /\ ~HasActiveJob
    /\ job' = [job EXCEPT ![r] = "checked"]
    /\ UNCHANGED <<srcVer, mailcow, row, pc, threadVars, hand, session, raced, astray>>

\* The request commits the job and submits it.  Requests that have checked
\* already do not look again.
Commit(r) ==
    /\ job[r] = "checked"
    /\ job' = [job EXCEPT ![r] = "pending"]
    /\ raced' = raced \cup {s \in Runs \ {r} : job[s] = "checked"}
    /\ UNCHANGED <<srcVer, mailcow, row, pc, threadVars, hand, session, astray>>

\* A free thread of the pool takes the job.
Start(r) ==
    /\ job[r] = "pending"
    /\ job' = [job EXCEPT ![r] = "running"]
    /\ \E S \in Listings : todo' = [todo EXCEPT ![r] = S]
    /\ startVer' = [startVer EXCEPT ![r] = srcVer]
    /\ Goto(r, "list")
    /\ UNCHANGED <<srcVer, mailcow, row, hand, session, raced, astray>>

Cancel(r) ==
    /\ job[r] \in {"pending", "running"}
    /\ job' = [job EXCEPT ![r] = "cancelled"]
    /\ astray' = IF pc[r] \in InHand THEN astray \cup {<<r, hand[r].item>>} ELSE astray
    /\ UNCHANGED <<srcVer, mailcow, row, pc, threadVars, hand, session, raced>>

-----------------------------------------------------------------------------
(* The thread of a run.                                                    *)

\* The last look at the job's status before the item.  The page that lists
\* the item may have been fetched any time since the run began.
NextItem(r, i) ==
    /\ pc[r] = "list" /\ job[r] = "running" /\ i \in todo[r]
    /\ todo' = [todo EXCEPT ![r] = @ \ {i}]
    /\ \E v \in IF i \in Dav THEN startVer[r][i]..srcVer[i] ELSE {0} :
         hand' = [hand EXCEPT ![r] = Fresh(i, v)]
    /\ astray' = IF r \in raced THEN astray \cup {<<r, i>>} ELSE astray
    /\ Goto(r, "pick")
    /\ UNCHANGED <<srcVer, mailcow, row, job, startVer, session, raced>>

NeedsImport(i, v) ==
    \/ row[i].status \in {"none", "failed"}
    \/ i \in Dav /\ row[i].ver # 0 /\ v > row[i].ver

Pick(r) ==
    LET i == hand[r].item IN
    /\ pc[r] = "pick"
    /\ \/ /\ NeedsImport(i, hand[r].ver)
          /\ hand' = [hand EXCEPT ![r].seen = row[i]]
          /\ Goto(r, "deliver")
       \/ ~NeedsImport(i, hand[r].ver) /\ LetGo(r)
    /\ UNCHANGED <<srcVer, mailcow, row, job, threadVars, session, raced, astray>>

\* mapping.exo_upn cannot be read through a broken session; nothing that an
\* event or contact needs is.
Deliver(r) ==
    LET i == hand[r].item IN
    /\ pc[r] = "deliver"
    /\ \/ /\ i \in Mail /\ session[r] = "ok"
          /\ copies' = [copies EXCEPT ![i] = @ + 1] /\ UNCHANGED davVer
       \/ /\ i \in Dav
          /\ davVer' = [davVer EXCEPT ![i] = hand[r].ver] /\ UNCHANGED copies
    /\ Goto(r, "lookup")
    /\ UNCHANGED <<srcVer, row, job, threadVars, hand, session, raced, astray>>

DeliverFails(r) ==
    /\ pc[r] = "deliver"
    /\ Goto(r, "caught")
    /\ UNCHANGED <<srcVer, mailcow, row, job, threadVars, hand, session, raced, astray>>

\* Mutant: the last attempt is not the last.
RetryPastLimit(r) ==
    /\ pc[r] = "caught" /\ hand[r].attempt <= MaxAttempts
    /\ hand' = [hand EXCEPT ![r].attempt = @ + 1]
    /\ Goto(r, "deliver")
    /\ UNCHANGED <<srcVer, mailcow, row, job, threadVars, session, raced, astray>>

Retry(r) ==
    /\ pc[r] = "caught" /\ hand[r].attempt < MaxAttempts
    /\ hand' = [hand EXCEPT ![r].attempt = @ + 1]
    /\ Goto(r, "deliver")
    /\ UNCHANGED <<srcVer, mailcow, row, job, threadVars, session, raced, astray>>

GiveUp(r) ==
    /\ pc[r] = "caught" /\ hand[r].attempt = MaxAttempts
    /\ hand' = [hand EXCEPT ![r].goal = "failed"]
    /\ Goto(r, "lookup")
    /\ UNCHANGED <<srcVer, mailcow, row, job, threadVars, session, raced, astray>>

\* get_item of record_success and record_failure.  A row the session holds
\* already is not read again, whatever the other thread has written to it.
Lookup(r) ==
    /\ pc[r] = "lookup" /\ session[r] = "ok"
    /\ hand' = [hand EXCEPT ![r].seen = IF @ = NoRow THEN row[hand[r].item] ELSE @]
    /\ Goto(r, "write")
    /\ UNCHANGED <<srcVer, mailcow, row, job, threadVars, session, raced, astray>>

\* Mutant: a failure is written as if the attempt had gone through.
WriteDone(r) ==
    /\ pc[r] = "write"
    /\ row' = [row EXCEPT ![hand[r].item] = [status |-> "done", ver |-> hand[r].ver]]
    /\ LetGo(r)
    /\ UNCHANGED <<srcVer, mailcow, job, threadVars, session, raced, astray>>

\* The commit: an INSERT, or an UPDATE of the columns whose value differs
\* from the one the session holds.
Write(r) ==
    LET i    == hand[r].item
        seen == hand[r].seen
        want == [status |-> hand[r].goal,
                 ver    |-> IF hand[r].goal = "done" THEN hand[r].ver ELSE seen.ver]
    IN
    /\ pc[r] = "write"
    /\ seen = NoRow => row[i] = NoRow
    /\ row' = [row EXCEPT ![i] =
                 [status |-> IF seen.status # want.status THEN want.status ELSE @.status,
                  ver    |-> IF seen.ver # want.ver THEN want.ver ELSE @.ver]]
    /\ LetGo(r)
    /\ UNCHANGED <<srcVer, mailcow, job, threadVars, session, raced, astray>>

\* Mutant: the conflict is rolled back and the item tried again.
ConflictRolledBack(r) ==
    /\ pc[r] = "write" /\ hand[r].goal = "done"
    /\ hand[r].seen = NoRow /\ row[hand[r].item] # NoRow
    /\ Goto(r, "caught")
    /\ UNCHANGED <<srcVer, mailcow, row, job, threadVars, hand, session, raced, astray>>

\* uq_migration_item: the other thread inserted the row first.  Nothing
\* rolls the session back.
Conflict(r) ==
    /\ pc[r] = "write" /\ hand[r].goal = "done"
    /\ hand[r].seen = NoRow /\ row[hand[r].item] # NoRow
    /\ session' = [session EXCEPT ![r] = "broken"]
    /\ Goto(r, "caught")
    /\ UNCHANGED <<srcVer, mailcow, row, job, threadVars, hand, raced, astray>>

RecordRaises(r) ==
    /\ pc[r] = "lookup" /\ session[r] = "broken" /\ hand[r].goal = "done"
    /\ Goto(r, "caught")
    /\ UNCHANGED <<srcVer, mailcow, row, job, threadVars, hand, session, raced, astray>>

\* run is left, and its session closed.
Return(r) ==
    /\ Goto(r, "over")
    /\ todo' = [todo EXCEPT ![r] = {}]
    /\ startVer' = [startVer EXCEPT ![r] = [i \in Dav |-> 1]]
    /\ session' = [session EXCEPT ![r] = "ok"]

\* A raising record_failure leaves the item loop and fails the job.
ItemFailsJob(r) ==
    /\ hand[r].goal = "failed"
    /\ \/ pc[r] = "lookup" /\ session[r] = "broken"
       \/ pc[r] = "write" /\ hand[r].seen = NoRow /\ row[hand[r].item] # NoRow
    /\ job' = [job EXCEPT ![r] = IF @ = "running" THEN "failed" ELSE @]
    /\ Return(r)
    /\ UNCHANGED <<srcVer, mailcow, row, hand, raced, astray>>

\* Nothing left to do, or a cancellation noticed.
End(r) ==
    /\ pc[r] = "list"
    /\ todo[r] = {} \/ job[r] = "cancelled"
    /\ job' = [job EXCEPT ![r] = IF @ = "running" THEN "completed" ELSE @]
    /\ Return(r)
    /\ UNCHANGED <<srcVer, mailcow, row, hand, raced, astray>>

-----------------------------------------------------------------------------
Run(r) ==
    \/ \E i \in Items : NextItem(r, i)
    \/ Pick(r) \/ Deliver(r) \/ DeliverFails(r) \/ Retry(r) \/ GiveUp(r)
    \/ Lookup(r) \/ Write(r) \/ Conflict(r) \/ RecordRaises(r)
    \/ ItemFailsJob(r) \/ End(r)

\* No thread at work.
Quiet == (\A r \in Runs : pc[r] \in {"none", "over"}) /\ UNCHANGED vars

Next ==
    \/ \E i \in Dav : Edit(i)
    \/ \E r \in Runs : Check(r) \/ Commit(r) \/ Start(r) \/ Cancel(r) \/ Run(r)
    \/ Quiet

Spec == Init /\ [][Next]_vars

-----------------------------------------------------------------------------
(* Properties.                                                             *)

\* Every variable has its type.
TypeOK ==
    /\ srcVer \in [Dav -> 1..MaxVersion]
    /\ copies \in [Mail -> Nat] /\ davVer \in [Dav -> 0..MaxVersion]
    /\ row \in [Items -> Rows]
    /\ job \in [Runs -> {"none", "checked", "pending", "running", "completed", "failed",
                     "cancelled"}]
    /\ pc \in [Runs -> {"none", "list", "over"} \cup InHand]
    /\ todo \in [Runs -> SUBSET Items]
    /\ startVer \in [Runs -> [Dav -> 1..MaxVersion]]
    /\ hand \in [Runs -> Hands]
    /\ session \in [Runs -> {"ok", "broken"}]
    /\ raced \subseteq Runs /\ astray \subseteq Runs \X Items

Astray(i) == {r \in Runs : <<r, i>> \in astray}

\* A message is in the mailbox twice only because runs had it in hand that were
\* cancelled then, or that were created although another request had committed
\* a job after their check; and once more for each of these.
DuplicatesBounded == \A i \in Mail : copies[i] <= 1 + Cardinality(Astray(i))

\* What is recorded as done is in mailcow.  An event or contact is there in
\* the recorded version or a later one, unless a run that was cancelled with it,
\* or whose check missed another's commit, had that item in hand: its late put
\* may overwrite the newer version.
DoneIsDelivered ==
    \A i \in Items :
        row[i].status = "done" =>
            IF i \in Mail THEN copies[i] >= 1
            ELSE davVer[i] >= 1 /\ (davVer[i] >= row[i].ver \/ Astray(i) # {})

\* A job the operator let run fails on an item only when another run has recorded
\* it first: a run that was cancelled with it in hand, or any, if the job itself
\* was created next to another.  No item is lost by it.
FailsOnlyOnRecorded ==
    \A r \in Runs :
        job[r] = "failed" =>
            /\ row[hand[r].item] # NoRow
            /\ r \in raced \/ Astray(hand[r].item) \ {r} # {}

\* No message is in the mailbox twice: what has_active_job_for_mapping is there
\* to ensure, and what a job started after a cancellation gets past.
NoDuplicates == \A i \in Mail : copies[i] <= 1
=============================================================================
