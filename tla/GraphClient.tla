------------------------------ MODULE GraphClient ------------------------------
(***************************************************************************)
(* A job reads one mail folder through Microsoft Graph: the pages of the   *)
(* listing, each fetched only when the messages of the one before have     *)
(* been dealt with, and the messages one by one.  Every call is a          *)
(* graph_request, which repeats throttled requests with the token it       *)
(* started with; a message that cannot be fetched is tried again by the    *)
(* runner, a page is not.  Meanwhile the mailbox is in use.                *)
(*                                                                         *)
(* Times are seconds.  A page is what Graph makes of $top and of the       *)
(* $skip that a nextLink carries: a position, not a message.               *)
(***************************************************************************)
EXTENDS Naturals, FiniteSets, SequencesExt

CONSTANTS
    Old,             \* messages in the folder when the listing begins
    New,             \* messages that may arrive during it
    PageSize,        \* $top
    MaxRetries,      \* MAX_RETRIES of graph_request
    MaxItemRetries,  \* MAX_ITEM_RETRIES of the runner
    TokenLives,      \* what a token may have left when MSAL hands it out
    Latencies,       \* how long a response may take
    RetryAfters      \* values of the Retry-After header

ASSUME MessageAssumption ==
    IsFiniteSet(Old) /\ Old \cap New = {} /\ PageSize \in Nat \ {0}

ASSUME RetryAssumption == MaxRetries \in Nat /\ MaxItemRetries \in Nat \ {0}

ASSUME TimeAssumption ==
    TokenLives \subseteq Nat /\ Latencies \subseteq Nat /\ RetryAfters \subseteq Nat

VARIABLES
    folder,   \* Exchange: the folder, newest message first
    arrived,  \* messages of New that have come
    shifts,   \* history: messages removed from before the next page
    skip,     \* position the next page starts after
    more,     \* there is a next page
    batch,    \* messages of the last page still to be dealt with
    pc,       \* "page", "item", "send", "raised", "done", "failed"
    call,     \* what is being requested: "page" or "message"
    attempt,  \* graph_request: responses that asked for another attempt
    itemTry,  \* runner: attempts at the message, this one included
    life,     \* what the token in the header has left
    asked,    \* in this call Graph asked for longer waits than the client's own
    fetched, failed  \* messages imported, messages recorded as failed

exchange == <<folder, arrived, shifts>>
listing  == <<skip, more, batch>>
clock    == <<attempt, life, asked>>
results  == <<fetched, failed>>
vars == <<exchange, listing, pc, call, itemTry, clock, results>>

Minus(a, b) == IF a > b THEN a - b ELSE 0

Least(a, b) == IF a < b THEN a ELSE b

\* Mutant: the cap is taken from below.
BackoffCap(n) == IF 2^n > 60 THEN 2^n ELSE 60

Backoff(n) == Least(2^n, 60)

Init ==
    /\ folder = SetToSeq(Old) /\ arrived = {} /\ shifts = 0
    /\ skip = 0 /\ more = TRUE /\ batch = << >>
    /\ pc = "page" /\ call = "page" /\ itemTry = 0
    /\ attempt = 0 /\ life = 0 /\ asked = FALSE
    /\ fetched = {} /\ failed = {}

-----------------------------------------------------------------------------
(* The mailbox in use.                                                     *)

Arrive(m) ==
    /\ m \notin arrived
    /\ arrived' = arrived \cup {m}
    /\ folder' = << m >> \o folder
    /\ UNCHANGED <<shifts, listing, pc, call, itemTry, clock, results>>

\* Deleted, or moved to another folder.
Vanish(k) ==
    /\ k \in DOMAIN folder
    /\ folder' = RemoveAt(folder, k)
    /\ shifts' = IF k <= skip THEN shifts + 1 ELSE shifts
    /\ UNCHANGED <<arrived, listing, pc, call, itemTry, clock, results>>

-----------------------------------------------------------------------------
(* One call: _token, then graph_request.                                   *)

\* MSAL's cached token, or a new one.
Begin(what) ==
    /\ pc' = "send" /\ call' = what /\ attempt' = 0
    /\ life' \in TokenLives
    /\ asked' = FALSE

\* The call has returned or raised; its locals are gone.
EndCall == attempt' = 0 /\ life' = 0 /\ asked' = FALSE

MayRetry(n) == n <= MaxRetries

\* 429 or 5xx without Retry-After, and an attempt is left.  The jitter of less
\* than a second counts as one.
BackOff ==
    LET n == attempt + 1 IN
    /\ pc = "send" /\ MayRetry(n)
    /\ attempt' = n
    /\ \E s \in Latencies : life' = Minus(life, s + Backoff(n) + 1)
    /\ UNCHANGED <<exchange, listing, pc, call, itemTry, asked, results>>

\* The same with a Retry-After in seconds, which is slept in full.
WaitAsTold ==
    LET n == attempt + 1 IN
    /\ pc = "send" /\ MayRetry(n)
    /\ attempt' = n
    /\ \E s \in Latencies, r \in RetryAfters :
         /\ life' = Minus(life, s + r)
         /\ asked' = (asked \/ r > Backoff(n))
    /\ UNCHANGED <<exchange, listing, pc, call, itemTry, results>>

\* Whatever else makes the call raise: a 401 for an expired token, a
\* Retry-After that is a date and no number, any other error status, no
\* response at all; for a message, an append that raises as well.
CallRaises ==
    /\ pc = "send"
    /\ pc' = "raised" /\ EndCall
    /\ UNCHANGED <<exchange, listing, call, itemTry, results>>

\* The last attempt is refused too; its Retry-After is not looked at.
GiveUp ==
    /\ pc = "send" /\ ~MayRetry(attempt + 1)
    /\ pc' = "raised" /\ EndCall
    /\ UNCHANGED <<exchange, listing, call, itemTry, results>>

-----------------------------------------------------------------------------
(* The listing.                                                            *)

GetPage ==
    /\ pc = "page"
    /\ Begin("page")
    /\ UNCHANGED <<exchange, listing, itemTry, results>>

\* Mutant: the parameters of the first request go with the nextLink, and
\* with them its $skip is lost.
PageArrivesAgain ==
    /\ pc = "send" /\ call = "page" /\ life > 0
    /\ batch' = SubSeq(folder, 1, Least(PageSize, Len(folder)))
    /\ skip' = PageSize
    /\ more' = (Len(folder) > PageSize)
    /\ pc' = "item" /\ EndCall
    /\ UNCHANGED <<exchange, call, itemTry, results>>

PageArrives ==
    LET end == skip + PageSize IN
    /\ pc = "send" /\ call = "page" /\ life > 0
    /\ batch' = SubSeq(folder, skip + 1, Least(end, Len(folder)))
    /\ skip' = end
    /\ more' = (Len(folder) > end)
    /\ pc' = "item" /\ EndCall
    /\ UNCHANGED <<exchange, call, itemTry, results>>

\* Mutant: the iterator ends where a page cannot be fetched.
PageMissing ==
    /\ pc = "raised" /\ call = "page"
    /\ more' = FALSE /\ pc' = "item"
    /\ UNCHANGED <<exchange, skip, batch, call, itemTry, clock, results>>

\* The exception leaves _migrate_mail and fails the job.
PageRaises ==
    /\ pc = "raised" /\ call = "page"
    /\ pc' = "failed"
    /\ UNCHANGED <<exchange, listing, call, itemTry, clock, results>>

Message == Head(batch)

\* Listed a second time, behind messages that have arrived meanwhile.
SkipItem ==
    /\ pc = "item" /\ batch # << >> /\ Message \in fetched
    /\ batch' = Tail(batch)
    /\ UNCHANGED <<exchange, skip, more, pc, call, itemTry, clock, results>>

GetMessage ==
    /\ pc = "item" /\ batch # << >> /\ Message \notin fetched
    /\ Begin("message") /\ itemTry' = 1
    /\ UNCHANGED <<exchange, listing, results>>

MessageArrives ==
    /\ pc = "send" /\ call = "message" /\ life > 0 /\ Message \in Range(folder)
    /\ fetched' = fetched \cup {Message} /\ failed' = failed \ {Message}
    /\ batch' = Tail(batch)
    /\ pc' = "item" /\ itemTry' = 0 /\ EndCall
    /\ UNCHANGED <<exchange, skip, more, call>>

\* A new call, with a token of its own and no memory of what Graph asked for.
RetryMessage ==
    /\ pc = "raised" /\ call = "message" /\ itemTry < MaxItemRetries
    /\ Begin("message") /\ itemTry' = itemTry + 1
    /\ UNCHANGED <<exchange, listing, results>>

MessageFails ==
    /\ pc = "raised" /\ call = "message" /\ itemTry = MaxItemRetries
    /\ failed' = failed \cup {Message}
    /\ batch' = Tail(batch)
    /\ pc' = "item" /\ itemTry' = 0
    /\ UNCHANGED <<exchange, skip, more, call, clock, fetched>>

PageDone ==
    /\ pc = "item" /\ batch = << >>
    /\ pc' = IF more THEN "page" ELSE "done"
    /\ UNCHANGED <<exchange, listing, call, itemTry, clock, results>>

-----------------------------------------------------------------------------
Client ==
    \/ BackOff \/ WaitAsTold \/ CallRaises \/ GiveUp
    \/ GetPage \/ PageArrives \/ PageRaises
    \/ SkipItem \/ GetMessage \/ MessageArrives \/ RetryMessage \/ MessageFails
    \/ PageDone

\* The folder is read.
Over == pc \in {"done", "failed"} /\ UNCHANGED vars

Next ==
    \/ Client \/ Over
    \/ \E m \in New : Arrive(m)
    \/ \E k \in 1..Cardinality(Old \cup New) : Vanish(k)

\* Every request is answered or raises, and every sleep ends.
Spec == Init /\ [][Next]_vars /\ WF_vars(Client)

-----------------------------------------------------------------------------
(* Properties.                                                             *)

\* The token in the header outlives the attempts of a call: it is never sent
\* expired, unless Graph asked for longer waits than the client's own.
TokenOutlivesBackoff == pc = "send" /\ life = 0 => asked

\* When the listing has come to its end, each message that was in the folder
\* all the time has been imported or recorded as failed, but for one message
\* for each that was removed from before the next page.
MissedOnlyByShift ==
    LET missed == {m \in Old : m \in Range(folder) /\ m \notin fetched \cup failed}
    IN pc = "done" => Cardinality(missed) <= shifts

\* The listing comes to an end, whatever arrives meanwhile.
ListingEnds == <>(pc \in {"done", "failed"})
=============================================================================
