--------------------------- MODULE GraphClientProofs ---------------------------
(***************************************************************************)
(* Theorems about GraphClient, for any folder, any page size and any       *)
(* traffic in the mailbox while it is read.                                *)
(***************************************************************************)
EXTENDS GraphClient, FiniteSetTheorems, SequenceTheorems, TLAPS

-----------------------------------------------------------------------------
(* The token.                                                              *)

\* What the client itself waits in n attempts: 2 + 4 + ... + 2^n seconds, and a
\* second of jitter in each.
Waits(n) == 2^(n + 1) - 2 + n

LEMMA BackoffAddsUp ==
    \A n \in 0..4 :
        /\ Backoff(n + 1) \in Nat /\ Waits(n) \in Nat /\ Waits(n + 1) \in Nat
        /\ Waits(n + 1) = Waits(n) + Backoff(n + 1) + 1
        /\ Waits(n) <= 67 /\ Waits(n + 1) <= 67
<1>1. /\ Waits(0) = 0 /\ Waits(1) = 3 /\ Waits(2) = 8
      /\ Waits(3) = 17 /\ Waits(4) = 34 /\ Waits(5) = 67
  BY DEF Waits
<1>2. /\ Backoff(1) = 2 /\ Backoff(2) = 4 /\ Backoff(3) = 8
      /\ Backoff(4) = 16 /\ Backoff(5) = 32
  BY DEF Backoff, Least
<1> SUFFICES ASSUME NEW n \in 0..4
             PROVE  /\ Backoff(n + 1) \in Nat /\ Waits(n) \in Nat /\ Waits(n + 1) \in Nat
                    /\ Waits(n + 1) = Waits(n) + Backoff(n + 1) + 1
                    /\ Waits(n) <= 67 /\ Waits(n + 1) <= 67
  OBVIOUS
<1>3. n = 0 \/ n = 1 \/ n = 2 \/ n = 3 \/ n = 4
  OBVIOUS
<1> QED
  BY <1>1, <1>2, <1>3

\* One more attempt, which takes no longer than s + r: what is left, what the
\* attempts have taken and what the client has waited still make up the whole.
LEMMA AttemptAddsUp ==
    ASSUME NEW before \in Nat, NEW after \in Nat, NEW s \in Nat, NEW r \in Nat,
           NEW sofar \in Nat, NEW w \in Nat, NEW b \in Nat,
           NEW left \in Nat, NEW longest \in Nat,
           before + sofar + w >= left, after + s + r >= before,
           s <= longest, r <= b + 1
    PROVE  after + (sofar + longest) + (w + b + 1) >= left
OBVIOUS

\* After n attempts the token has lost n answers of the longest kind and the
\* client's own waits, or Graph had asked for more.
TokenInv(left, longest) ==
    /\ asked \in BOOLEAN
    /\ pc = "send" =>
         /\ attempt \in 0..5 /\ life \in Nat
         /\ asked \/ life + attempt * longest + Waits(attempt) >= left

\* TokenOutlivesBackoff, for the five attempts the code makes: a token that lasts
\* longer than five answers and 67 seconds is not sent expired on account of
\* the client's own waits.
THEOREM TokenLastsForCall ==
    ASSUME MaxRetries = 5,
           NEW left \in Nat, NEW longest \in Nat,
           \A life0 \in TokenLives : life0 >= left,
           \A s \in Latencies : s <= longest,
           left > 5 * longest + 67
    PROVE  Spec => []TokenOutlivesBackoff
<1> DEFINE Inv == TokenInv(left, longest)
<1> USE TimeAssumption
<1>1. Waits(0) = 0
  BY DEF Waits
<1>2. Init => Inv
  BY DEF Init, TokenInv
<1>3. ASSUME NEW what, Begin(what) PROVE Inv'
  <2>1. attempt' = 0 /\ life' \in TokenLives /\ asked' = FALSE
    BY <1>3 DEF Begin
  <2>2. life' \in Nat /\ life' >= left
    BY <2>1
  <2>3. attempt' * longest = 0 /\ Waits(attempt') = 0
    BY <1>1, <2>1
  <2>4. life' + attempt' * longest + Waits(attempt') >= left
    BY ONLY <2>2, <2>3, left \in Nat
  <2>5. attempt' \in 0..5
    BY <2>1
  <2>6. asked' \in BOOLEAN
    BY <2>1
  <2> QED
    BY <2>2, <2>4, <2>5, <2>6 DEF TokenInv
<1> DEFINE w == Waits(attempt)
           b == Backoff(attempt + 1)
           sofar == attempt * longest
<1>4. ASSUME Inv, attempt \in 0..4, pc = "send", attempt' = attempt + 1, pc' = "send",
             asked' \in BOOLEAN, asked => asked',
             NEW s \in Latencies, NEW r \in Nat, life' = Minus(life, s + r),
             ~asked' => r <= b + 1
      PROVE  Inv'
  <2>1. life \in Nat
    BY <1>4 DEF TokenInv
  <2>2. w \in Nat /\ b \in Nat /\ Waits(attempt') = w + b + 1
    BY <1>4, BackoffAddsUp
  <2>3. attempt' * longest = sofar + longest /\ sofar \in Nat
    BY <1>4
  <2>4. s \in Nat /\ s <= longest
    BY <1>4
  <2>5. life' \in Nat /\ life' + s + r >= life
    BY <1>4, <2>1, <2>4 DEF Minus
  <2>6. ASSUME ~asked'
        PROVE  life' + attempt' * longest + Waits(attempt') >= left
    <3>1. life + sofar + w >= left
      BY <1>4, <2>6 DEF TokenInv
    <3>2. r <= b + 1 /\ r \in Nat
      BY <1>4, <2>6
    <3> HIDE DEF w, b, sofar
    <3>3. w \in Nat /\ b \in Nat /\ sofar \in Nat
      BY <2>2, <2>3
    <3>4. life' + (sofar + longest) + (w + b + 1) >= left
      BY <2>1, <2>4, <2>5, <3>1, <3>2, <3>3, AttemptAddsUp
    <3> QED
      BY ONLY <2>2, <2>3, <3>4
  <2>7. attempt' \in 0..5
    BY <1>4
  <2> QED
    BY <1>4, <2>5, <2>6, <2>7 DEF TokenInv
<1>5. ASSUME Inv, BackOff \/ WaitAsTold PROVE Inv'
  <2>1. /\ attempt \in 0..4 /\ pc = "send" /\ attempt' = attempt + 1 /\ pc' = "send"
    BY <1>5, RetryAssumption DEF BackOff, WaitAsTold, MayRetry, TokenInv
  <2>2. b \in Nat
    BY <2>1, BackoffAddsUp
  <2>3. CASE BackOff
    <3>1. PICK s \in Latencies : life' = Minus(life, s + b + 1)
      BY <2>3 DEF BackOff
    <3>2. asked' = asked /\ asked \in BOOLEAN
      BY <1>5, <2>3 DEF BackOff, TokenInv
    <3> HIDE DEF b
    <3>3. s + b + 1 = s + (b + 1) /\ b + 1 \in Nat /\ b + 1 <= b + 1
      BY <2>2, <3>1
    <3> QED
      BY <1>4, <1>5, <2>1, <3>1, <3>2, <3>3
  <2>4. CASE WaitAsTold
    <3>1. PICK s \in Latencies, r \in RetryAfters :
            life' = Minus(life, s + r) /\ asked' = (asked \/ r > b)
      BY <2>4 DEF WaitAsTold
    <3>2. asked' \in BOOLEAN /\ (asked => asked')
      BY <1>5, <3>1 DEF TokenInv
    <3>3. ~asked' => ~(r > b)
      BY <3>1
    <3> HIDE DEF b
    <3>4. r \in Nat /\ (~(r > b) => r <= b + 1)
      BY <2>2, <3>1
    <3> QED
      BY <1>4, <1>5, <2>1, <3>1, <3>2, <3>3, <3>4
  <2> QED
    BY <1>5, <2>3, <2>4
<1>6. ASSUME pc' # "send", asked' = asked \/ asked' = FALSE, Inv PROVE Inv'
  BY <1>6 DEF TokenInv
<1>7. Inv /\ UNCHANGED <<pc, clock>> => Inv'
  BY DEF TokenInv, clock
<1>8. Inv /\ [Next]_vars => Inv'
  <2> SUFFICES ASSUME Inv, [Next]_vars PROVE Inv'
    OBVIOUS
  <2> HIDE DEF Inv
  <2>1. CASE GetPage \/ GetMessage \/ RetryMessage
    BY <1>3, <2>1 DEF GetPage, GetMessage, RetryMessage
  <2>2. CASE CallRaises \/ GiveUp \/ PageArrives \/ MessageArrives
    BY <1>6, <2>2 DEF CallRaises, GiveUp, PageArrives, MessageArrives, EndCall
  <2>3. CASE PageRaises \/ MessageFails \/ PageDone
    BY <1>6, <2>3 DEF PageRaises, MessageFails, PageDone, clock
  <2>4. CASE SkipItem \/ Over \/ UNCHANGED vars
    BY <1>7, <2>4 DEF SkipItem, Over, vars
  <2>5. ASSUME NEW m \in New, Arrive(m) PROVE Inv'
    BY <1>7, <2>5 DEF Arrive
  <2>6. ASSUME NEW k, Vanish(k) PROVE Inv'
    BY <1>7, <2>6 DEF Vanish
  <2> QED
    BY <1>5, <2>1, <2>2, <2>3, <2>4, <2>5, <2>6 DEF Next, Client
<1>9. Inv => TokenOutlivesBackoff
  <2> SUFFICES ASSUME Inv, pc = "send", life = 0, ~asked PROVE FALSE
    BY DEF TokenOutlivesBackoff
  <2>1. attempt \in 0..5 /\ life + attempt * longest + Waits(attempt) >= left
    BY DEF TokenInv
  <2>2. Waits(attempt) <= 67 /\ Waits(attempt) \in Nat
    <3>1. Waits(5) = 67
      BY DEF Waits
    <3> QED
      BY <2>1, <3>1, BackoffAddsUp
  <2>3. attempt * longest <= 5 * longest /\ attempt * longest \in Nat
    BY <2>1
  <2> QED
    BY <2>1, <2>2, <2>3
<1> QED
  BY <1>2, <1>8, <1>9, PTL DEF Spec

-----------------------------------------------------------------------------
(* The folder and the batch as sequences.                                  *)

Messages == Old \cup New

LEMMA RangeIs ==
    ASSUME NEW S, NEW s \in Seq(S)
    PROVE  /\ Len(s) \in Nat /\ DOMAIN s = 1..Len(s)
           /\ \A x : x \in Range(s) <=> \E k \in 1..Len(s) : s[k] = x
<1>1. Len(s) \in Nat /\ DOMAIN s = 1..Len(s)
  BY LenProperties
<1> QED
  BY <1>1 DEF Range

LEMMA PrependFacts ==
    ASSUME NEW S, NEW s \in Seq(S), NEW x \in S
    PROVE  /\ << x >> \o s \in Seq(S) /\ Len(<< x >> \o s) = Len(s) + 1
           /\ (<< x >> \o s)[1] = x
           /\ \A k \in 2..Len(s) + 1 : (<< x >> \o s)[k] = s[k - 1]
<1>1. << x >> \in Seq(S) /\ Len(<< x >>) = 1 /\ << x >>[1] = x
  OBVIOUS
<1>2. Len(s) \in Nat
  BY LenProperties
<1>3. /\ << x >> \o s \in Seq(S) /\ Len(<< x >> \o s) = Len(<< x >>) + Len(s)
      /\ \A i \in 1..Len(<< x >>) + Len(s) : (<< x >> \o s)[i] =
           IF i <= Len(<< x >>) THEN << x >>[i] ELSE s[i - Len(<< x >>)]
  BY ONLY <1>1, ConcatProperties
<1> DEFINE t == << x >> \o s
<1>4. /\ t \in Seq(S) /\ Len(t) = 1 + Len(s)
      /\ \A i \in 1..1 + Len(s) : t[i] = IF i <= 1 THEN << x >>[i] ELSE s[i - 1]
  BY <1>1, <1>3
<1> HIDE DEF t
<1>5. t[1] = x
  BY <1>1, <1>2, <1>4
<1>6. \A k \in 2..Len(s) + 1 : t[k] = s[k - 1]
  BY <1>2, <1>4
<1> QED
  BY <1>2, <1>4, <1>5, <1>6 DEF t

LEMMA RemoveFacts ==
    ASSUME NEW S, NEW s \in Seq(S), NEW k \in 1..Len(s)
    PROVE  /\ RemoveAt(s, k) \in Seq(S) /\ Len(RemoveAt(s, k)) = Len(s) - 1
           /\ \A i \in 1..Len(s) - 1 :
                RemoveAt(s, k)[i] = IF i < k THEN s[i] ELSE s[i + 1]
<1> DEFINE a == SubSeq(s, 1, k - 1)
           b == SubSeq(s, k + 1, Len(s))
           n == Len(s)
<1>1. n \in Nat /\ k \in Nat /\ 1 <= k /\ k <= n /\ \A i \in 1..n : s[i] \in S
  BY LenProperties, ElementOfSeq
<1>2. a \in Seq(S) /\ Len(a) = k - 1 /\ \A i \in 1..k - 1 : a[i] = s[i]
  <2>1. \A i \in 1..k - 1 : s[i] \in S
    BY <1>1
  <2>2. /\ a \in Seq(S) /\ Len(a) = IF 1 <= k - 1 THEN k - 1 - 1 + 1 ELSE 0
        /\ \A i \in 1..k - 1 - 1 + 1 : a[i] = s[1 + i - 1]
    BY <1>1, <2>1, SubSeqProperties
  <2> HIDE DEF a
  <2> QED
    BY <1>1, <2>2
<1>3. b \in Seq(S) /\ Len(b) = n - k /\ \A i \in 1..n - k : b[i] = s[k + i]
  <2>1. \A i \in k + 1..n : s[i] \in S
    BY <1>1
  <2>2. /\ b \in Seq(S) /\ Len(b) = IF k + 1 <= n THEN n - (k + 1) + 1 ELSE 0
        /\ \A i \in 1..n - (k + 1) + 1 : b[i] = s[k + 1 + i - 1]
    BY <1>1, <2>1, SubSeqProperties
  <2> HIDE DEF b, n
  <2> QED
    BY <1>1, <2>2
<1>4. /\ a \o b \in Seq(S) /\ Len(a \o b) = Len(a) + Len(b)
      /\ \A i \in 1..Len(a) + Len(b) : (a \o b)[i] = IF i <= Len(a) THEN a[i] ELSE b[i - Len(a)]
  <2> HIDE DEF a, b
  <2> QED
    BY <1>2, <1>3, ConcatProperties
<1> DEFINE t == a \o b
<1>5. RemoveAt(s, k) = t
  BY DEF RemoveAt
<1>6. /\ t \in Seq(S) /\ Len(t) = n - 1
      /\ \A i \in 1..n - 1 : t[i] = IF i < k THEN s[i] ELSE s[i + 1]
  <2> HIDE DEF a, b, n
  <2>1. Len(a) + Len(b) = n - 1
    BY <1>1, <1>2, <1>3
  <2>2. ASSUME NEW i \in 1..n - 1 PROVE t[i] = IF i < k THEN s[i] ELSE s[i + 1]
    <3>1. t[i] = IF i <= k - 1 THEN a[i] ELSE b[i - (k - 1)]
      BY <1>2, <1>4, <2>1
    <3> HIDE DEF t
    <3>2. CASE i <= k - 1
      <4>1. i \in 1..k - 1 /\ i < k
        BY <1>1, <3>2
      <4> QED
        BY <1>2, <3>1, <3>2, <4>1
    <3>3. CASE ~(i <= k - 1)
      <4>1. i - (k - 1) \in 1..n - k /\ k + (i - (k - 1)) = i + 1 /\ ~(i < k)
        BY <1>1, <3>3
      <4>2. b[i - (k - 1)] = s[k + (i - (k - 1))]
        BY <1>3, <4>1
      <4> QED
        BY <3>1, <3>3, <4>1, <4>2
    <3> QED
      BY <3>2, <3>3
  <2> QED
    BY <1>4, <2>1, <2>2
<1> QED
  BY <1>5, <1>6

LEMMA SliceFacts ==
    ASSUME NEW S, NEW s \in Seq(S), NEW from \in Nat, NEW to \in Nat, to <= Len(s)
    PROVE  /\ SubSeq(s, from + 1, to) \in Seq(S)
           /\ \A k \in from + 1..to : s[k] \in Range(SubSeq(s, from + 1, to))
<1> DEFINE t == SubSeq(s, from + 1, to)
<1>1. \A i \in from + 1..to : s[i] \in S
  BY ElementOfSeq, LenProperties
<1>2. /\ t \in Seq(S) /\ Len(t) = IF from + 1 <= to THEN to - (from + 1) + 1 ELSE 0
      /\ \A i \in 1..to - (from + 1) + 1 : t[i] = s[from + 1 + i - 1]
  BY <1>1, SubSeqProperties
<1> HIDE DEF t
<1>3. ASSUME NEW k \in from + 1..to PROVE s[k] \in Range(t)
  <2>1. k - from \in 1..Len(t) /\ k - from \in 1..to - (from + 1) + 1
        /\ from + 1 + (k - from) - 1 = k
    BY <1>2
  <2>2. t[k - from] = s[k]
    BY <1>2, <2>1
  <2> QED
    BY <1>2, <2>1, <2>2, RangeIs
<1> QED
  BY <1>2, <1>3 DEF t

LEMMA TailFacts ==
    ASSUME NEW S, NEW s \in Seq(S), s # << >>
    PROVE  /\ Tail(s) \in Seq(S)
           /\ \A x : x \in Range(s) => x = Head(s) \/ x \in Range(Tail(s))
<1>1. /\ Tail(s) \in Seq(S) /\ Len(Tail(s)) = Len(s) - 1
      /\ \A i \in 1..Len(Tail(s)) : Tail(s)[i] = s[i + 1]
  BY HeadTailProperties
<1>2. Head(s) = s[1] /\ Len(s) \in Nat
  BY LenProperties
<1>3. ASSUME NEW x, NEW k \in 1..Len(s), s[k] = x, k # 1 PROVE x \in Range(Tail(s))
  <2> DEFINE t == Tail(s)
  <2>1. t \in Seq(S) /\ Len(t) = Len(s) - 1 /\ \A i \in 1..Len(t) : t[i] = s[i + 1]
    BY <1>1
  <2> HIDE DEF t
  <2>2. k - 1 \in 1..Len(t) /\ k - 1 + 1 = k
    BY <1>2, <1>3, <2>1
  <2>3. t[k - 1] = x
    BY <1>3, <2>1, <2>2
  <2>4. x \in Range(t)
    BY <2>1, <2>2, <2>3, RangeIs
  <2> QED
    BY <2>4 DEF t
<1> QED
  BY <1>1, <1>2, <1>3, RangeIs

\* The folder starts as some arrangement of the old messages.
LEMMA SetToSeqType ==
    ASSUME NEW S, IsFiniteSet(S)
    PROVE  SetToSeq(S) \in Seq(S)
<1>1. Cardinality(S) \in Nat /\ ExistsBijection(1..Cardinality(S), S)
  BY FS_CardinalityType
<1>2. \E f \in [1..Cardinality(S) -> S] : IsInjective(f)
  BY <1>1 DEF ExistsBijection, Bijection, Injection
<1>3. SetToSeq(S) \in [1..Cardinality(S) -> S]
  BY <1>2 DEF SetToSeq
<1> QED
  BY <1>1, <1>3

-----------------------------------------------------------------------------
(* What a listing misses.                                                  *)

\* A page is asked for when the one before is done with and there is another; a
\* message stays in the batch until something is known of it.
ListingInv ==
    /\ folder \in Seq(Messages) /\ batch \in Seq(Messages)
    /\ skip \in Nat /\ shifts \in Nat /\ more \in BOOLEAN
    /\ pc = "page" \/ (call = "page" /\ pc \in {"send", "raised"}) =>
         batch = << >> /\ more
    /\ call = "message" /\ pc \in {"send", "raised"} => batch # << >>
    /\ pc = "done" => batch = << >> /\ ~more

\* Messages that have been there all the time, and of which nothing is known.
Unseen ==
    {m \in Old : m \in Range(folder) /\ m \notin fetched \cup failed /\ m \notin Range(batch)}

\* Those that no later page will bring: they stand before it, or there is none.
Missed == {m \in Unseen : more => \E k \in DOMAIN folder : k <= skip /\ folder[k] = m}

MissedInv == Cardinality(Missed) <= shifts

LEMMA ListingStep == ListingInv /\ [Next]_vars => ListingInv'
<1> SUFFICES ASSUME ListingInv, [Next]_vars PROVE ListingInv'
  OBVIOUS
<1>1. folder \in Seq(Messages) /\ batch \in Seq(Messages)
  BY DEF ListingInv
<1>2. ASSUME NEW m \in New, Arrive(m) PROVE ListingInv'
  <2>1. folder' \in Seq(Messages)
    <3>1. m \in Messages
      BY DEF Messages
    <3>2. << m >> \o folder \in Seq(Messages)
      BY <1>1, <3>1, PrependFacts
    <3> QED
      BY <1>2, <3>2 DEF Arrive
  <2> QED
    BY <1>2, <2>1 DEF Arrive, ListingInv, listing
<1>3. ASSUME NEW k, Vanish(k) PROVE ListingInv'
  <2>1. k \in 1..Len(folder)
    BY <1>1, <1>3, LenProperties DEF Vanish
  <2>2. RemoveAt(folder, k) \in Seq(Messages)
    BY <1>1, <2>1, RemoveFacts
  <2>3. folder' \in Seq(Messages) /\ shifts' \in Nat
    BY <1>3, <2>2 DEF Vanish, ListingInv
  <2> QED
    BY <1>3, <2>3 DEF Vanish, ListingInv, listing
<1>4. ASSUME BackOff \/ WaitAsTold \/ Over \/ UNCHANGED vars PROVE ListingInv'
  BY <1>4 DEF BackOff, WaitAsTold, Over, vars, ListingInv, exchange, listing
<1>5. ASSUME CallRaises \/ GiveUp PROVE ListingInv'
  BY <1>5 DEF CallRaises, GiveUp, ListingInv, exchange, listing
<1>6. ASSUME GetPage \/ GetMessage \/ RetryMessage PROVE ListingInv'
  BY <1>6 DEF GetPage, GetMessage, RetryMessage, Begin, ListingInv, exchange, listing
<1>7. ASSUME PageArrives PROVE ListingInv'
  <2> DEFINE to == Least(skip + PageSize, Len(folder))
  <2>1. skip \in Nat /\ PageSize \in Nat /\ Len(folder) \in Nat
    BY <1>1, MessageAssumption, LenProperties DEF ListingInv
  <2>2. to \in Nat /\ to <= Len(folder)
    BY <2>1 DEF Least
  <2>3. SubSeq(folder, skip + 1, to) \in Seq(Messages)
    <3> HIDE DEF to
    <3> QED
      BY <1>1, <2>1, <2>2, SliceFacts
  <2>4. batch' \in Seq(Messages) /\ skip' \in Nat /\ more' \in BOOLEAN
    <3>1. batch' = SubSeq(folder, skip + 1, to)
      BY <1>7 DEF PageArrives
    <3>2. skip' \in Nat
      BY <1>7, <2>1 DEF PageArrives
    <3>3. more' \in BOOLEAN
      BY <1>7 DEF PageArrives
    <3> QED
      BY <2>3, <3>1, <3>2, <3>3
  <2> QED
    BY <1>7, <2>4 DEF PageArrives, ListingInv, exchange
<1>8. ASSUME PageRaises PROVE ListingInv'
  BY <1>8 DEF PageRaises, ListingInv, exchange, listing
<1>9. ASSUME SkipItem \/ MessageArrives \/ MessageFails PROVE ListingInv'
  <2>1. batch # << >> /\ batch' = Tail(batch) /\ pc' = "item"
    BY <1>9 DEF SkipItem, MessageArrives, MessageFails, ListingInv
  <2>2. batch' \in Seq(Messages)
    BY <1>1, <2>1, TailFacts
  <2>3. UNCHANGED <<folder, shifts, skip, more>>
    BY <1>9 DEF SkipItem, MessageArrives, MessageFails, exchange
  <2> QED
    BY <2>1, <2>2, <2>3 DEF ListingInv
<1>10. ASSUME PageDone PROVE ListingInv'
  <2>1. batch = << >> /\ pc' = (IF more THEN "page" ELSE "done")
        /\ UNCHANGED <<folder, shifts, skip, more, batch, call>>
    BY <1>10 DEF PageDone, exchange, listing
  <2> QED
    BY <2>1 DEF ListingInv
<1> QED
  BY <1>2, <1>3, <1>4, <1>5, <1>6, <1>7, <1>8, <1>9, <1>10 DEF Next, Client

LEMMA MissedFinite == IsFiniteSet(Missed) /\ Cardinality(Missed) \in Nat
<1>1. Missed \subseteq Old
  BY DEF Missed, Unseen
<1>2. IsFiniteSet(Missed)
  BY <1>1, MessageAssumption, FS_Subset
<1> QED
  BY <1>2, FS_CardinalityType

\* No message is missed that was not before.
LEMMA NoMoreMissed ==
    ASSUME ListingInv, MissedInv, Missed' \subseteq Missed, shifts' = shifts
    PROVE  MissedInv'
<1>1. IsFiniteSet(Missed')
  BY MissedFinite, FS_Subset
<1>2. Cardinality(Missed') <= Cardinality(Missed) /\ Cardinality(Missed') \in Nat
  BY <1>1, MissedFinite, FS_Subset, FS_CardinalityType
<1>3. Cardinality(Missed) <= shifts /\ shifts \in Nat
  BY DEF MissedInv, ListingInv
<1> QED
  BY <1>2, <1>3, MissedFinite DEF MissedInv

LEMMA OneMoreMissed ==
    ASSUME ListingInv, MissedInv, NEW x, Missed' \subseteq Missed \cup {x}, shifts' = shifts + 1
    PROVE  MissedInv'
<1>1. /\ IsFiniteSet(Missed \cup {x})
      /\ Cardinality(Missed \cup {x}) <= Cardinality(Missed) + 1
      /\ Cardinality(Missed \cup {x}) \in Nat
  <2> DEFINE all == Missed \cup {x}
  <2>1. /\ IsFiniteSet(all)
        /\ Cardinality(all) = IF x \in Missed THEN Cardinality(Missed) ELSE Cardinality(Missed) + 1
    BY MissedFinite, FS_AddElement
  <2> HIDE DEF all
  <2>2. Cardinality(all) \in Nat /\ Cardinality(all) <= Cardinality(Missed) + 1
    BY <2>1, MissedFinite
  <2> QED
    BY <2>1, <2>2 DEF all
<1>2. Cardinality(Missed') <= Cardinality(Missed \cup {x}) /\ Cardinality(Missed') \in Nat
  BY <1>1, FS_Subset, FS_CardinalityType
<1>3. Cardinality(Missed) <= shifts /\ shifts \in Nat
  BY DEF MissedInv, ListingInv
<1> QED
  BY <1>1, <1>2, <1>3, MissedFinite DEF MissedInv

\* A new message moves the others away from the pages that have been read.
LEMMA ArriveMisses ==
    ASSUME ListingInv, NEW m \in New, Arrive(m)
    PROVE  Missed' \subseteq Missed
<1>1. folder \in Seq(Messages) /\ m \in Messages /\ skip \in Nat
  BY DEF ListingInv, Messages
<1>2. folder' = << m >> \o folder /\ UNCHANGED <<shifts, skip, more, batch, fetched, failed>>
  BY DEF Arrive, listing, results
<1>3. /\ folder' \in Seq(Messages) /\ Len(folder') = Len(folder) + 1 /\ folder'[1] = m
      /\ \A k \in 2..Len(folder) + 1 : folder'[k] = folder[k - 1]
  BY <1>1, <1>2, PrependFacts
<1>4. Len(folder) \in Nat /\ DOMAIN folder = 1..Len(folder)
      /\ DOMAIN folder' = 1..Len(folder) + 1
  BY <1>1, <1>3, LenProperties
<1>5. ASSUME NEW x \in Old, NEW k \in DOMAIN folder', folder'[k] = x
      PROVE  k - 1 \in DOMAIN folder /\ folder[k - 1] = x /\ k - 1 <= k
  <2>1. k # 1
    BY <1>3, <1>5, MessageAssumption
  <2> QED
    BY <1>3, <1>4, <1>5, <2>1
<1>6. ASSUME NEW x \in Missed' PROVE x \in Missed
  <2>1. /\ x \in Old /\ x \in Range(folder') /\ x \notin fetched \cup failed
        /\ x \notin Range(batch)
        /\ more => \E k \in DOMAIN folder' : k <= skip /\ folder'[k] = x
    BY <1>2, <1>6 DEF Missed, Unseen
  <2>2. x \in Range(folder)
    BY <1>5, <2>1 DEF Range
  <2>3. ASSUME more PROVE \E k \in DOMAIN folder : k <= skip /\ folder[k] = x
    <3>1. PICK k \in DOMAIN folder' : k <= skip /\ folder'[k] = x
      BY <2>1, <2>3
    <3>2. k - 1 \in DOMAIN folder /\ folder[k - 1] = x /\ k - 1 <= skip
      BY <1>1, <1>4, <1>5, <2>1, <3>1
    <3> QED
      BY <3>2
  <2> QED
    BY <2>1, <2>2, <2>3 DEF Missed, Unseen
<1> QED
  BY <1>6

\* A message that goes from before the next page draws one message over the edge.
LEMMA VanishMisses ==
    ASSUME ListingInv, MissedInv, NEW k, Vanish(k)
    PROVE  MissedInv'
<1>1. folder \in Seq(Messages) /\ skip \in Nat
  BY DEF ListingInv
<1>2. /\ k \in DOMAIN folder /\ folder' = RemoveAt(folder, k)
      /\ shifts' = (IF k <= skip THEN shifts + 1 ELSE shifts)
      /\ UNCHANGED <<skip, more, batch, fetched, failed>>
  BY DEF Vanish, listing, results
<1>3. Len(folder) \in Nat /\ DOMAIN folder = 1..Len(folder) /\ k \in 1..Len(folder)
  BY <1>1, <1>2, LenProperties
<1>4. /\ folder' \in Seq(Messages) /\ Len(folder') = Len(folder) - 1
      /\ \A i \in 1..Len(folder) - 1 :
           folder'[i] = IF i < k THEN folder[i] ELSE folder[i + 1]
  BY <1>1, <1>2, <1>3, RemoveFacts
<1>5. DOMAIN folder' = 1..Len(folder) - 1
  BY <1>4, LenProperties
<1>6. ASSUME NEW i \in DOMAIN folder'
      PROVE  /\ i \in 1..Len(folder) /\ i + 1 \in 1..Len(folder)
             /\ i < k => folder'[i] = folder[i]
             /\ ~(i < k) => folder'[i] = folder[i + 1]
  BY <1>3, <1>4, <1>5
<1>7. Range(folder') \subseteq Range(folder)
  BY <1>3, <1>6 DEF Range
<1>8. ASSUME NEW x \in Missed'
      PROVE  x \in Missed \/ (k <= skip /\ x = folder[skip + 1])
  <2>1. /\ x \in Unseen
        /\ more => \E i \in DOMAIN folder' : i <= skip /\ folder'[i] = x
    BY <1>2, <1>7, <1>8 DEF Missed, Unseen
  <2>2. CASE ~more
    BY <2>1, <2>2 DEF Missed
  <2>3. CASE more
    <3>1. PICK i \in DOMAIN folder' : i <= skip /\ folder'[i] = x
      BY <2>1, <2>3
    <3>2. CASE i < k
      BY <1>3, <1>6, <2>1, <3>1, <3>2 DEF Missed
    <3>3. CASE ~(i < k) /\ i + 1 <= skip
      BY <1>3, <1>6, <2>1, <3>1, <3>3 DEF Missed
    <3>4. CASE ~(i < k) /\ ~(i + 1 <= skip)
      <4>1. i = skip /\ k <= skip
        BY <1>1, <1>3, <1>5, <3>1, <3>4
      <4> QED
        BY <1>6, <3>1, <3>4, <4>1
    <3> QED
      BY <3>2, <3>3, <3>4
  <2> QED
    BY <2>2, <2>3 DEF ListingInv
<1>9. CASE k <= skip
  <2>1. Missed' \subseteq Missed \cup {folder[skip + 1]}
    BY <1>8
  <2>2. shifts' = shifts + 1
    BY <1>2, <1>9
  <2> QED
    BY <2>1, <2>2, OneMoreMissed
<1>10. CASE ~(k <= skip)
  BY <1>2, <1>8, <1>10, NoMoreMissed
<1> QED
  BY <1>9, <1>10

\* A page brings what stands between the one before and the next.
LEMMA PageMisses ==
    ASSUME ListingInv, PageArrives
    PROVE  Missed' \subseteq Missed
<1> DEFINE end == skip + PageSize
           to == Least(end, Len(folder))
<1>1. /\ folder \in Seq(Messages) /\ skip \in Nat /\ PageSize \in Nat /\ Len(folder) \in Nat
      /\ DOMAIN folder = 1..Len(folder)
  BY MessageAssumption, LenProperties DEF ListingInv
<1>2. /\ batch' = SubSeq(folder, skip + 1, to) /\ skip' = end
      /\ more' = (Len(folder) > end)
      /\ UNCHANGED <<folder, fetched, failed>>
  BY DEF PageArrives, exchange, results
<1>3. to \in Nat /\ to <= Len(folder)
      /\ \A k \in 1..Len(folder) : k <= end => k <= to
  BY <1>1 DEF Least
<1>4. \A k \in skip + 1..to : folder[k] \in Range(batch')
  <2> HIDE DEF to
  <2> QED
    BY <1>1, <1>2, <1>3, SliceFacts
<1>5. Range(batch) = {}
  <2>1. batch = << >>
    BY DEF ListingInv, PageArrives
  <2> QED
    BY <2>1 DEF Range
<1>6. ASSUME NEW x \in Missed' PROVE x \in Missed
  <2>1. /\ x \in Old /\ x \in Range(folder) /\ x \notin fetched \cup failed
        /\ x \notin Range(batch')
        /\ more' => \E k \in DOMAIN folder : k <= end /\ folder[k] = x
    BY <1>2, <1>6 DEF Missed, Unseen
  <2>2. PICK k \in 1..Len(folder) : k <= end /\ folder[k] = x
    <3>1. CASE more'
      BY <1>1, <2>1, <3>1
    <3>2. CASE ~more'
      <4>1. PICK k \in 1..Len(folder) : folder[k] = x
        BY <1>1, <2>1 DEF Range
      <4>2. ~(Len(folder) > end)
        BY <1>2, <3>2
      <4>3. k <= end
        BY <1>1, <4>2
      <4> QED
        BY <4>1, <4>3
    <3> QED
      BY <3>1, <3>2
  <2>3. k <= skip
    <3> SUFFICES ASSUME ~(k <= skip) PROVE FALSE
      OBVIOUS
    <3>1. k \in skip + 1..to
      BY <1>1, <1>3, <2>2
    <3> QED
      BY <1>4, <2>1, <2>2, <3>1
  <2> QED
    BY <1>1, <1>5, <2>1, <2>2, <2>3 DEF Missed, Unseen
<1> QED
  BY <1>6

\* What leaves the batch is known.
LEMMA TailMisses ==
    ASSUME ListingInv, SkipItem \/ MessageArrives \/ MessageFails
    PROVE  Missed' \subseteq Missed
<1>1. /\ batch \in Seq(Messages) /\ batch # << >> /\ batch' = Tail(batch)
      /\ fetched \cup failed \subseteq fetched' \cup failed'
      /\ Head(batch) \in fetched' \cup failed'
      /\ UNCHANGED <<folder, skip, more>>
  BY DEF SkipItem, MessageArrives, MessageFails, Message, ListingInv, exchange, results
<1>2. \A x : x \in Range(batch) => x = Head(batch) \/ x \in Range(batch')
  BY <1>1, TailFacts
<1> QED
  BY <1>1, <1>2 DEF Missed, Unseen

LEMMA MissedStep == ListingInv /\ MissedInv /\ [Next]_vars => MissedInv'
<1> SUFFICES ASSUME ListingInv, MissedInv, [Next]_vars PROVE MissedInv'
  OBVIOUS
<1>1. ASSUME NEW m \in New, Arrive(m) PROVE MissedInv'
  BY <1>1, ArriveMisses, NoMoreMissed DEF Arrive
<1>2. ASSUME NEW k, Vanish(k) PROVE MissedInv'
  BY <1>2, VanishMisses
<1>3. CASE PageArrives
  BY <1>3, PageMisses, NoMoreMissed DEF PageArrives, exchange
<1>4. CASE SkipItem \/ MessageArrives \/ MessageFails
  BY <1>4, TailMisses, NoMoreMissed DEF SkipItem, MessageArrives, MessageFails, exchange
<1>5. CASE UNCHANGED <<exchange, listing, results>>
  BY <1>5 DEF MissedInv, Missed, Unseen, exchange, listing, results
<1>6. BackOff \/ WaitAsTold \/ CallRaises \/ GiveUp \/ GetPage \/ PageRaises
        \/ GetMessage \/ RetryMessage \/ PageDone \/ Over \/ UNCHANGED vars
      => UNCHANGED <<exchange, listing, results>>
  BY DEF BackOff, WaitAsTold, CallRaises, GiveUp, GetPage, PageRaises, GetMessage,
         RetryMessage, PageDone, Over, vars
<1> QED
  BY <1>1, <1>2, <1>3, <1>4, <1>5, <1>6 DEF Next, Client

\* MissedOnlyByShift: when the listing has come to its end, no more messages have
\* been missed than were removed from before a page that was still to come.
THEOREM ListingMissesByShift == Spec => []MissedOnlyByShift
<1>1. Init => ListingInv /\ MissedInv
  <2> SUFFICES ASSUME Init PROVE ListingInv /\ MissedInv
    OBVIOUS
  <2>1. SetToSeq(Old) \in Seq(Old)
    BY MessageAssumption, SetToSeqType
  <2>2. folder \in Seq(Messages)
    BY <2>1, SeqMonotonic DEF Init, Messages
  <2>3. ListingInv
    BY <2>2 DEF Init, ListingInv
  <2>4. Missed = {}
    <3>1. more /\ skip = 0 /\ DOMAIN folder = 1..Len(folder) /\ Len(folder) \in Nat
      BY <2>2, LenProperties DEF Init
    <3> QED
      BY <3>1 DEF Missed
  <2>5. MissedInv
    BY <2>4, FS_EmptySet DEF Init, MissedInv
  <2> QED
    BY <2>3, <2>5
<1>2. ListingInv /\ MissedInv => MissedOnlyByShift
  <2> SUFFICES ASSUME ListingInv, MissedInv, pc = "done"
               PROVE  Cardinality({m \in Old : m \in Range(folder)
                                               /\ m \notin fetched \cup failed}) <= shifts
    BY DEF MissedOnlyByShift
  <2>1. ~more /\ Range(batch) = {}
    BY DEF ListingInv, Range
  <2>2. Missed = {m \in Old : m \in Range(folder) /\ m \notin fetched \cup failed}
    BY <2>1 DEF Missed, Unseen
  <2> QED
    BY <2>2 DEF MissedInv
<1> QED
  BY <1>1, <1>2, ListingStep, MissedStep, PTL DEF Spec
=============================================================================
