------------------------- MODULE MappingTableProofs -------------------------
(***************************************************************************)
(* Theorems about MappingTable, for any users and addresses and any number *)
(* of mappings, rows and jobs.                                             *)
(***************************************************************************)
EXTENDS MappingTable, FiniteSetTheorems, SequenceTheorems, WellFoundedInduction, TLAPS

-----------------------------------------------------------------------------
(* The last id.                                                            *)

LEMMA Least ==
    ASSUME NEW T \in SUBSET Nat, T # {}
    PROVE  \E x \in T : \A y \in T : x <= y
<1> DEFINE R == {p \in Nat \X Nat : p[1] < p[2]}
<1>1. OpToRel(<, Nat) = R
  BY DEF OpToRel
<1>2. IsWellFoundedOn(R, Nat)
  BY <1>1, NatLessThanWellFounded
<1>3. PICK x \in T : \A y \in T : <<y, x>> \notin R
  <2> HIDE DEF R
  <2> QED
    BY <1>2, WFMin
<1>4. ASSUME NEW y \in T PROVE x <= y
  <2>1. <<y, x>> \in Nat \X Nat /\ ~(y < x)
    BY <1>3
  <2> QED
    BY <2>1
<1> QED
  BY <1>4

LEMMA Greatest ==
    ASSUME NEW N \in Nat, NEW S \in SUBSET (1..N)
    PROVE  \E n \in (1..N) \cup {0} : (n = 0 \/ n \in S) /\ \A i \in S : i <= n
<1>1. CASE S = {}
  BY <1>1
<1>2. CASE S # {}
  <2> DEFINE B == {b \in 0..N : \A i \in S : i <= b}
  <2>1. N \in B /\ B \in SUBSET Nat
    OBVIOUS
  <2>2. PICK n \in B : \A b \in B : n <= b
    <3> HIDE DEF B
    <3> QED
      BY <2>1, Least
  <2>3. n \in 0..N /\ \A i \in S : i <= n
    OBVIOUS
  <2>4. n \in S
    <3> SUFFICES ASSUME n \notin S PROVE FALSE
      OBVIOUS
    <3>1. PICK e : e \in S
      BY <1>2
    <3>2. e \in 1..N /\ e <= n
      BY <2>3, <3>1
    <3>3. n - 1 \in 0..N /\ \A i \in S : i <= n - 1
      BY <2>3, <3>2
    <3>4. n - 1 \in B
      BY <3>3
    <3> QED
      BY <2>2, <2>3, <3>4
  <2> QED
    BY <2>3, <2>4
<1> QED
  BY <1>1, <1>2

\* LastId is the largest id in the table, 0 when it is empty.
LEMMA LastIdIsLast ==
    /\ LastId \in Ids \cup {0}
    /\ LastId = 0 \/ LastId \in Taken
    /\ \A i \in Taken : i <= LastId
<1>1. Taken \in SUBSET (1..MaxMade)
  BY DEF Taken, Ids
<1>2. \E n \in Ids \cup {0} : (n = 0 \/ n \in Taken) /\ \A i \in Taken : i <= n
  BY <1>1, Greatest, BoundsAssumption DEF Ids
<1> QED
  BY <1>2 DEF LastId

-----------------------------------------------------------------------------
(* Types.                                                                  *)

Working(j) == job[j].stage \in {"mail", "event", "end"}

\* What the types rest on.
RowShape(j) ==
    /\ job[j].status # "none" => job[j].id \in Ids
    /\ Working(j) => /\ job[j].status = "running"
                     /\ job[j].target \in DOMAIN made /\ job[j].source \in DOMAIN made
    /\ job[j].todo # {} => job[j].stage \in {"mail", "event"}
    /\ job[j].held # 0 => Working(j)
    /\ job[j].held <= Len(made)
    /\ job[j].sent \subseteq job[j].todo

Shape ==
    /\ Len(made) <= MaxMade
    /\ \A i \in Taken : i <= Len(made)
    /\ \A j \in Jobs : RowShape(j)

TypeInv == TypeOK /\ Shape

Mades == [id : Ids, user : Users, addr : Addresses]

LEMMA MadeType ==
    ASSUME TypeInv
    PROVE  /\ Len(made) \in Nat /\ DOMAIN made = 1..Len(made)
           /\ made \in Seq(Mades)
           /\ \A n \in DOMAIN made :
                /\ made[n] \in Mades /\ made[n].id \in Ids
                /\ made[n].user \in Users /\ made[n].addr \in Addresses
<1>1. made \in Seq(Mades)
  BY DEF TypeInv, TypeOK, Mades
<1>2. Len(made) \in Nat /\ DOMAIN made = 1..Len(made)
  BY <1>1, LenProperties
<1>3. \A n \in DOMAIN made : made[n] \in Mades
  BY <1>1, <1>2, ElementOfSeq
<1> QED
  BY <1>1, <1>2, <1>3 DEF Mades

LEMMA ConcatFacts ==
    ASSUME NEW S, NEW s \in Seq(S), NEW t \in Seq(S)
    PROVE  /\ s \o t \in Seq(S) /\ Len(s \o t) = Len(s) + Len(t)
           /\ \A i \in 1..Len(s) : (s \o t)[i] = s[i]
           /\ \A i \in 1..Len(t) : (s \o t)[Len(s) + i] = t[i]
<1>1. Len(s) \in Nat /\ Len(t) \in Nat
  BY LenProperties
<1> QED
  BY <1>1, ConcatProperties

\* What inserting rows does.
LEMMA InsertFacts ==
    ASSUME TypeInv, NEW new \in Seq(Pairs), Insert(new)
    PROVE  /\ Len(new) \in Nat /\ LastId \in 0..Len(made)
           /\ Len(made') = Len(made) + Len(new) /\ Len(made') <= MaxMade
           /\ made' \in Seq(Mades)
           /\ \A n \in DOMAIN made : n \in DOMAIN made' /\ made'[n] = made[n]
           /\ \A n \in DOMAIN made' \ DOMAIN made :
                made'[n].id = LastId + (n - Len(made))
           /\ \A i \in Ids :
                \/ /\ i \notin Taken /\ i > LastId /\ i <= LastId + Len(new)
                   /\ mapping'[i] = Len(made) + (i - LastId)
                   /\ mapping'[i] \in DOMAIN made' \ DOMAIN made
                   /\ made'[mapping'[i]].id = i
                   /\ i \in usable' /\ i \notin synced'
                \/ /\ mapping'[i] = mapping[i]
                   /\ (i \in usable') <=> (i \in usable)
                   /\ (i \in synced') <=> (i \in synced)
           /\ mapping' \in [Ids -> 0..Len(made')]
           /\ usable' \subseteq Ids /\ synced' \subseteq Ids
           /\ UNCHANGED <<secret, items, job, order, purged>>
<1> DEFINE n == Len(new)
           L == Len(made)
           rec(k) == [id |-> LastId + k, user |-> new[k].user, addr |-> new[k].addr]
           more == [k \in 1..n |-> rec(k)]
<1>1. n \in Nat /\ L \in Nat /\ MaxMade \in Nat /\ L + n <= MaxMade
  BY MadeType, LenProperties, BoundsAssumption DEF Insert
<1>2. LastId \in 0..L
  BY <1>1, LastIdIsLast DEF TypeInv, Shape, RowShape, Ids
<1>3. \A k \in 1..n : new[k] \in Pairs /\ new[k].user \in Users /\ new[k].addr \in Addresses
  <2>1. \A k \in 1..n : new[k] \in Pairs
    BY ElementOfSeq
  <2> QED
    BY <2>1 DEF Pairs
<1>4. \A k \in 1..n : LastId + k \in Ids
  BY <1>1, <1>2 DEF Ids
<1>5. \A k \in 1..n : rec(k) \in Mades
  BY <1>3, <1>4 DEF Mades
<1>6. more \in Seq(Mades) /\ Len(more) = n /\ DOMAIN more = 1..n
  <2> HIDE DEF rec
  <2>1. more \in [1..n -> Mades]
    BY <1>5
  <2> QED
    BY <1>1, <2>1
<1>7. made' = made \o more
  BY DEF Insert
<1>8. /\ made' \in Seq(Mades) /\ Len(made') = L + n /\ DOMAIN made' = 1..(L + n)
      /\ \A k \in 1..L : made'[k] = made[k]
      /\ \A k \in 1..n : made'[L + k] = more[k]
  <2> HIDE DEF more, n
  <2>1. made \in Seq(Mades)
    BY MadeType
  <2>2. /\ made \o more \in Seq(Mades) /\ Len(made \o more) = Len(made) + Len(more)
        /\ \A k \in 1..Len(made) : (made \o more)[k] = made[k]
        /\ \A k \in 1..Len(more) : (made \o more)[Len(made) + k] = more[k]
    BY ONLY <1>6, <2>1, ConcatFacts
  <2>3. /\ made' \in Seq(Mades) /\ Len(made') = L + n
        /\ \A k \in 1..L : made'[k] = made[k]
        /\ \A k \in 1..n : made'[L + k] = more[k]
    BY ONLY <1>6, <1>7, <2>2
  <2>4. DOMAIN made' = 1..(L + n)
    BY ONLY <2>3, LenProperties
  <2> QED
    BY <2>3, <2>4
<1>9. \A k \in 1..n : made'[L + k].id = LastId + k
  <2>1. \A k \in 1..n : more[k].id = LastId + k
    OBVIOUS
  <2> QED
    BY <1>8, <2>1
<1>10. ASSUME NEW k \in DOMAIN made' \ DOMAIN made
       PROVE  made'[k].id = LastId + (k - L)
  <2>1. k - L \in 1..n /\ k = L + (k - L)
    BY <1>1, <1>8, MadeType
  <2> QED
    BY <1>9, <2>1
<1>11. ASSUME NEW i \in Ids
       PROVE  \/ /\ i \notin Taken /\ i > LastId /\ i <= LastId + n
                 /\ mapping'[i] = L + (i - LastId)
                 /\ mapping'[i] \in DOMAIN made' \ DOMAIN made
                 /\ made'[mapping'[i]].id = i
                 /\ i \in usable' /\ i \notin synced'
              \/ /\ mapping'[i] = mapping[i]
                 /\ (i \in usable') <=> (i \in usable)
                 /\ (i \in synced') <=> (i \in synced)
  <2> DEFINE ids == LastId + 1 .. LastId + n
  <2>1. i \in Nat /\ LastId \in Nat
    BY <1>2, BoundsAssumption DEF Ids
  <2>2. /\ mapping'[i] = IF i \in ids THEN L + i - LastId ELSE mapping[i]
        /\ usable' = usable \cup ids /\ synced' = synced \ ids
    BY DEF Insert
  <2>3. CASE i \in ids
    <3>1. i > LastId /\ i <= LastId + n /\ i - LastId \in 1..n
      BY <1>1, <2>1, <2>3
    <3>2. i \notin Taken
      BY <2>1, <3>1, LastIdIsLast DEF Taken
    <3>3. L + i - LastId = L + (i - LastId)
      BY <1>1, <2>1
    <3>4. L + (i - LastId) \in DOMAIN made' \ DOMAIN made
      BY <1>1, <1>8, <3>1, MadeType
    <3>5. made'[L + (i - LastId)].id = i
      <4>1. made'[L + (i - LastId)].id = LastId + (i - LastId)
        BY <1>9, <3>1
      <4>2. LastId + (i - LastId) = i
        BY ONLY <2>1
      <4> QED
        BY <4>1, <4>2
    <3> QED
      BY <2>2, <2>3, <3>1, <3>2, <3>3, <3>4, <3>5
  <2>4. CASE i \notin ids
    BY <2>2, <2>4
  <2> QED
    BY <2>3, <2>4
<1>12. mapping' \in [Ids -> 0..Len(made')]
  <2>1. ASSUME NEW i \in Ids PROVE mapping'[i] \in 0..Len(made')
    <3>1. mapping[i] \in 0..L
      BY DEF TypeInv, TypeOK
    <3>2. mapping'[i] = mapping[i] \/ mapping'[i] \in DOMAIN made'
      BY <1>11
    <3> QED
      BY <1>1, <1>8, <3>1, <3>2
  <2>2. mapping' = [i \in Ids |-> mapping'[i]]
    BY DEF Insert
  <2> QED
    BY <2>1, <2>2
<1>13. usable' \subseteq Ids /\ synced' \subseteq Ids
  <2>1. \A i \in LastId + 1 .. LastId + n : i \in Ids
    BY <1>1, <1>2 DEF Ids
  <2>2. usable \subseteq Ids /\ synced \subseteq Ids
    BY DEF TypeInv, TypeOK, Taken
  <2> QED
    BY <2>1, <2>2 DEF Insert
<1>14. UNCHANGED <<secret, items, job, order, purged>>
  BY DEF Insert
<1>15. \A k \in DOMAIN made : k \in DOMAIN made' /\ made'[k] = made[k]
  BY <1>1, <1>8, MadeType
<1> QED
  BY <1>1, <1>2, <1>8, <1>10, <1>11, <1>12, <1>13, <1>14, <1>15

\* One row and a file of rows are the same to the table.
LEMMA InsertCases ==
    ASSUME \/ \E p \in Pairs : Add(p)
           \/ \E file \in Files : ImportCsv(file)
    PROVE  \E new \in Seq(Pairs) : Insert(new)
<1>1. \A p \in Pairs : << p >> \in Seq(Pairs)
  OBVIOUS
<1>2. \A file \in Files : file \in Seq(Pairs)
  BY BoundsAssumption DEF Files
<1> QED
  BY <1>1, <1>2 DEF Add, ImportCsv

LEMMA ContentsType ==
    ASSUME NEW u \in Users, NEW stage
    PROVE  Contents(u, stage) \subseteq Items
BY DEF Contents, Items, Categories

\* The types of a job's row.
LEMMA RowType ==
    ASSUME TypeInv, NEW j \in Jobs
    PROVE  /\ job[j] \in JobRows
           /\ job[j].id \in Ids \cup {0}
           /\ job[j].status \in {"none", "pending", "running", "completed", "failed"}
           /\ job[j].stage \in {"-", "mail", "event", "end", "gone"}
           /\ job[j].target \in 0..MaxMade /\ job[j].source \in 0..MaxMade
           /\ job[j].held \in 0..MaxMade /\ job[j].todo \in SUBSET Items
           /\ job[j].sent \in SUBSET Items
           /\ order[j] \in Kinds
<1>1. job[j] \in JobRows /\ order[j] \in Kinds
  BY DEF TypeInv, TypeOK
<1> QED
  BY <1>1 DEF JobRows

\* What the steps of a thread write into its row, and that they write nothing else.
Others(j) == \A k \in Jobs : k # j => job'[k] = job[k]

LEMMA SettleFacts ==
    ASSUME TypeInv, NEW j \in Jobs, NEW status \in {"completed", "failed"}, Settle(j, status)
    PROVE  /\ job' \in [Jobs -> JobRows] /\ Others(j)
           /\ job'[j] = [status |-> status, id |-> job[j].id, stage |-> "-",
                         target |-> job[j].target, source |-> job[j].source,
                         held |-> 0, todo |-> {}, sent |-> {}]
           /\ job'[j].stage = "-"
<1>1. job \in [Jobs -> JobRows]
  BY DEF TypeInv, TypeOK
<1>2. 0 \in 0..MaxMade
  BY BoundsAssumption
<1>3. job[j] \in JobRows
  BY <1>1
<1>4. job'[j] = [status |-> status, id |-> job[j].id, stage |-> "-",
                 target |-> job[j].target, source |-> job[j].source,
                 held |-> 0, todo |-> {}, sent |-> {}]
  BY <1>1, <1>3 DEF Settle, JobRows
<1>5. job'[j] \in JobRows
  BY <1>2, <1>3, <1>4 DEF JobRows
<1>6. Others(j) /\ job' = [k \in Jobs |-> job'[k]]
  BY <1>1 DEF Settle, Others
<1>7. \A k \in Jobs : job'[k] \in JobRows
  BY <1>1, <1>5, <1>6 DEF Others
<1> QED
  BY <1>4, <1>6, <1>7

LEMMA ListedType ==
    ASSUME TypeInv, NEW j \in Jobs, NEW stage, NEW m \in DOMAIN made,
           NEW some \in Listed(j, stage, m)
    PROVE  /\ some \subseteq Contents(made[m].user, stage)
           /\ some \in SUBSET Items
           /\ stage \in order[j].full => some = Contents(made[m].user, stage)
<1>1. Contents(made[m].user, stage) \subseteq Items
  BY MadeType, ContentsType
<1>2. order[j] \in Kinds
  BY RowType
<1>3. order[j].full \subseteq order[j].cats
  BY <1>2 DEF Kinds
<1> QED
  BY <1>1, <1>3 DEF Listed

LEMMA ListingFacts ==
    ASSUME TypeInv, NEW j \in Jobs, NEW m \in DOMAIN made, NEW events \in SUBSET Items,
           job' = Listing(j, m, events)
    PROVE  /\ job' \in [Jobs -> JobRows] /\ Others(j)
           /\ job'[j] = [status |-> job[j].status, id |-> job[j].id,
                         stage |-> IF events = {} THEN "end" ELSE job[j].stage,
                         target |-> job[j].target, source |-> m,
                         held |-> m, todo |-> events, sent |-> job[j].sent]
<1> DEFINE stage == IF events = {} THEN "end" ELSE job[j].stage
<1>1. job \in [Jobs -> JobRows]
  BY DEF TypeInv, TypeOK
<1>2. m \in 0..MaxMade
  BY BoundsAssumption, MadeType DEF TypeInv, Shape, RowShape
<1>3. job[j] \in JobRows
  BY <1>1
<1>4. job'[j] = [status |-> job[j].status, id |-> job[j].id, stage |-> stage,
                 target |-> job[j].target, source |-> m,
                 held |-> m, todo |-> events, sent |-> job[j].sent]
  BY <1>1, <1>3 DEF Listing, JobRows
<1>5. stage \in {"-", "mail", "event", "end", "gone"}
  BY <1>3 DEF JobRows
<1>6. job'[j] \in JobRows
  <2> HIDE DEF stage
  <2> QED
    BY <1>2, <1>3, <1>4, <1>5 DEF JobRows
<1>7. Others(j) /\ job' = [k \in Jobs |-> job'[k]]
  BY <1>1 DEF Listing, Others
<1>8. \A k \in Jobs : job'[k] \in JobRows
  BY <1>1, <1>6, <1>7 DEF Others
<1> QED
  BY <1>4, <1>7, <1>8

LEMMA PastFacts ==
    ASSUME TypeInv, NEW j \in Jobs, NEW i, job' = Past(j, i)
    PROVE  /\ job' \in [Jobs -> JobRows] /\ Others(j)
           /\ job'[j] = [status |-> job[j].status, id |-> job[j].id,
                         stage |-> IF job[j].todo \ {i} # {} THEN job[j].stage
                                   ELSE IF job[j].stage = "mail" THEN AfterMail(j) ELSE "end",
                         target |-> job[j].target, source |-> job[j].source,
                         held |-> 0, todo |-> job[j].todo \ {i}, sent |-> {}]
<1> DEFINE rest == job[j].todo \ {i}
           stage == IF rest # {} THEN job[j].stage
                    ELSE IF job[j].stage = "mail" THEN AfterMail(j) ELSE "end"
<1>1. job \in [Jobs -> JobRows]
  BY DEF TypeInv, TypeOK
<1>2. 0 \in 0..MaxMade
  BY BoundsAssumption
<1>3. job[j] \in JobRows
  BY <1>1
<1>4. job'[j] = [status |-> job[j].status, id |-> job[j].id, stage |-> stage,
                 target |-> job[j].target, source |-> job[j].source,
                 held |-> 0, todo |-> rest, sent |-> {}]
  BY <1>1, <1>3 DEF Past, JobRows
<1>5. stage \in {"-", "mail", "event", "end", "gone"} /\ rest \in SUBSET Items
  BY <1>3 DEF JobRows, AfterMail
<1>6. job'[j] \in JobRows
  <2> HIDE DEF rest, stage
  <2> QED
    BY <1>2, <1>3, <1>4, <1>5 DEF JobRows
<1>7. Others(j) /\ job' = [k \in Jobs |-> job'[k]]
  BY <1>1 DEF Past, Others
<1>8. \A k \in Jobs : job'[k] \in JobRows
  BY <1>1, <1>6, <1>7 DEF Others
<1> QED
  BY <1>4, <1>7, <1>8

LEMMA DeliverFacts ==
    ASSUME TypeInv, NEW j \in Jobs, NEW i \in Items, Deliver(j, i), Seen(j) \in 0..MaxMade
    PROVE  /\ job' \in [Jobs -> JobRows] /\ Others(j)
           /\ job'[j] = [status |-> job[j].status, id |-> job[j].id, stage |-> job[j].stage,
                         target |-> job[j].target, source |-> job[j].source,
                         held |-> Seen(j), todo |-> job[j].todo, sent |-> {i}]
<1> DEFINE held == Seen(j)
<1>1. job \in [Jobs -> JobRows] /\ job' = [job EXCEPT ![j].sent = {i}, ![j].held = held]
  BY DEF TypeInv, TypeOK, Deliver
<1>2. job[j] \in JobRows
  BY <1>1
<1> HIDE DEF held
<1>3. job'[j] = [status |-> job[j].status, id |-> job[j].id, stage |-> job[j].stage,
                 target |-> job[j].target, source |-> job[j].source,
                 held |-> held, todo |-> job[j].todo, sent |-> {i}]
  BY <1>1, <1>2 DEF JobRows
<1>4. held \in 0..MaxMade
  BY DEF held
<1>5. job'[j] \in JobRows
  BY <1>2, <1>3, <1>4 DEF JobRows
<1>6. Others(j) /\ job' = [k \in Jobs |-> job'[k]]
  BY <1>1 DEF Others
<1>7. \A k \in Jobs : job'[k] \in JobRows
  BY <1>1, <1>5, <1>6 DEF Others
<1> QED
  BY <1>3, <1>6, <1>7 DEF held

LEMMA StartFacts ==
    ASSUME TypeInv, NEW j \in Jobs, Start(j)
    PROVE  /\ job' \in [Jobs -> JobRows] /\ Others(j) /\ There(j) \in DOMAIN made
           /\ \E held \in {There(j), 0}, mail \in Listed(j, "mail", There(j)) :
                job'[j] = [status |-> "running", id |-> job[j].id,
                           stage |-> IF mail # {} THEN "mail" ELSE AfterMail(j),
                           target |-> There(j), source |-> There(j), held |-> held,
                           todo |-> mail, sent |-> {}]
<1> DEFINE m == There(j)
           row(held, mail) ==
               [status |-> "running", id |-> job[j].id,
                stage |-> IF mail # {} THEN "mail" ELSE AfterMail(j),
                target |-> m, source |-> m, held |-> held, todo |-> mail, sent |-> {}]
<1>1. job \in [Jobs -> JobRows]
  BY DEF TypeInv, TypeOK
<1>2. PICK held \in {m, 0}, mail \in Listed(j, "mail", m) :
        job' = [job EXCEPT ![j] =
                  [@ EXCEPT !.status = "running",
                            !.stage = IF mail # {} THEN "mail" ELSE AfterMail(j),
                            !.target = m, !.source = m, !.held = held, !.todo = mail]]
  BY DEF Start
<1>3. m \in DOMAIN made /\ m \in 0..MaxMade /\ 0 \in 0..MaxMade
  <2>1. job[j].id \in usable /\ m # 0
    BY DEF Start, Ready
  <2>2. m \in 0..Len(made)
    BY <2>1 DEF TypeInv, TypeOK, There, Taken
  <2> QED
    BY <2>1, <2>2, MadeType, BoundsAssumption DEF TypeInv, Shape, RowShape
<1>4. job[j] \in JobRows /\ job[j].sent = {}
  <2>1. job[j].status # "running"
    BY DEF Start
  <2>2. job[j].todo = {}
    BY <2>1 DEF TypeInv, Shape, RowShape, Working
  <2> QED
    BY <1>1, <2>2 DEF TypeInv, Shape, RowShape
<1>5. job'[j] = row(held, mail)
  <2> HIDE DEF m
  <2> DEFINE stage == IF mail # {} THEN "mail" ELSE AfterMail(j)
  <2>1. job' = [job EXCEPT ![j] = [@ EXCEPT !.status = "running", !.stage = stage,
                                            !.target = m, !.source = m, !.held = held,
                                            !.todo = mail]]
    BY <1>2
  <2> HIDE DEF stage
  <2>2. job'[j] = [status |-> "running", id |-> job[j].id, stage |-> stage,
                   target |-> m, source |-> m, held |-> held, todo |-> mail,
                   sent |-> job[j].sent]
    BY <1>1, <1>4, <2>1 DEF JobRows
  <2> QED
    BY <1>4, <2>2 DEF stage
<1>6. mail \in SUBSET Items
  BY <1>3, ListedType
<1>7. job'[j] \in JobRows
  <2> HIDE DEF m
  <2> DEFINE stage == IF mail # {} THEN "mail" ELSE AfterMail(j)
  <2>1. stage \in {"-", "mail", "event", "end", "gone"}
    BY DEF AfterMail
  <2>2. job'[j] = [status |-> "running", id |-> job[j].id, stage |-> stage,
                   target |-> m, source |-> m, held |-> held, todo |-> mail, sent |-> {}]
    BY <1>5
  <2>3. held \in 0..MaxMade
    BY <1>2, <1>3
  <2>4. job[j].id \in Ids \cup {0}
    BY <1>4 DEF JobRows
  <2> HIDE DEF stage
  <2> QED
    BY <1>3, <1>6, <2>1, <2>2, <2>3, <2>4 DEF JobRows
<1>8. Others(j) /\ job' = [k \in Jobs |-> job'[k]]
  BY <1>1, <1>2 DEF Others
<1>9. \A k \in Jobs : job'[k] \in JobRows
  BY <1>1, <1>7, <1>8 DEF Others
<1> QED
  BY <1>2, <1>3, <1>5, <1>8, <1>9

LEMMA CreateFacts ==
    ASSUME TypeInv, NEW j \in Jobs, NEW i \in Ids, Create(j, i) \/ Resync(j, i)
    PROVE  /\ job' \in [Jobs -> JobRows] /\ Others(j)
           /\ order' \in [Jobs -> Kinds] /\ \A k \in Jobs : k # j => order'[k] = order[k]
           /\ UNCHANGED <<secret, table, items, purged>>
           /\ job[j].status = "none"
           /\ job'[j] = [status |-> "pending", id |-> i, stage |-> "-", target |-> 0,
                         source |-> 0, held |-> 0, todo |-> {}, sent |-> {}]
           /\ job'[j].stage = "-"
<1>0. PICK o \in Kinds : Ask(j, i, o)
  <2>1. [cats |-> Categories, full |-> {}, dry |-> FALSE] \in Kinds
    BY DEF Kinds
  <2> QED
    BY <2>1, OrderAssumption DEF Create, Resync
<1>1. job \in [Jobs -> JobRows] /\ 0 \in 0..MaxMade /\ order \in [Jobs -> Kinds]
  BY BoundsAssumption DEF TypeInv, TypeOK
<1>2. job'[j] = [status |-> "pending", id |-> i, stage |-> "-", target |-> 0,
                 source |-> 0, held |-> 0, todo |-> {}, sent |-> {}]
  <2>1. /\ job[j] = [status |-> "none", id |-> 0, stage |-> "-", target |-> 0,
                     source |-> 0, held |-> 0, todo |-> {}, sent |-> {}]
        /\ job' = [job EXCEPT ![j].status = "pending", ![j].id = i]
    BY <1>0 DEF Ask, NoJob
  <2>2. job[j] \in JobRows
    BY <1>1
  <2>3. job'[j] = [status |-> "pending", id |-> i, stage |-> job[j].stage,
                   target |-> job[j].target, source |-> job[j].source,
                   held |-> job[j].held, todo |-> job[j].todo, sent |-> job[j].sent]
    BY <1>1, <2>1, <2>2 DEF JobRows
  <2> QED
    BY <2>1, <2>3
<1>3. job'[j] \in JobRows
  BY <1>1, <1>2 DEF JobRows
<1>4. Others(j) /\ job' = [k \in Jobs |-> job'[k]]
  BY <1>0, <1>1 DEF Ask, Others
<1>5. \A k \in Jobs : job'[k] \in JobRows
  BY <1>1, <1>3, <1>4 DEF Others
<1>6. /\ order' \in [Jobs -> Kinds] /\ \A k \in Jobs : k # j => order'[k] = order[k]
      /\ UNCHANGED <<secret, table, items, purged>>
  BY <1>0, <1>1 DEF Ask
<1>7. job[j].status = "none"
  BY <1>0 DEF Ask, NoJob
<1> QED
  BY <1>2, <1>4, <1>5, <1>6, <1>7

LEMMA LostFacts ==
    ASSUME TypeInv, NEW j \in Jobs, CompleteLost(j)
    PROVE  /\ job' \in [Jobs -> JobRows] /\ Others(j)
           /\ job'[j].status = job[j].status /\ job'[j].id = job[j].id
           /\ job'[j].stage = "gone" /\ job'[j].held = 0 /\ job'[j].sent = job[j].sent
           /\ job'[j].target = job[j].target /\ job'[j].todo = job[j].todo
<1>1. job \in [Jobs -> JobRows]
  BY DEF TypeInv, TypeOK
<1>2. job[j] \in JobRows
  BY <1>1
<1>3. job'[j] = [status |-> job[j].status, id |-> job[j].id, stage |-> "gone",
                 target |-> job[j].target, source |-> job[j].source,
                 held |-> 0, todo |-> job[j].todo, sent |-> job[j].sent]
  BY <1>1, <1>2 DEF CompleteLost, JobRows
<1>4. job'[j] \in JobRows
  <2>1. 0 \in 0..MaxMade
    BY BoundsAssumption
  <2> QED
    BY <1>2, <1>3, <2>1 DEF JobRows
<1>5. Others(j) /\ job' = [k \in Jobs |-> job'[k]]
  BY <1>1 DEF CompleteLost, Others
<1>6. \A k \in Jobs : job'[k] \in JobRows
  BY <1>1, <1>4, <1>5 DEF Others
<1>7. /\ job'[j].status = job[j].status /\ job'[j].id = job[j].id
      /\ job'[j].stage = "gone" /\ job'[j].held = 0 /\ job'[j].sent = job[j].sent
      /\ job'[j].target = job[j].target /\ job'[j].todo = job[j].todo
  BY <1>2, <1>3 DEF JobRows
<1> QED
  BY <1>5, <1>6, <1>7

LEMMA RestartFacts ==
    ASSUME TypeInv, Restart
    PROVE  /\ job' \in [Jobs -> JobRows]
           /\ \A j \in Jobs :
                IF job[j].status = "running"
                THEN job'[j] = [status |-> "pending", id |-> job[j].id, stage |-> "-",
                                target |-> 0, source |-> 0, held |-> 0, todo |-> {}, sent |-> {}]
                ELSE job'[j] = job[j]
<1>1. job \in [Jobs -> JobRows] /\ 0 \in 0..MaxMade
  BY BoundsAssumption DEF TypeInv, TypeOK
<1>2. ASSUME NEW j \in Jobs
      PROVE  /\ job'[j] \in JobRows
             /\ IF job[j].status = "running"
                THEN job'[j] = [status |-> "pending", id |-> job[j].id, stage |-> "-",
                                target |-> 0, source |-> 0, held |-> 0, todo |-> {}, sent |-> {}]
                ELSE job'[j] = job[j]
  <2>1. job[j] \in JobRows
    BY <1>1
  <2>2. IF job[j].status = "running"
        THEN job'[j] = [status |-> "pending", id |-> job[j].id, stage |-> "-",
                        target |-> 0, source |-> 0, held |-> 0, todo |-> {}, sent |-> {}]
        ELSE job'[j] = job[j]
    BY DEF Restart, NoJob
  <2>3. job'[j] \in JobRows
    BY <1>1, <2>1, <2>2 DEF JobRows
  <2> QED
    BY <2>2, <2>3
<1>3. job' = [j \in Jobs |-> job'[j]]
  BY DEF Restart
<1> QED
  BY <1>2, <1>3

-----------------------------------------------------------------------------
(* Type correctness.                                                       *)

USE DEF Others

\* The rows added by an insertion, the mapping lost by a deletion.
LEMMA InsertKeepsTypes ==
    ASSUME TypeInv, NEW new \in Seq(Pairs), Insert(new)
    PROVE  TypeInv'
<1>1. /\ Len(new) \in Nat /\ LastId \in 0..Len(made)
      /\ Len(made') = Len(made) + Len(new) /\ Len(made') <= MaxMade
      /\ made' \in Seq(Mades)
      /\ \A n \in DOMAIN made : n \in DOMAIN made' /\ made'[n] = made[n]
      /\ \A i \in Ids :
           \/ /\ i <= LastId + Len(new)
              /\ mapping'[i] \in DOMAIN made' \ DOMAIN made
              /\ i \in usable' /\ i \notin synced'
           \/ /\ mapping'[i] = mapping[i]
              /\ (i \in usable') <=> (i \in usable)
              /\ (i \in synced') <=> (i \in synced)
      /\ mapping' \in [Ids -> 0..Len(made')]
      /\ usable' \subseteq Ids /\ synced' \subseteq Ids
      /\ UNCHANGED <<secret, items, job, order, purged>>
  BY InsertFacts
<1>2. Len(made) \in Nat /\ MaxMade \in Nat
  BY MadeType, BoundsAssumption
<1>3. \A i \in Ids : i \in Nat
  BY BoundsAssumption DEF Ids
<1>4. DOMAIN made' = 1..Len(made') /\ DOMAIN made = 1..Len(made)
  BY <1>1, MadeType, LenProperties
<1>5. ASSUME NEW i \in Ids, mapping[i] # 0 \/ i \in usable' \/ i \in synced'
      PROVE  mapping'[i] # 0 \/ mapping[i] = 0
  BY <1>1, <1>4
<1>6. (usable \subseteq Taken /\ synced \subseteq Taken)'
  <2>1. ASSUME NEW i \in Ids, i \in usable' \/ i \in synced' PROVE mapping'[i] # 0
    <3>1. i \in usable \/ i \in synced => mapping[i] # 0
      BY DEF TypeInv, TypeOK, Taken
    <3> QED
      BY <1>1, <1>4, <2>1, <3>1
  <2> QED
    BY <1>1, <2>1 DEF Taken
<1>7. ASSUME NEW i \in Ids, mapping'[i] # 0 PROVE i <= Len(made')
  <2>1. mapping[i] # 0 => i <= Len(made)
    BY DEF TypeInv, Shape, RowShape, Taken
  <2>2. i <= LastId + Len(new) \/ mapping[i] # 0
    BY <1>1, <1>7
  <2> QED
    BY <1>1, <1>2, <1>3, <2>1, <2>2
<1>8. TypeOK'
  <2>1. purged' \in 0..Len(made')
    BY <1>1, <1>2 DEF TypeInv, TypeOK
  <2>2. UNCHANGED <<secret, rows, failed, copies, job, order>>
    BY <1>1 DEF items
  <2> QED
    BY <1>1, <1>6, <2>1, <2>2 DEF TypeInv, TypeOK, Mades
<1>9. Shape'
  <2>1. ASSUME NEW j \in Jobs PROVE RowShape(j)'
    <3>1. RowShape(j) /\ job[j].held \in 0..MaxMade
      BY RowType DEF TypeInv, Shape
    <3> QED
      BY <1>1, <1>2, <3>1 DEF RowShape, Working
  <2>2. \A i \in Taken' : i <= Len(made')
    BY <1>7 DEF Taken
  <2> QED
    BY <1>1, <2>1, <2>2 DEF Shape
<1> QED
  BY <1>8, <1>9 DEF TypeInv

LEMMA DeleteKeepsTypes ==
    ASSUME TypeInv, NEW i \in Ids, Delete(i)
    PROVE  TypeInv'
<1>1. /\ mapping' = [mapping EXCEPT ![i] = 0]
      /\ usable' = usable \ {i} /\ synced' = synced \ {i}
      /\ UNCHANGED <<secret, items, job, order, made, purged>>
  BY DEF Delete
<1>2. mapping \in [Ids -> 0..Len(made)] /\ Len(made) \in Nat
  BY MadeType DEF TypeInv, TypeOK
<1>3. mapping' \in [Ids -> 0..Len(made')] /\ Taken' \subseteq Taken
      /\ Taken \ {i} \subseteq Taken'
  BY <1>1, <1>2 DEF Taken
<1> QED
  BY <1>1, <1>3 DEF TypeInv, TypeOK, Shape, RowShape, Working, items

\* A step of a thread that leaves the mappings as they are.
LEMMA ThreadKeepsTypes ==
    ASSUME TypeInv, NEW j \in Jobs,
           job' \in [Jobs -> JobRows], Others(j),
           UNCHANGED <<secret, mapping, usable, made, order, purged>>,
           synced' \subseteq Taken,
           rows' \subseteq Ids \X Items, failed' \subseteq Ids \X Items,
           copies' \subseteq Addresses \X Items,
           RowShape(j)'
    PROVE  TypeInv'
<1>1. TypeOK'
  BY DEF TypeInv, TypeOK, Taken
<1>2. \A k \in Jobs : RowShape(k)'
  BY DEF TypeInv, Shape, RowShape, Working
<1>3. Shape'
  BY <1>2 DEF TypeInv, Shape, Taken
<1> QED
  BY <1>1, <1>3 DEF TypeInv

LEMMA ItemsKnown ==
    ASSUME TypeInv, NEW j \in Jobs, NEW i \in job[j].todo
    PROVE  /\ i \in Items /\ job[j].id \in Ids /\ Working(j)
           /\ job[j].stage \in {"mail", "event"}
           /\ job[j].target \in DOMAIN made /\ job[j].source \in DOMAIN made
           /\ made[job[j].target].addr \in Addresses
<1>1. job[j].todo # {}
  OBVIOUS
<1>2. job[j].stage \in {"mail", "event"}
  BY <1>1 DEF TypeInv, Shape, RowShape
<1>3. Working(j) /\ job[j].status = "running"
  BY <1>2 DEF TypeInv, Shape, RowShape, Working
<1>4. job[j].target \in DOMAIN made /\ job[j].source \in DOMAIN made
  BY <1>3 DEF TypeInv, Shape, RowShape
<1>5. job[j].id \in Ids
  BY <1>3 DEF TypeInv, Shape, RowShape
<1> QED
  BY <1>2, <1>3, <1>4, <1>5, RowType, MadeType

\* The mapping that has the id of a job with a thread, or the one it holds.
LEMMA SeenKnown ==
    ASSUME TypeInv, NEW j \in Jobs, Working(j), Seen(j) # 0
    PROVE  Seen(j) \in DOMAIN made /\ Seen(j) \in 0..MaxMade
<1>1. job[j].id \in Ids /\ job[j].held <= Len(made)
  BY DEF TypeInv, Shape, RowShape
<1>2. There(j) \in 0..Len(made)
  BY <1>1 DEF TypeInv, TypeOK, There
<1>3. Len(made) \in Nat /\ Len(made) <= MaxMade /\ MaxMade \in Nat
  BY MadeType, BoundsAssumption DEF TypeInv, Shape
<1> QED
  BY <1>1, <1>2, <1>3, MadeType, RowType DEF Seen

\* The steps that have done with an item.
Passes(j, i) == Skip(j, i) \/ CountOnly(j, i) \/ Record(j, i) \/ ImportFails(j, i)

LEMMA PassesFacts ==
    ASSUME TypeInv, NEW j \in Jobs, NEW i, Passes(j, i)
    PROVE  /\ job' = Past(j, i) /\ i \in job[j].todo
           /\ UNCHANGED <<secret, table, copies, order, purged>>
           /\ rows' \subseteq rows \cup {<<job[j].id, i>>}
           /\ failed' \subseteq failed \cup {<<job[j].id, i>>}
<1>1. job[j].sent \subseteq job[j].todo
  BY DEF TypeInv, Shape, RowShape
<1> QED
  BY <1>1, Zenon DEF Passes, Skip, CountOnly, Record, ImportFails, InHand, items

LEMMA RunCases ==
    ASSUME NEW j \in Jobs, Run(j)
    PROVE  \/ Start(j) \/ Fail(j) \/ List(j) \/ Complete(j) \/ CompleteLost(j)
           \/ \E i \in job[j].todo : Deliver(j, i) \/ Passes(j, i)
BY DEF Run, Passes

LEMMA RunKeepsTypes ==
    ASSUME TypeInv, NEW j \in Jobs, Run(j)
    PROVE  TypeInv'
<1> USE RowType, MadeType
<1>0. Len(made) \in Nat /\ 0 <= Len(made)
  OBVIOUS
<1>1. /\ synced \subseteq Taken
      /\ rows \subseteq Ids \X Items /\ failed \subseteq Ids \X Items
      /\ copies \subseteq Addresses \X Items
  BY DEF TypeInv, TypeOK
<1>2. RowShape(j)
  BY DEF TypeInv, Shape
<1>3. ASSUME Start(j) PROVE TypeInv'
  <2>1. job' \in [Jobs -> JobRows] /\ Others(j) /\ There(j) \in DOMAIN made
    BY <1>3, StartFacts
  <2>2. PICK held \in {There(j), 0}, mail \in Listed(j, "mail", There(j)) :
             job'[j] = [status |-> "running", id |-> job[j].id,
                        stage |-> IF mail # {} THEN "mail" ELSE AfterMail(j),
                        target |-> There(j), source |-> There(j), held |-> held,
                        todo |-> mail, sent |-> {}]
    BY <1>3, StartFacts
  <2>3. job[j].id \in Ids /\ held <= Len(made)
    BY <1>0, <1>2, <1>3, <2>1, <2>2 DEF Start, RowShape
  <2>4. UNCHANGED <<secret, table, items, order, purged>>
    BY <1>3 DEF Start
  <2>5. AfterMail(j) \in {"event", "end"}
    BY DEF AfterMail
  <2>6. RowShape(j)'
    BY <2>1, <2>2, <2>3, <2>4, <2>5 DEF RowShape, Working, table
  <2> QED
    BY <1>1, <2>1, <2>4, <2>6, ThreadKeepsTypes DEF table, items
<1>4. ASSUME Fail(j) PROVE TypeInv'
  <2>1. Settle(j, "failed") /\ job[j].status # "none"
        /\ UNCHANGED <<secret, table, items, order, purged>>
    BY <1>2, <1>4 DEF Fail, Working, RowShape
  <2>2. /\ job' \in [Jobs -> JobRows] /\ Others(j)
        /\ job'[j] = [status |-> "failed", id |-> job[j].id, stage |-> "-",
                      target |-> job[j].target, source |-> job[j].source,
                      held |-> 0, todo |-> {}, sent |-> {}]
    BY <2>1, SettleFacts
  <2>3. RowShape(j)'
    BY <1>0, <1>2, <2>1, <2>2 DEF RowShape, Working, table
  <2> QED
    BY <1>1, <2>1, <2>2, <2>3, ThreadKeepsTypes DEF table, items
<1>5. ASSUME List(j) PROVE TypeInv'
  <2>1. /\ job[j].stage = "event" /\ job[j].todo = {} /\ Seen(j) # 0 /\ Working(j)
        /\ UNCHANGED <<secret, table, items, order, purged>>
    BY <1>5 DEF List, Working
  <2>2. PICK events \in Listed(j, "event", Seen(j)) : job' = Listing(j, Seen(j), events)
    BY <1>5 DEF List
  <2>3. Seen(j) \in DOMAIN made
    BY <2>1, SeenKnown
  <2>4. events \in SUBSET Items
    BY <2>3, ListedType
  <2>5. /\ job' \in [Jobs -> JobRows] /\ Others(j)
        /\ job'[j] = [status |-> job[j].status, id |-> job[j].id,
                      stage |-> IF events = {} THEN "end" ELSE job[j].stage,
                      target |-> job[j].target, source |-> Seen(j),
                      held |-> Seen(j), todo |-> events, sent |-> job[j].sent]
    BY <2>2, <2>3, <2>4, ListingFacts
  <2>6. RowShape(j)'
    BY <1>0, <1>2, <2>1, <2>3, <2>5 DEF RowShape, Working, table
  <2> QED
    BY <1>1, <2>1, <2>5, <2>6, ThreadKeepsTypes DEF table, items
<1>6. ASSUME Complete(j) PROVE TypeInv'
  <2>1. /\ job[j].stage = "end" /\ (order[j].dry \/ There(j) # 0) /\ Settle(j, "completed")
        /\ synced' = IF order[j].dry THEN synced ELSE synced \cup {job[j].id}
        /\ UNCHANGED <<secret, mapping, usable, made, items, order, purged>>
    BY <1>6 DEF Complete
  <2>2. /\ job' \in [Jobs -> JobRows] /\ Others(j)
        /\ job'[j] = [status |-> "completed", id |-> job[j].id, stage |-> "-",
                      target |-> job[j].target, source |-> job[j].source,
                      held |-> 0, todo |-> {}, sent |-> {}]
    BY <2>1, SettleFacts
  <2>3. job[j].id \in Ids /\ (~order[j].dry => job[j].id \in Taken)
    BY <1>2, <2>1 DEF RowShape, Working, There, Taken
  <2>4. synced' \subseteq Taken
    BY <1>1, <2>1, <2>3
  <2>5. RowShape(j)'
    BY <1>0, <2>1, <2>2, <2>3 DEF RowShape, Working
  <2> QED
    BY <1>1, <2>1, <2>2, <2>4, <2>5, ThreadKeepsTypes DEF items
<1>7. ASSUME CompleteLost(j) PROVE TypeInv'
  <2>1. job[j].stage = "end" /\ UNCHANGED <<secret, table, items, order, purged>>
    BY <1>7 DEF CompleteLost
  <2>2. /\ job' \in [Jobs -> JobRows] /\ Others(j)
        /\ job'[j].status = job[j].status /\ job'[j].id = job[j].id
        /\ job'[j].stage = "gone" /\ job'[j].held = 0 /\ job'[j].sent = job[j].sent
        /\ job'[j].todo = job[j].todo
    BY <1>7, LostFacts
  <2>3. job[j].todo = {}
    BY <1>2, <2>1 DEF RowShape
  <2>4. RowShape(j)'
    BY <1>0, <1>2, <2>1, <2>2, <2>3 DEF RowShape, Working, table
  <2> QED
    BY <1>1, <2>1, <2>2, <2>4, ThreadKeepsTypes DEF table, items
<1>8. ASSUME NEW i \in job[j].todo, Passes(j, i) PROVE TypeInv'
  <2>1. /\ job' = Past(j, i)
        /\ UNCHANGED <<secret, table, copies, order, purged>>
        /\ rows' \subseteq rows \cup {<<job[j].id, i>>}
        /\ failed' \subseteq failed \cup {<<job[j].id, i>>}
    BY <1>8, PassesFacts
  <2>2. /\ i \in Items /\ job[j].id \in Ids /\ Working(j)
        /\ job[j].stage \in {"mail", "event"}
    BY ItemsKnown
  <2>3. /\ job' \in [Jobs -> JobRows] /\ Others(j)
        /\ job'[j] = [status |-> job[j].status, id |-> job[j].id,
                      stage |-> IF job[j].todo \ {i} # {} THEN job[j].stage
                                ELSE IF job[j].stage = "mail" THEN AfterMail(j) ELSE "end",
                      target |-> job[j].target, source |-> job[j].source,
                      held |-> 0, todo |-> job[j].todo \ {i}, sent |-> {}]
    BY <2>1, PastFacts
  <2>4. <<job[j].id, i>> \in Ids \X Items
    BY <2>2
  <2>5. rows' \subseteq Ids \X Items /\ failed' \subseteq Ids \X Items
    BY <1>1, <2>1, <2>4
  <2>6. AfterMail(j) \in {"event", "end"}
    BY DEF AfterMail
  <2>7. RowShape(j)'
    BY <1>0, <1>2, <2>1, <2>2, <2>3, <2>6 DEF RowShape, Working, table
  <2> QED
    BY <1>1, <2>1, <2>3, <2>5, <2>7, ThreadKeepsTypes DEF table
<1>9. ASSUME NEW i \in job[j].todo, Deliver(j, i) PROVE TypeInv'
  <2>1. /\ copies' = copies \cup {<<made[job[j].target].addr, i>>} /\ Seen(j) # 0
        /\ UNCHANGED <<secret, table, rows, failed, order, purged>>
    BY <1>9 DEF Deliver, InHand
  <2>2. i \in Items /\ made[job[j].target].addr \in Addresses /\ Working(j)
    BY ItemsKnown
  <2>3. Seen(j) \in DOMAIN made /\ Seen(j) \in 0..MaxMade
    BY <2>1, <2>2, SeenKnown
  <2>4. /\ job' \in [Jobs -> JobRows] /\ Others(j)
        /\ job'[j] = [status |-> job[j].status, id |-> job[j].id, stage |-> job[j].stage,
                      target |-> job[j].target, source |-> job[j].source,
                      held |-> Seen(j), todo |-> job[j].todo, sent |-> {i}]
    BY <1>9, <2>2, <2>3, DeliverFacts
  <2>5. copies' \subseteq Addresses \X Items
    BY <1>1, <2>1, <2>2
  <2>6. RowShape(j)'
    BY <1>0, <1>2, <2>1, <2>2, <2>3, <2>4 DEF RowShape, Working, table
  <2> QED
    BY <1>1, <2>1, <2>4, <2>5, <2>6, ThreadKeepsTypes DEF table
<1> QED
  BY <1>3, <1>4, <1>5, <1>6, <1>7, <1>8, <1>9, RunCases

LEMMA OperatorKeepsTypes ==
    ASSUME TypeInv,
           \/ SaveSetup \/ Purge \/ Restart
           \/ \E j \in Jobs, i \in Ids : Create(j, i) \/ Resync(j, i)
    PROVE  TypeInv'
<1> USE MadeType
<1>1. CASE SaveSetup
  <2>1. secret' = TRUE /\ UNCHANGED <<table, items, job, order, purged>>
    BY <1>1 DEF SaveSetup
  <2>2. TypeOK'
    BY <2>1 DEF table, items, TypeInv, TypeOK, Taken
  <2>3. Shape'
    BY <2>1 DEF table, TypeInv, Shape, RowShape, Taken, Working
  <2> QED
    BY <2>2, <2>3 DEF TypeInv
<1>2. CASE Purge
  <2>1. /\ secret' = FALSE /\ usable' = {} /\ purged' = Len(made)
        /\ UNCHANGED <<mapping, synced, made, items, job, order>>
    BY <1>2 DEF Purge
  <2>2. purged' \in 0..Len(made')
    <3>1. Len(made) \in 0..Len(made)
      OBVIOUS
    <3> QED
      BY <2>1, <3>1
  <2>3. TypeOK'
    BY <2>1, <2>2 DEF items, TypeInv, TypeOK, Taken
  <2>4. Shape'
    BY <2>1 DEF TypeInv, Shape, RowShape, Taken, Working
  <2> QED
    BY <2>3, <2>4 DEF TypeInv
<1>3. CASE Restart
  <2>1. UNCHANGED <<secret, table, items, order, purged>>
    BY <1>3 DEF Restart
  <2>2. /\ job' \in [Jobs -> JobRows]
        /\ \A j \in Jobs :
             IF job[j].status = "running"
             THEN job'[j] = [status |-> "pending", id |-> job[j].id, stage |-> "-",
                             target |-> 0, source |-> 0, held |-> 0, todo |-> {}, sent |-> {}]
             ELSE job'[j] = job[j]
    BY <1>3, RestartFacts
  <2>3. TypeOK'
    BY <2>1, <2>2 DEF table, items, TypeInv, TypeOK, Taken
  <2>4. \A j \in Jobs : RowShape(j)'
    BY <2>1, <2>2 DEF table, TypeInv, Shape, RowShape, Working
  <2> QED
    BY <2>1, <2>3, <2>4 DEF table, TypeInv, Shape, Taken
<1>4. ASSUME NEW j \in Jobs, NEW i \in Ids, Create(j, i) \/ Resync(j, i) PROVE TypeInv'
  <2>1. /\ job' \in [Jobs -> JobRows] /\ Others(j)
        /\ order' \in [Jobs -> Kinds]
        /\ UNCHANGED <<secret, table, items, purged>>
        /\ job'[j] = [status |-> "pending", id |-> i, stage |-> "-", target |-> 0,
                      source |-> 0, held |-> 0, todo |-> {}, sent |-> {}]
    BY <1>4, CreateFacts
  <2>2. TypeOK'
    BY <2>1 DEF table, items, TypeInv, TypeOK, Taken
  <2>3. \A k \in Jobs : RowShape(k)'
    BY <2>1 DEF table, TypeInv, Shape, RowShape, Working
  <2> QED
    BY <2>1, <2>2, <2>3 DEF table, TypeInv, Shape, Taken
<1> QED
  BY <1>1, <1>2, <1>3, <1>4

LEMMA TypeInvStep == TypeInv /\ [Next]_vars => TypeInv'
<1> SUFFICES ASSUME TypeInv, [Next]_vars PROVE TypeInv'
  OBVIOUS
<1>1. CASE \/ \E p \in Pairs : Add(p)
           \/ \E file \in Files : ImportCsv(file)
  BY <1>1, InsertCases, InsertKeepsTypes
<1>2. CASE \E i \in Ids : Delete(i)
  BY <1>2, DeleteKeepsTypes
<1>3. CASE \/ SaveSetup \/ Purge \/ Restart
           \/ \E j \in Jobs, i \in Ids : Create(j, i) \/ Resync(j, i)
  BY <1>3, OperatorKeepsTypes
<1>4. CASE \E j \in Jobs : Run(j)
  BY <1>4, RunKeepsTypes
<1>5. CASE UNCHANGED vars
  <2>1. UNCHANGED <<secret, table, items, job, order, purged>>
    BY <1>5 DEF vars
  <2>2. TypeOK'
    BY <2>1 DEF table, items, TypeInv, TypeOK, Taken
  <2>3. Shape'
    BY <2>1 DEF table, TypeInv, Shape, RowShape, Taken, Working
  <2> QED
    BY <2>2, <2>3 DEF TypeInv
<1> QED
  BY <1>1, <1>2, <1>3, <1>4, <1>5 DEF Next

LEMMA TypeInvInit == Init => TypeInv
<1> SUFFICES ASSUME Init PROVE TypeInv
  OBVIOUS
<1>1. made = << >> /\ Len(made) = 0 /\ made \in Seq(Mades)
  BY DEF Init
<1>2. \A j \in Jobs : job[j] = [status |-> "none", id |-> 0, stage |-> "-", target |-> 0,
                                source |-> 0, held |-> 0, todo |-> {}, sent |-> {}]
  BY DEF Init, NoJob
<1>3. job \in [Jobs -> JobRows]
  <2>1. \A j \in Jobs : job[j] \in JobRows
    BY <1>2, BoundsAssumption DEF JobRows
  <2> QED
    BY <2>1 DEF Init
<1>4. Taken = {}
  BY DEF Init, Taken
<1>5. TypeOK
  <2>1. mapping \in [Ids -> 0..Len(made)] /\ purged \in 0..Len(made) /\ secret \in BOOLEAN
    <3>1. mapping = [i \in Ids |-> 0] /\ purged = 0 /\ secret = FALSE
      BY DEF Init
    <3>2. 0 \in 0..Len(made)
      BY ONLY <1>1
    <3> QED
      BY ONLY <3>1, <3>2
  <2>2. order \in [Jobs -> Kinds]
    <3>1. NoOrder \in Kinds
      BY DEF NoOrder, Kinds
    <3> QED
      BY <3>1 DEF Init
  <2>3. usable = {} /\ synced = {} /\ rows = {} /\ failed = {} /\ copies = {}
    BY DEF Init
  <2> QED
    BY <1>1, <1>3, <2>1, <2>2, <2>3, Zenon DEF TypeOK, Mades
<1>6. Shape
  BY <1>1, <1>2, <1>4, BoundsAssumption DEF Shape, RowShape, Working
<1> QED
  BY <1>5, <1>6 DEF TypeInv

LEMMA TypesHold == Spec => []TypeInv
BY TypeInvInit, TypeInvStep, PTL DEF Spec

\* Every variable has its type: an id in the table is that of a mapping that has
\* been made, and a thread refers to mappings that there have been.
THEOREM MappingTableTypeCorrect == Spec => []TypeOK
<1>1. TypeInv => TypeOK
  BY DEF TypeInv
<1> QED
  BY <1>1, TypesHold, PTL

-----------------------------------------------------------------------------
(* Whose an id is.                                                         *)

Owns(n, i) == n \in DOMAIN made /\ made[n].id = i

\* Everything a job refers to is a mapping with its id; what comes to have the
\* id later is a later mapping.
RowOwns(j) ==
    Working(j) =>
        /\ Owns(job[j].target, job[j].id) /\ Owns(job[j].source, job[j].id)
        /\ job[j].target <= job[j].source
        /\ There(j) # 0 => job[j].target <= There(j)
        /\ job[j].held # 0 => Owns(job[j].held, job[j].id) /\ job[j].target <= job[j].held
        /\ job[j].todo \subseteq Contents(made[job[j].source].user, job[j].stage)

OwnInv ==
    /\ \A i \in Taken : Owns(mapping[i], i)
    /\ \A j \in Jobs : RowOwns(j)

\* Mappings are added at the end of the history and stay in it.
LEMMA HistoryKept ==
    ASSUME TypeInv, [Next]_vars
    PROVE  \A n \in DOMAIN made : n \in DOMAIN made' /\ made'[n] = made[n]
<1>1. CASE \E new \in Seq(Pairs) : Insert(new)
  BY <1>1, InsertFacts
<1>2. CASE UNCHANGED made
  BY <1>2
<1>3. ASSUME NEW j \in Jobs, Run(j) PROVE UNCHANGED made
  BY <1>3, RunCases, PassesFacts DEF Start, Fail, List, Complete, CompleteLost, Deliver, table
<1>4. ASSUME NEW j \in Jobs, NEW i \in Ids, Create(j, i) \/ Resync(j, i)
      PROVE  UNCHANGED made
  BY <1>4, CreateFacts DEF table
<1> QED
  BY <1>1, <1>2, <1>3, <1>4, InsertCases
     DEF Next, Delete, SaveSetup, Purge, Restart, vars, table

LEMMA InsertKeepsOwners ==
    ASSUME TypeInv, OwnInv, NEW new \in Seq(Pairs), Insert(new)
    PROVE  OwnInv'
<1>1. /\ \A n \in DOMAIN made : n \in DOMAIN made' /\ made'[n] = made[n]
      /\ \A i \in Ids :
           \/ mapping'[i] \in DOMAIN made' \ DOMAIN made /\ made'[mapping'[i]].id = i
           \/ mapping'[i] = mapping[i]
      /\ made' \in Seq(Mades) /\ job' = job
  BY InsertFacts
<1>2. /\ DOMAIN made' = 1..Len(made') /\ Len(made') \in Nat
      /\ DOMAIN made = 1..Len(made) /\ Len(made) \in Nat
  BY <1>1, MadeType, LenProperties
<1>3. ASSUME NEW i \in Taken' PROVE Owns(mapping[i], i)'
  <2>1. i \in Ids /\ mapping'[i] # 0
    BY DEF Taken
  <2>2. CASE mapping'[i] = mapping[i]
    <3>1. Owns(mapping[i], i)
      BY <2>1, <2>2 DEF OwnInv, Taken
    <3> QED
      BY <1>1, <2>2, <3>1 DEF Owns
  <2> QED
    BY <1>1, <2>1, <2>2 DEF Owns
<1>4. ASSUME NEW j \in Jobs PROVE RowOwns(j)'
  <2> SUFFICES ASSUME Working(j) PROVE RowOwns(j)'
    BY <1>1 DEF RowOwns, Working
  <2>1. /\ Owns(job[j].target, job[j].id) /\ Owns(job[j].source, job[j].id)
        /\ job[j].target <= job[j].source
        /\ There(j) # 0 => job[j].target <= There(j)
        /\ job[j].held # 0 => Owns(job[j].held, job[j].id) /\ job[j].target <= job[j].held
        /\ job[j].todo \subseteq Contents(made[job[j].source].user, job[j].stage)
    BY DEF OwnInv, RowOwns
  <2>2. job[j].id \in Ids
    BY DEF TypeInv, Shape, RowShape, Working
  <2>3. \A n, i : Owns(n, i) => Owns(n, i)'
    BY <1>1 DEF Owns
  <2>4. There(j)' # 0 => job[j].target <= There(j)'
    <3>1. There(j)' = mapping'[job[j].id]
      BY <1>1 DEF There
    <3>2. CASE mapping'[job[j].id] = mapping[job[j].id]
      BY <2>1, <3>1, <3>2 DEF There
    <3>3. CASE mapping'[job[j].id] \in DOMAIN made' \ DOMAIN made
      BY <1>2, <2>1, <3>1, <3>3 DEF Owns
    <3> QED
      BY <1>1, <2>2, <3>2, <3>3
  <2>5. made'[job[j].source] = made[job[j].source]
    BY <1>1, <2>1 DEF Owns
  <2> QED
    BY <1>1, <2>1, <2>3, <2>4, <2>5 DEF RowOwns
<1> QED
  BY <1>3, <1>4 DEF OwnInv

\* A thread changes its own row only.
LEMMA ThreadKeepsOwners ==
    ASSUME OwnInv, NEW j \in Jobs, Others(j), UNCHANGED <<mapping, made>>, RowOwns(j)'
    PROVE  OwnInv'
BY DEF OwnInv, RowOwns, Owns, Taken, Working, There

LEMMA IdleRowOwns ==
    ASSUME NEW j \in Jobs, job'[j].stage \notin {"mail", "event", "end"}
    PROVE  RowOwns(j)'
BY DEF RowOwns, Working

\* The mapping whose user is listed has the job's id.
LEMMA SeenOwns ==
    ASSUME TypeInv, OwnInv, NEW j \in Jobs, Working(j), Seen(j) # 0
    PROVE  Owns(Seen(j), job[j].id) /\ job[j].target <= Seen(j)
<1>1. job[j].id \in Ids
  BY DEF TypeInv, Shape, RowShape
<1>2. CASE job[j].held # 0
  BY <1>2 DEF Seen, OwnInv, RowOwns
<1>3. CASE job[j].held = 0
  <2>1. Seen(j) = There(j) /\ job[j].id \in Taken
    BY <1>1, <1>3 DEF Seen, There, Taken
  <2> QED
    BY <2>1 DEF OwnInv, RowOwns, There
<1> QED
  BY <1>2, <1>3

LEMMA RunKeepsOwners ==
    ASSUME TypeInv, OwnInv, NEW j \in Jobs, Run(j)
    PROVE  OwnInv'
<1> USE MadeType
<1>1. ASSUME Start(j) PROVE OwnInv'
  <2>1. /\ Others(j) /\ There(j) \in DOMAIN made
        /\ UNCHANGED <<secret, table, items, order, purged>>
    BY <1>1, StartFacts DEF Start
  <2>2. PICK held \in {There(j), 0}, mail \in Listed(j, "mail", There(j)) :
             job'[j] = [status |-> "running", id |-> job[j].id,
                        stage |-> IF mail # {} THEN "mail" ELSE AfterMail(j),
                        target |-> There(j), source |-> There(j), held |-> held,
                        todo |-> mail, sent |-> {}]
    BY <1>1, StartFacts
  <2>3. job[j].id \in Ids
    BY <1>1 DEF TypeInv, Shape, RowShape, Start
  <2>4. Owns(There(j), job[j].id) /\ There(j) \in Nat
    BY <2>1, <2>3 DEF OwnInv, Taken, There
  <2>5. mail \subseteq Contents(made[There(j)].user, "mail")
    BY <2>1, ListedType
  <2>6. RowOwns(j)'
    <3>1. There(j)' = There(j) /\ made' = made
      BY <2>1, <2>2 DEF There, table
    <3>2. job'[j].todo \subseteq Contents(made[There(j)].user, job'[j].stage)
      BY <2>2, <2>5
    <3> QED
      BY <2>1, <2>2, <2>4, <3>1, <3>2 DEF RowOwns, Owns
  <2> QED
    BY <2>1, <2>6, ThreadKeepsOwners DEF table
<1>2. ASSUME Fail(j) PROVE OwnInv'
  <2>1. Settle(j, "failed") /\ UNCHANGED <<mapping, made>>
    BY <1>2 DEF Fail, table
  <2>2. Others(j) /\ job'[j].stage = "-"
    BY <2>1, SettleFacts
  <2> QED
    BY <2>1, <2>2, IdleRowOwns, ThreadKeepsOwners
<1>3. ASSUME List(j) PROVE OwnInv'
  <2>1. /\ job[j].stage = "event" /\ Seen(j) # 0 /\ Working(j)
        /\ UNCHANGED <<mapping, made>>
    BY <1>3 DEF List, Working, table
  <2>2. PICK events \in Listed(j, "event", Seen(j)) : job' = Listing(j, Seen(j), events)
    BY <1>3 DEF List
  <2>3. Owns(Seen(j), job[j].id) /\ job[j].target <= Seen(j)
    BY <2>1, SeenOwns
  <2>4. /\ events \in SUBSET Items
        /\ events \subseteq Contents(made[Seen(j)].user, "event")
    BY <2>3, ListedType DEF Owns
  <2>5. /\ Others(j)
        /\ job'[j] = [status |-> job[j].status, id |-> job[j].id,
                      stage |-> IF events = {} THEN "end" ELSE job[j].stage,
                      target |-> job[j].target, source |-> Seen(j),
                      held |-> Seen(j), todo |-> events, sent |-> job[j].sent]
    BY <2>2, <2>3, <2>4, ListingFacts DEF Owns
  <2>6. There(j)' = There(j)
    BY <2>1, <2>5 DEF There
  <2>7. /\ Owns(job[j].target, job[j].id)
        /\ There(j) # 0 => job[j].target <= There(j)
    BY <2>1 DEF OwnInv, RowOwns
  <2>8. job'[j].todo \subseteq Contents(made[Seen(j)].user, job'[j].stage)
    BY <2>1, <2>4, <2>5
  <2>9. RowOwns(j)'
    BY <2>1, <2>3, <2>5, <2>6, <2>7, <2>8 DEF RowOwns, Owns
  <2> QED
    BY <2>1, <2>5, <2>9, ThreadKeepsOwners
<1>4. ASSUME Complete(j) PROVE OwnInv'
  <2>1. Settle(j, "completed") /\ UNCHANGED <<mapping, made>>
    BY <1>4 DEF Complete
  <2>2. Others(j) /\ job'[j].stage = "-"
    BY <2>1, SettleFacts
  <2> QED
    BY <2>1, <2>2, IdleRowOwns, ThreadKeepsOwners
<1>5. ASSUME CompleteLost(j) PROVE OwnInv'
  <2>1. UNCHANGED <<mapping, made>>
    BY <1>5 DEF CompleteLost, table
  <2>2. Others(j) /\ job'[j].stage = "gone"
    BY <1>5, LostFacts
  <2> QED
    BY <2>1, <2>2, IdleRowOwns, ThreadKeepsOwners
<1>6. ASSUME NEW i \in job[j].todo, Passes(j, i) PROVE OwnInv'
  <2>1. job' = Past(j, i) /\ UNCHANGED <<mapping, made>>
    BY <1>6, PassesFacts DEF table
  <2>2. Working(j)
    BY ItemsKnown
  <2>3. /\ Others(j)
        /\ job'[j] = [status |-> job[j].status, id |-> job[j].id,
                      stage |-> IF job[j].todo \ {i} # {} THEN job[j].stage
                                ELSE IF job[j].stage = "mail" THEN AfterMail(j) ELSE "end",
                      target |-> job[j].target, source |-> job[j].source,
                      held |-> 0, todo |-> job[j].todo \ {i}, sent |-> {}]
    BY <2>1, PastFacts
  <2>4. There(j)' = There(j)
    BY <2>1, <2>3 DEF There
  <2>5. /\ Owns(job[j].target, job[j].id) /\ Owns(job[j].source, job[j].id)
        /\ job[j].target <= job[j].source
        /\ There(j) # 0 => job[j].target <= There(j)
        /\ job[j].todo \subseteq Contents(made[job[j].source].user, job[j].stage)
    BY <2>2 DEF OwnInv, RowOwns
  <2>6. job'[j].todo \subseteq Contents(made'[job'[j].source].user, job'[j].stage)
    <3>1. CASE job[j].todo \ {i} = {}
      BY <2>3, <3>1
    <3>2. CASE job[j].todo \ {i} # {}
      <4>1. job'[j].stage = job[j].stage /\ job'[j].source = job[j].source
            /\ job'[j].todo \subseteq job[j].todo
        BY <2>3, <3>2
      <4> QED
        BY <2>1, <2>5, <4>1
    <3> QED
      BY <3>1, <3>2
  <2>7. RowOwns(j)'
    BY <2>1, <2>3, <2>4, <2>5, <2>6 DEF RowOwns, Owns
  <2> QED
    BY <2>1, <2>3, <2>7, ThreadKeepsOwners
<1>7. ASSUME NEW i \in job[j].todo, Deliver(j, i) PROVE OwnInv'
  <2>1. Seen(j) # 0 /\ UNCHANGED <<mapping, made>>
    BY <1>7 DEF Deliver, InHand, table
  <2>2. i \in Items /\ Working(j)
    BY ItemsKnown
  <2>3. Owns(Seen(j), job[j].id) /\ job[j].target <= Seen(j)
    BY <2>1, <2>2, SeenOwns
  <2>4. Seen(j) \in 0..MaxMade
    BY <2>1, <2>2, SeenKnown
  <2>5. /\ Others(j)
        /\ job'[j] = [status |-> job[j].status, id |-> job[j].id, stage |-> job[j].stage,
                      target |-> job[j].target, source |-> job[j].source,
                      held |-> Seen(j), todo |-> job[j].todo, sent |-> {i}]
    BY <1>7, <2>2, <2>4, DeliverFacts
  <2>6. There(j)' = There(j)
    BY <2>1, <2>5 DEF There
  <2>7. RowOwns(j)
    BY DEF OwnInv
  <2>8. RowOwns(j)'
    BY <2>1, <2>2, <2>3, <2>5, <2>6, <2>7 DEF RowOwns, Owns
  <2> QED
    BY <2>1, <2>5, <2>8, ThreadKeepsOwners
<1> QED
  BY <1>1, <1>2, <1>3, <1>4, <1>5, <1>6, <1>7, RunCases

LEMMA OwnersStep == TypeInv /\ OwnInv /\ [Next]_vars => OwnInv'
<1> SUFFICES ASSUME TypeInv, OwnInv, [Next]_vars PROVE OwnInv'
  OBVIOUS
<1>1. CASE \/ \E p \in Pairs : Add(p)
           \/ \E file \in Files : ImportCsv(file)
  BY <1>1, InsertCases, InsertKeepsOwners
<1>2. ASSUME NEW i \in Ids, Delete(i) PROVE OwnInv'
  <2>1. /\ mapping' = [mapping EXCEPT ![i] = 0] /\ UNCHANGED <<job, made>>
        /\ mapping \in [Ids -> 0..Len(made)]
    BY <1>2 DEF Delete, TypeInv, TypeOK
  <2>2. \A k \in Ids : mapping'[k] = mapping[k] \/ mapping'[k] = 0
    BY <2>1
  <2>3. \A j \in Jobs : Working(j) => job[j].id \in Ids
    BY DEF TypeInv, Shape, RowShape, Working
  <2>4. \A k \in Taken' : Owns(mapping[k], k)'
    BY <2>1, <2>2 DEF OwnInv, Owns, Taken
  <2>5. \A j \in Jobs : RowOwns(j)'
    BY <2>1, <2>2, <2>3 DEF OwnInv, RowOwns, Owns, Working, There
  <2> QED
    BY <2>4, <2>5 DEF OwnInv
<1>3. CASE SaveSetup \/ Purge \/ UNCHANGED vars
  <2>1. UNCHANGED <<mapping, made, job>>
    BY <1>3 DEF SaveSetup, Purge, vars, table
  <2> QED
    BY <2>1 DEF OwnInv, RowOwns, Owns, Taken, Working, There
<1>4. CASE Restart
  <2>1. UNCHANGED <<mapping, made>>
    BY <1>4 DEF Restart, table
  <2>2. \A j \in Jobs : job'[j] = job[j] \/ job'[j].stage = "-"
    BY <1>4, RestartFacts
  <2>3. \A j \in Jobs : RowOwns(j)'
    BY <2>1, <2>2 DEF OwnInv, RowOwns, Owns, Working, There
  <2> QED
    BY <2>1, <2>3 DEF OwnInv, Owns, Taken
<1>5. ASSUME NEW j \in Jobs, NEW i \in Ids, Create(j, i) \/ Resync(j, i) PROVE OwnInv'
  <2>1. UNCHANGED <<mapping, made>>
    BY <1>5, CreateFacts DEF table
  <2>2. Others(j) /\ job'[j].stage = "-"
    BY <1>5, CreateFacts
  <2> QED
    BY <2>1, <2>2, IdleRowOwns, ThreadKeepsOwners
<1>6. CASE \E j \in Jobs : Run(j)
  BY <1>6, RunKeepsOwners
<1> QED
  BY <1>1, <1>2, <1>3, <1>4, <1>5, <1>6 DEF Next

LEMMA OwnersHold == Spec => [](TypeInv /\ OwnInv)
<1>1. Init => OwnInv
  <2> SUFFICES ASSUME Init PROVE OwnInv
    OBVIOUS
  <2>1. Taken = {} /\ \A j \in Jobs : ~Working(j)
    BY DEF Init, Taken, Working, NoJob
  <2> QED
    BY <2>1 DEF OwnInv, RowOwns
<1> QED
  BY <1>1, TypeInvInit, TypeInvStep, OwnersStep, PTL DEF Spec

-----------------------------------------------------------------------------
(* After a purge.                                                          *)

\* An app password that is there has been typed in since the last purge.
PurgeInv == \A i \in usable : mapping[i] > purged

LEMMA PurgeStep == TypeInv /\ PurgeInv /\ [Next]_vars => PurgeInv'
<1> SUFFICES ASSUME TypeInv, PurgeInv, [Next]_vars PROVE PurgeInv'
  OBVIOUS
<1>1. ASSUME NEW new \in Seq(Pairs), Insert(new) PROVE PurgeInv'
  <2>1. /\ \A i \in Ids :
             \/ mapping'[i] \in DOMAIN made' \ DOMAIN made
             \/ mapping'[i] = mapping[i] /\ ((i \in usable') <=> (i \in usable))
        /\ usable' \subseteq Ids /\ purged' = purged /\ made' \in Seq(Mades)
    BY <1>1, InsertFacts
  <2>2. DOMAIN made' = 1..Len(made') /\ Len(made') \in Nat
    BY <2>1, LenProperties
  <2>3. \A n \in DOMAIN made' \ DOMAIN made : n > purged
    BY <2>2, MadeType DEF TypeInv, TypeOK
  <2> QED
    BY <2>1, <2>3 DEF PurgeInv
<1>2. ASSUME NEW i \in Ids, Delete(i) PROVE PurgeInv'
  <2>1. /\ mapping' = [mapping EXCEPT ![i] = 0] /\ usable' = usable \ {i} /\ purged' = purged
        /\ mapping \in [Ids -> 0..Len(made)] /\ usable \subseteq Ids
    BY <1>2 DEF Delete, TypeInv, TypeOK, Taken
  <2> QED
    BY <2>1 DEF PurgeInv
<1>3. CASE Purge
  BY <1>3 DEF Purge, PurgeInv
<1>4. CASE UNCHANGED <<mapping, usable, purged>>
  BY <1>4 DEF PurgeInv
<1>5. ASSUME NEW j \in Jobs, Run(j) PROVE UNCHANGED <<mapping, usable, purged>>
  BY <1>5, RunCases, PassesFacts DEF Start, Fail, List, Complete, CompleteLost, Deliver, table
<1>6. ASSUME NEW j \in Jobs, NEW i \in Ids, Create(j, i) \/ Resync(j, i)
      PROVE  UNCHANGED <<mapping, usable, purged>>
  BY <1>6, CreateFacts DEF table
<1> QED
  BY <1>1, <1>2, <1>3, <1>4, <1>5, <1>6, InsertCases
     DEF Next, SaveSetup, Restart, vars, table

\* PurgeIsFinal: a job starts, and reads an app password, only for a mapping that
\* was added after the last purge.
THEOREM PurgedStaysPurged == Spec => PurgeIsFinal
<1>1. Init => PurgeInv
  BY DEF Init, PurgeInv
<1>2. ASSUME PurgeInv, NEW j \in Jobs, Start(j) PROVE There(j) > purged
  BY <1>2 DEF PurgeInv, Start, Ready, There
<1>3. PurgeInv /\ [Next]_vars => [\A j \in Jobs : Start(j) => There(j) > purged]_vars
  BY <1>2
<1> QED
  BY <1>1, <1>3, TypesHold, PurgeStep, PTL DEF Spec, PurgeIsFinal

-----------------------------------------------------------------------------
(* Copies.                                                                 *)

\* Copies come with deliveries alone, records with an item dealt with.
LEMMA OnlyDeliveries ==
    ASSUME TypeInv, [Next]_vars
    PROVE  /\ \/ UNCHANGED copies
              \/ \E j \in Jobs : \E i \in job[j].todo : Deliver(j, i)
           /\ \/ UNCHANGED <<rows, failed>>
              \/ \E j \in Jobs : \E i \in job[j].todo : Passes(j, i)
<1>1. CASE \E new \in Seq(Pairs) : Insert(new)
  BY <1>1 DEF Insert, items
<1>2. ASSUME NEW j \in Jobs, Run(j)
      PROVE  \/ UNCHANGED items
             \/ \E i \in job[j].todo : \/ Deliver(j, i) /\ UNCHANGED <<rows, failed>>
                                       \/ Passes(j, i) /\ UNCHANGED copies
  BY <1>2, RunCases, PassesFacts DEF Start, Fail, List, Complete, CompleteLost, Deliver
<1>3. ASSUME NEW j \in Jobs, NEW i \in Ids, Create(j, i) \/ Resync(j, i)
      PROVE  UNCHANGED items
  BY <1>3, CreateFacts
<1>4. CASE (\E i \in Ids : Delete(i)) \/ SaveSetup \/ Purge \/ Restart \/ UNCHANGED vars
  BY <1>4 DEF Delete, SaveSetup, Purge, Restart, vars, items
<1>5. CASE UNCHANGED items
  BY <1>5 DEF items
<1> QED
  BY <1>1, <1>2, <1>3, <1>4, <1>5, InsertCases DEF Next

LEMMA CopiesStay ==
    ASSUME TypeInv, [Next]_vars
    PROVE  copies \subseteq copies'
BY OnlyDeliveries DEF Deliver

\* An item at an address was put there by a job, for the mapping the job had read
\* its address from and the mapping whose mailbox it had listed.
LEMMA DeliveredStep == TypeInv /\ OwnInv /\ DeliveredAsMapped /\ [Next]_vars => DeliveredAsMapped'
<1> SUFFICES ASSUME TypeInv, OwnInv, DeliveredAsMapped, [Next]_vars PROVE DeliveredAsMapped'
  OBVIOUS
<1>1. \A n \in DOMAIN made : n \in DOMAIN made' /\ made'[n] = made[n]
  BY HistoryKept
<1>2. ASSUME NEW c \in copies
      PROVE  \E n, m \in DOMAIN made' :
                /\ made'[n].addr = c[1] /\ c[2] \in Whole(made'[m].user)
                /\ made'[n].id = made'[m].id /\ n <= m
  <2>1. PICK n \in DOMAIN made, m \in DOMAIN made :
                /\ made[n].addr = c[1] /\ c[2] \in Whole(made[m].user)
                /\ made[n].id = made[m].id /\ n <= m
    BY DEF DeliveredAsMapped
  <2> QED
    BY <1>1, <2>1
<1>3. CASE UNCHANGED copies
  BY <1>2, <1>3 DEF DeliveredAsMapped
<1>4. ASSUME NEW j \in Jobs, NEW i \in job[j].todo, Deliver(j, i) PROVE DeliveredAsMapped'
  <2> DEFINE n == job[j].target
             m == job[j].source
  <2>1. copies' = copies \cup {<<made[n].addr, i>>} /\ made' = made
    BY <1>4 DEF Deliver, table
  <2>2. /\ n \in DOMAIN made /\ m \in DOMAIN made /\ Working(j)
        /\ job[j].stage \in {"mail", "event"}
    BY ItemsKnown
  <2>3. /\ made[n].id = made[m].id /\ n <= m
        /\ job[j].todo \subseteq Contents(made[m].user, job[j].stage)
    BY <2>2 DEF OwnInv, RowOwns, Owns
  <2>4. i \in Whole(made[m].user)
    BY <2>2, <2>3 DEF Whole
  <2> HIDE DEF n, m
  <2>5. ASSUME NEW c \in copies'
        PROVE  \E n1, m1 \in DOMAIN made' :
                /\ made'[n1].addr = c[1] /\ c[2] \in Whole(made'[m1].user)
                /\ made'[n1].id = made'[m1].id /\ n1 <= m1
    <3>1. CASE c \in copies
      BY <1>2, <3>1
    <3>2. CASE c = <<made[n].addr, i>>
      <4>1. c[1] = made[n].addr /\ c[2] = i
        BY <3>2
      <4> QED
        BY <2>1, <2>2, <2>3, <2>4, <4>1
    <3> QED
      BY <2>1, <2>5, <3>1, <3>2
  <2> QED
    BY <2>5 DEF DeliveredAsMapped
<1> QED
  BY <1>3, <1>4, OnlyDeliveries

\* DeliveredAsMapped: whatever is deleted, added and imported while jobs run, an
\* item gets to an address only along mappings that have or had one id.
THEOREM ItemsGoWhereMapped == Spec => []DeliveredAsMapped
<1>1. Init => DeliveredAsMapped
  BY DEF Init, DeliveredAsMapped
<1> QED
  BY <1>1, OwnersHold, DeliveredStep, PTL DEF Spec

-----------------------------------------------------------------------------
(* Ids that were handed on.                                                *)

LEMMA OwnersFinite ==
    ASSUME TypeInv, NEW i
    PROVE  IsFiniteSet(Owners(i)) /\ Cardinality(Owners(i)) \in Nat
<1>1. IsFiniteSet(DOMAIN made)
  BY MadeType, FS_Interval
<1>2. IsFiniteSet(Owners(i))
  BY <1>1, FS_Subset DEF Owners
<1> QED
  BY <1>2, FS_CardinalityType

\* An id that two mappings have had has been handed on.
LEMMA SoleOwner ==
    ASSUME TypeInv, NEW i, ~HandedOn(i), NEW n, NEW m, Owns(n, i), Owns(m, i)
    PROVE  n = m
<1> SUFFICES ASSUME n # m PROVE FALSE
  OBVIOUS
<1>1. {n, m} \subseteq Owners(i)
  BY DEF Owners, Owns
<1>2. Cardinality({n} \cup {m}) = 2
  <2>1. IsFiniteSet({n}) /\ Cardinality({n}) = 1
    BY FS_Singleton
  <2> QED
    BY <2>1, FS_AddElement
<1>3. {n, m} = {n} \cup {m}
  OBVIOUS
<1>4. Cardinality({n, m}) <= Cardinality(Owners(i))
  BY <1>1, OwnersFinite, FS_Subset
<1> QED
  BY <1>2, <1>3, <1>4, OwnersFinite DEF HandedOn

LEMMA HandedOnStays ==
    ASSUME TypeInv, [Next]_vars, NEW i, HandedOn(i)
    PROVE  HandedOn(i)'
<1>1. Owners(i) \subseteq Owners(i)'
  BY HistoryKept DEF Owners
<1>2. IsFiniteSet(Owners(i)') /\ Cardinality(Owners(i)') \in Nat
  <2>1. made' \in Seq(Mades)
    BY TypeInvStep DEF TypeInv, TypeOK, Mades
  <2>2. DOMAIN made' = 1..Len(made') /\ Len(made') \in Nat
    BY <2>1, LenProperties
  <2>3. IsFiniteSet(DOMAIN made')
    BY <2>2, FS_Interval
  <2>4. IsFiniteSet(Owners(i)')
    BY <2>3, FS_Subset DEF Owners
  <2> QED
    BY <2>4, FS_CardinalityType
<1>3. Cardinality(Owners(i)) <= Cardinality(Owners(i)')
  BY <1>1, <1>2, FS_Subset
<1> QED
  BY <1>2, <1>3, OwnersFinite DEF HandedOn

-----------------------------------------------------------------------------
(* What becomes of a job's row.                                            *)

LEMMA RowSteps ==
    ASSUME TypeInv, [Next]_vars, NEW j \in Jobs
    PROVE  \/ job'[j] = job[j] /\ order'[j] = order[j]
           \/ Run(j) /\ order'[j] = order[j]
           \/ /\ job[j].status \in {"none", "running"}
              /\ job'[j].stage = "-" /\ job'[j].status = "pending" /\ job'[j].sent = {}
<1>1. CASE \E new \in Seq(Pairs) : Insert(new)
  BY <1>1 DEF Insert
<1>2. ASSUME NEW k \in Jobs, Run(k), k # j PROVE job'[j] = job[j]
  <2>1. CASE Start(k)
    BY <1>2, <2>1, StartFacts
  <2>2. CASE Settle(k, "failed") \/ Settle(k, "completed")
    BY <1>2, <2>2, SettleFacts
  <2>3. CASE CompleteLost(k)
    BY <1>2, <2>3, LostFacts
  <2>4. CASE List(k)
    <3>1. job \in [Jobs -> JobRows]
      BY DEF TypeInv, TypeOK
    <3> QED
      BY <1>2, <2>4, <3>1 DEF List, Listing
  <2>5. ASSUME NEW i \in job[k].todo, Passes(k, i) PROVE job'[j] = job[j]
    BY <1>2, <2>5, PassesFacts, PastFacts
  <2>6. ASSUME NEW i \in job[k].todo, Deliver(k, i) PROVE job'[j] = job[j]
    <3>1. job \in [Jobs -> JobRows]
      BY DEF TypeInv, TypeOK
    <3> QED
      BY <1>2, <2>6, <3>1 DEF Deliver
  <2> QED
    BY <1>2, <2>1, <2>2, <2>3, <2>4, <2>5, <2>6, RunCases DEF Fail, Complete
<1>3. ASSUME NEW k \in Jobs, Run(k) PROVE order' = order
  BY <1>3, RunCases, PassesFacts DEF Start, Fail, List, Complete, CompleteLost, Deliver
<1>4. ASSUME NEW k \in Jobs, NEW i \in Ids, Create(k, i) \/ Resync(k, i)
      PROVE  \/ job'[j] = job[j] /\ order'[j] = order[j]
             \/ /\ job[j].status = "none"
                /\ job'[j].stage = "-" /\ job'[j].status = "pending" /\ job'[j].sent = {}
  <2>1. /\ Others(k) /\ \A l \in Jobs : l # k => order'[l] = order[l]
        /\ job[k].status = "none"
        /\ job'[k] = [status |-> "pending", id |-> i, stage |-> "-", target |-> 0,
                      source |-> 0, held |-> 0, todo |-> {}, sent |-> {}]
    BY <1>4, CreateFacts
  <2> QED
    BY <2>1
<1>5. CASE Restart
  <2>1. IF job[j].status = "running"
        THEN job'[j] = [status |-> "pending", id |-> job[j].id, stage |-> "-",
                        target |-> 0, source |-> 0, held |-> 0, todo |-> {}, sent |-> {}]
        ELSE job'[j] = job[j]
    BY <1>5, RestartFacts
  <2> QED
    BY <1>5, <2>1 DEF Restart
<1> QED
  BY <1>1, <1>2, <1>3, <1>4, <1>5, InsertCases DEF Next, Delete, SaveSetup, Purge, vars

\* A thread runs for a job that has not ended.
LEMMA RunsUnsettled ==
    ASSUME TypeInv, NEW j \in Jobs, Run(j)
    PROVE  job[j].status \in {"pending", "running"}
<1>1. Working(j) => job[j].status = "running"
  BY DEF TypeInv, Shape, RowShape
<1>2. \A i \in job[j].todo : Working(j)
  BY ItemsKnown
<1> QED
  BY <1>1, <1>2 DEF Run, Start, Fail, List, Complete, CompleteLost, Working

LEMMA CompletedStays ==
    ASSUME TypeInv, [Next]_vars, NEW j \in Jobs, job[j].status = "completed"
    PROVE  job'[j] = job[j] /\ order'[j] = order[j]
BY RowSteps, RunsUnsettled

-----------------------------------------------------------------------------
(* What a resync rests on.                                                 *)

LEMMA ResyncStep ==
    TypeInv /\ OwnInv /\ ResyncAfterMigration /\ [Next]_vars => ResyncAfterMigration'
<1> SUFFICES ASSUME TypeInv, OwnInv, ResyncAfterMigration, [Next]_vars
             PROVE  ResyncAfterMigration'
  OBVIOUS
<1>1. \A i : HandedOn(i) => HandedOn(i)'
  BY HandedOnStays
<1>2. \A j \in Jobs : Real(j) => Real(j)' /\ job'[j].target = job[j].target
  BY CompletedStays DEF Real
<1>3. synced \subseteq Ids
  BY DEF TypeInv, TypeOK, Taken
<1>4. ASSUME NEW i \in synced, mapping'[i] = mapping[i]
      PROVE  HandedOn(i)' \/ \E j \in Jobs : Real(j)' /\ job'[j].target = mapping'[i]
  BY <1>1, <1>2, <1>4 DEF ResyncAfterMigration
<1>5. ASSUME NEW new \in Seq(Pairs), Insert(new) PROVE ResyncAfterMigration'
  <2>1. /\ \A i \in Ids :
             i \notin synced' \/ (mapping'[i] = mapping[i] /\ (i \in synced))
        /\ synced' \subseteq Ids
    BY <1>5, InsertFacts
  <2> QED
    BY <1>4, <2>1 DEF ResyncAfterMigration
<1>6. ASSUME NEW i \in Ids, Delete(i) PROVE ResyncAfterMigration'
  <2>1. /\ mapping' = [mapping EXCEPT ![i] = 0] /\ synced' = synced \ {i}
        /\ mapping \in [Ids -> 0..Len(made)]
    BY <1>6 DEF Delete, TypeInv, TypeOK
  <2> QED
    BY <1>3, <1>4, <2>1 DEF ResyncAfterMigration
<1>7. CASE UNCHANGED <<mapping, synced>>
  BY <1>4, <1>7 DEF ResyncAfterMigration
<1>8. ASSUME NEW j \in Jobs, Complete(j) PROVE ResyncAfterMigration'
  <2>1. /\ job[j].stage = "end" /\ (order[j].dry \/ There(j) # 0) /\ Settle(j, "completed")
        /\ synced' = IF order[j].dry THEN synced ELSE synced \cup {job[j].id}
        /\ UNCHANGED <<mapping, made, order>>
    BY <1>8 DEF Complete
  <2>2. CASE order[j].dry
    BY <1>7, <2>1, <2>2
  <2>3. CASE ~order[j].dry
    <3>1. Working(j) /\ job[j].id \in Ids
      BY <2>1 DEF TypeInv, Shape, RowShape, Working
    <3>2. Owns(job[j].target, job[j].id) /\ Owns(mapping[job[j].id], job[j].id)
      BY <2>1, <2>3, <3>1 DEF OwnInv, RowOwns, There, Taken
    <3>3. job'[j] = [status |-> "completed", id |-> job[j].id, stage |-> "-",
                     target |-> job[j].target, source |-> job[j].source,
                     held |-> 0, todo |-> {}, sent |-> {}]
      BY <2>1, SettleFacts
    <3>4. job'[j].status = "completed" /\ job'[j].target = job[j].target
      BY <3>3
    <3>5. Real(j)'
      BY <2>1, <2>3, <3>4 DEF Real
    <3>6. HandedOn(job[j].id) \/ job'[j].target = mapping'[job[j].id]
      BY <2>1, <3>2, <3>4, SoleOwner
    <3> DEFINE id == job[j].id
    <3>8. ASSUME NEW i \in synced'
          PROVE  HandedOn(i)' \/ \E k \in Jobs : Real(k)' /\ job'[k].target = mapping'[i]
      <4>1. CASE i \in synced
        BY <1>4, <2>1, <4>1
      <4>2. CASE i = id
        <5>1. HandedOn(id) => HandedOn(i)'
          BY <1>1, <4>2
        <5> QED
          BY <3>5, <3>6, <4>2, <5>1
      <4> QED
        BY <2>1, <2>3, <4>1, <4>2
    <3> QED
      BY <3>8 DEF ResyncAfterMigration
  <2> QED
    BY <2>2, <2>3
<1>9. ASSUME NEW j \in Jobs, Run(j)
      PROVE  UNCHANGED <<mapping, synced>> \/ Complete(j)
  BY <1>9, RunCases, PassesFacts DEF Start, Fail, List, CompleteLost, Deliver, table
<1>10. ASSUME NEW j \in Jobs, NEW i \in Ids, Create(j, i) \/ Resync(j, i)
       PROVE  UNCHANGED <<mapping, synced>>
  BY <1>10, CreateFacts DEF table
<1> QED
  BY <1>5, <1>6, <1>7, <1>8, <1>9, <1>10, InsertCases
     DEF Next, SaveSetup, Purge, Restart, vars, table

\* ResyncAfterMigration: a mapping has a date of its last sync only when a job that
\* was started for it, and was no dry run, has completed, unless its id had been
\* another mapping's.
THEOREM ResyncFollowsMigration == Spec => []ResyncAfterMigration
<1>1. Init => ResyncAfterMigration
  BY DEF Init, ResyncAfterMigration
<1> QED
  BY <1>1, OwnersHold, ResyncStep, PTL DEF Spec

-----------------------------------------------------------------------------
(* What a completed job has copied.                                        *)

AtTarget(j, i) == <<made[job[j].target].addr, i>> \in copies

\* A row of migration_item tells the truth about some mapping with its id, and the
\* item a thread has in hand as delivered is at its job's address.
RowsInv ==
    /\ \A r \in rows : \E n \in Owners(r[1]) : <<made[n].addr, r[2]>> \in copies
    /\ \A j \in Jobs : \A i \in job[j].sent : AtTarget(j, i)

Accounted(j, i) == AtTarget(j, i) \/ <<job[j].id, i>> \in failed

\* What job j lists of a category from the beginning.
Full(j, stage) ==
    IF stage \in order[j].full THEN Contents(made[job[j].target].user, stage) ELSE {}

\* What a job has gone through, when its id is its mapping's own.
RowProgress(j) ==
    Working(j) /\ ~order[j].dry /\ ~HandedOn(job[j].id) =>
        /\ job[j].stage = "mail" =>
             \A i \in Full(j, "mail") \ job[j].todo : Accounted(j, i)
        /\ job[j].stage \in {"event", "end"} =>
             \A i \in Full(j, "mail") : Accounted(j, i)
        /\ job[j].stage = "event" /\ job[j].todo # {} =>
             \A i \in Full(j, "event") \ job[j].todo : Accounted(j, i)
        /\ job[j].stage = "end" => \A i \in Full(j, "event") : Accounted(j, i)

ProgressInv == \A j \in Jobs : RowProgress(j)

RowDone(j) ==
    Real(j) =>
        /\ Owns(job[j].target, job[j].id)
        /\ ~HandedOn(job[j].id) =>
             \A stage \in Categories : \A i \in Full(j, stage) : Accounted(j, i)

DoneInv == \A j \in Jobs : RowDone(j)

\* What is at the address of a job's mapping stays there.
LEMMA AtTargetStays ==
    ASSUME TypeInv, [Next]_vars, NEW j \in Jobs, job[j].target \in DOMAIN made,
           job'[j].target = job[j].target
    PROVE  /\ made'[job'[j].target] = made[job[j].target]
           /\ \A i : AtTarget(j, i) => AtTarget(j, i)'
<1>1. made'[job[j].target] = made[job[j].target] /\ copies \subseteq copies'
  BY HistoryKept, CopiesStay
<1> QED
  BY <1>1 DEF AtTarget

\* What a thread has delivered and not yet recorded.
LEMMA SentIsThere ==
    ASSUME TypeInv, RowsInv, [Next]_vars, NEW j \in Jobs, NEW i \in job'[j].sent
    PROVE  AtTarget(j, i)'
<1>0. job[j].sent \subseteq job[j].todo
  BY DEF TypeInv, Shape, RowShape
<1>1. CASE job'[j].sent = job[j].sent /\ job'[j].target = job[j].target
  <2>1. job[j].target \in DOMAIN made
    BY <1>0, <1>1, ItemsKnown
  <2> QED
    BY <1>1, <2>1, AtTargetStays DEF RowsInv
<1>2. ASSUME Start(j) PROVE FALSE
  <2>1. PICK held \in {There(j), 0}, mail \in Listed(j, "mail", There(j)) :
             job'[j] = [status |-> "running", id |-> job[j].id,
                        stage |-> IF mail # {} THEN "mail" ELSE AfterMail(j),
                        target |-> There(j), source |-> There(j), held |-> held,
                        todo |-> mail, sent |-> {}]
    BY <1>2, StartFacts
  <2>2. job'[j].sent = {}
    BY <2>1
  <2> QED
    BY <2>2
<1>3. ASSUME Fail(j) \/ Complete(j) PROVE FALSE
  <2>1. PICK status \in {"completed", "failed"} : Settle(j, status)
    BY <1>3 DEF Fail, Complete
  <2>2. job'[j] = [status |-> status, id |-> job[j].id, stage |-> "-",
                   target |-> job[j].target, source |-> job[j].source,
                   held |-> 0, todo |-> {}, sent |-> {}]
    BY <2>1, SettleFacts
  <2>3. job'[j].sent = {}
    BY <2>2
  <2> QED
    BY <2>3
<1>4. ASSUME List(j) PROVE job'[j].sent = job[j].sent /\ job'[j].target = job[j].target
  <2>1. Working(j) /\ Seen(j) # 0
    BY <1>4 DEF List, Working
  <2>2. Seen(j) \in DOMAIN made
    BY <2>1, SeenKnown
  <2>3. PICK events \in Listed(j, "event", Seen(j)) : job' = Listing(j, Seen(j), events)
    BY <1>4 DEF List
  <2>4. events \in SUBSET Items
    BY <2>2, ListedType
  <2>5. job'[j] = [status |-> job[j].status, id |-> job[j].id,
                   stage |-> IF events = {} THEN "end" ELSE job[j].stage,
                   target |-> job[j].target, source |-> Seen(j),
                   held |-> Seen(j), todo |-> events, sent |-> job[j].sent]
    BY <2>2, <2>3, <2>4, ListingFacts
  <2> QED
    BY <2>5
<1>5. CompleteLost(j) => job'[j].sent = job[j].sent /\ job'[j].target = job[j].target
  BY LostFacts
<1>6. ASSUME NEW k \in job[j].todo, Passes(j, k) PROVE FALSE
  <2>1. job' = Past(j, k)
    BY <1>6, PassesFacts
  <2>2. job'[j] = [status |-> job[j].status, id |-> job[j].id,
                   stage |-> IF job[j].todo \ {k} # {} THEN job[j].stage
                             ELSE IF job[j].stage = "mail" THEN AfterMail(j) ELSE "end",
                   target |-> job[j].target, source |-> job[j].source,
                   held |-> 0, todo |-> job[j].todo \ {k}, sent |-> {}]
    BY <2>1, PastFacts
  <2>3. job'[j].sent = {}
    BY <2>2
  <2> QED
    BY <2>3
<1>7. ASSUME NEW k \in job[j].todo, Deliver(j, k) PROVE AtTarget(j, i)'
  <2>1. k \in Items /\ Working(j)
    BY ItemsKnown
  <2>2. Seen(j) \in 0..MaxMade
    BY <1>7, <2>1, SeenKnown DEF Deliver, InHand
  <2>3. job'[j] = [status |-> job[j].status, id |-> job[j].id, stage |-> job[j].stage,
                   target |-> job[j].target, source |-> job[j].source,
                   held |-> Seen(j), todo |-> job[j].todo, sent |-> {k}]
    BY <1>7, <2>1, <2>2, DeliverFacts
  <2>4. i = k /\ job'[j].target = job[j].target
    BY <2>3
  <2>5. made' = made /\ copies' = copies \cup {<<made[job[j].target].addr, k>>}
    BY <1>7 DEF Deliver, table
  <2> QED
    BY <2>4, <2>5 DEF AtTarget
<1>8. Run(j) => AtTarget(j, i)'
  BY <1>1, <1>2, <1>3, <1>4, <1>5, <1>6, <1>7, RunCases
<1> QED
  BY <1>1, <1>8, RowSteps

LEMMA RowsStep == TypeInv /\ OwnInv /\ RowsInv /\ [Next]_vars => RowsInv'
<1> SUFFICES ASSUME TypeInv, OwnInv, RowsInv, [Next]_vars PROVE RowsInv'
  OBVIOUS
<1>1. /\ \A n \in DOMAIN made : n \in DOMAIN made' /\ made'[n] = made[n]
      /\ copies \subseteq copies'
  BY HistoryKept, CopiesStay
<1>2. ASSUME NEW r \in rows PROVE \E n \in Owners(r[1])' : <<made'[n].addr, r[2]>> \in copies'
  <2>1. PICK n \in Owners(r[1]) : <<made[n].addr, r[2]>> \in copies
    BY DEF RowsInv
  <2>2. n \in DOMAIN made /\ n \in Owners(r[1])'
    BY <1>1, <2>1 DEF Owners
  <2> QED
    BY <1>1, <2>1, <2>2
<1>3. ASSUME NEW j \in Jobs, NEW i \in job[j].todo, Passes(j, i), NEW r \in rows' \ rows
      PROVE  \E n \in Owners(r[1])' : <<made'[n].addr, r[2]>> \in copies'
  <2>1. CASE Record(j, i)
    <3>1. r = <<job[j].id, i>> /\ i \in job[j].sent /\ made' = made /\ copies' = copies
      BY <1>3, <2>1 DEF Record, table
    <3>2. AtTarget(j, i) /\ Working(j)
      BY <3>1, ItemsKnown DEF RowsInv
    <3>3. job[j].target \in Owners(r[1])
      BY <3>1, <3>2 DEF OwnInv, RowOwns, Owns, Owners
    <3>4. r[2] = i /\ Owners(r[1])' = Owners(r[1])
      BY <3>1 DEF Owners
    <3> QED
      BY <3>1, <3>2, <3>3, <3>4 DEF AtTarget
  <2>2. CASE Skip(j, i) \/ CountOnly(j, i) \/ ImportFails(j, i)
    BY <1>3, <2>2 DEF Skip, CountOnly, ImportFails, items
  <2> QED
    BY <1>3, <2>1, <2>2 DEF Passes
<1>4. \A r \in rows' : \E n \in Owners(r[1])' : <<made'[n].addr, r[2]>> \in copies'
  BY <1>2, <1>3, OnlyDeliveries
<1>5. \A j \in Jobs : \A i \in job'[j].sent : AtTarget(j, i)'
  BY SentIsThere
<1> QED
  BY <1>4, <1>5 DEF RowsInv

\* An item that is recorded under an id of one owner is where that owner is mapped.
LEMMA RecordedIsThere ==
    ASSUME TypeInv, OwnInv, RowsInv, NEW j \in Jobs, Working(j), ~HandedOn(job[j].id),
           NEW i, Recorded(j, i)
    PROVE  AtTarget(j, i)
<1>1. PICK n \in Owners(job[j].id) : <<made[n].addr, i>> \in copies
  <2>1. <<job[j].id, i>>[1] = job[j].id /\ <<job[j].id, i>>[2] = i
    OBVIOUS
  <2> QED
    BY <2>1 DEF RowsInv, Recorded
<1>2. Owns(n, job[j].id) /\ Owns(job[j].target, job[j].id)
  BY DEF Owners, Owns, OwnInv, RowOwns
<1>3. n = job[j].target
  BY <1>2, SoleOwner
<1> QED
  BY <1>1, <1>3 DEF AtTarget

LEMMA StillSole ==
    ASSUME TypeInv, [Next]_vars, NEW j \in Jobs, job'[j].id = job[j].id,
           ~HandedOn(job[j].id)'
    PROVE  ~HandedOn(job[j].id)
<1> PICK id : id = job[j].id
  OBVIOUS
<1>1. HandedOn(id) => HandedOn(id)'
  BY HandedOnStays
<1>2. HandedOn(job[j].id)' <=> HandedOn(id)'
  BY DEF HandedOn, Owners
<1> QED
  BY <1>1, <1>2

\* A failed row goes only when the item has been delivered for the mapping after all.
LEMMA AccountedStays ==
    ASSUME TypeInv, OwnInv, RowsInv, [Next]_vars, NEW j \in Jobs,
           Owns(job[j].target, job[j].id), ~HandedOn(job[j].id),
           job'[j].target = job[j].target, job'[j].id = job[j].id,
           NEW i, Accounted(j, i)
    PROVE  Accounted(j, i)'
<1>1. made'[job'[j].target] = made[job[j].target] /\ (AtTarget(j, i) => AtTarget(j, i)')
  BY AtTargetStays DEF Owns
<1>2. CASE AtTarget(j, i)
  BY <1>1, <1>2 DEF Accounted
<1>3. CASE <<job[j].id, i>> \in failed'
  BY <1>3 DEF Accounted
<1>4. CASE <<job[j].id, i>> \in failed \ failed'
  <2>1. PICK k \in Jobs : \E l \in job[k].todo : Passes(k, l)
    BY <1>4, OnlyDeliveries
  <2>2. PICK l \in job[k].todo : Passes(k, l)
    BY <2>1
  <2>3. Record(k, l)
    BY <1>4, <2>2 DEF Passes, Skip, CountOnly, ImportFails, items
  <2>4. l \in job[k].sent /\ <<job[k].id, l>> = <<job[j].id, i>>
    BY <1>4, <2>3 DEF Record
  <2>5. job[k].id = job[j].id /\ l = i
    BY <2>4
  <2>6. Working(k) /\ AtTarget(k, i)
    BY <2>4, <2>5, ItemsKnown DEF RowsInv
  <2>7. Owns(job[k].target, job[j].id)
    BY <2>5, <2>6 DEF OwnInv, RowOwns
  <2>8. job[k].target = job[j].target
    BY <2>7, SoleOwner
  <2>9. AtTarget(j, i)
    BY <2>6, <2>8 DEF AtTarget
  <2> QED
    BY <1>1, <2>9 DEF Accounted
<1> QED
  BY <1>2, <1>3, <1>4 DEF Accounted

LEMMA DoneStep ==
    ASSUME TypeInv, OwnInv, RowsInv, [Next]_vars, NEW j \in Jobs, RowProgress(j), RowDone(j)
    PROVE  RowDone(j)'
<1>1. ASSUME job'[j] = job[j], order'[j] = order[j] PROVE RowDone(j)'
  <2> SUFFICES ASSUME Real(j) PROVE RowDone(j)'
    BY <1>1 DEF RowDone, Real
  <2>1. Owns(job[j].target, job[j].id)
    BY DEF RowDone
  <2>2. /\ Owns(job[j].target, job[j].id)'
        /\ made'[job'[j].target] = made[job[j].target]
    BY <1>1, <2>1, HistoryKept DEF Owns
  <2>3. ASSUME ~HandedOn(job[j].id)', NEW stage \in Categories, NEW i \in Full(j, stage)'
        PROVE  Accounted(j, i)'
    <3>1. ~HandedOn(job[j].id)
      BY <1>1, <2>3, StillSole
    <3>2. i \in Full(j, stage)
      BY <1>1, <2>2, <2>3 DEF Full
    <3>3. Accounted(j, i)
      BY <3>1, <3>2 DEF RowDone
    <3> QED
      BY <1>1, <2>1, <3>1, <3>3, AccountedStays
  <2> QED
    BY <1>1, <2>2, <2>3 DEF RowDone
<1>2. CASE job'[j].status \in {"pending", "running", "failed"}
  BY <1>2 DEF RowDone, Real
<1>3. CASE Complete(j)
  <2>1. job[j].stage = "end" /\ Settle(j, "completed") /\ UNCHANGED <<made, order>>
    BY <1>3 DEF Complete
  <2>2. Working(j) /\ Owns(job[j].target, job[j].id)
    BY <2>1 DEF OwnInv, RowOwns, Working
  <2>3. job'[j] = [status |-> "completed", id |-> job[j].id, stage |-> "-",
                   target |-> job[j].target, source |-> job[j].source,
                   held |-> 0, todo |-> {}, sent |-> {}]
    BY <2>1, SettleFacts
  <2>4. job'[j].id = job[j].id /\ job'[j].target = job[j].target
    BY <2>3
  <2> SUFFICES ASSUME ~order[j].dry PROVE RowDone(j)'
    BY <2>1 DEF RowDone, Real
  <2>5. ASSUME ~HandedOn(job[j].id)', NEW stage \in Categories, NEW i \in Full(j, stage)'
        PROVE  Accounted(j, i)'
    <3>1. ~HandedOn(job[j].id)
      BY <2>4, <2>5, StillSole
    <3>2. i \in Full(j, stage)
      BY <2>1, <2>4, <2>5 DEF Full
    <3>3. Accounted(j, i)
      BY <2>1, <2>2, <3>1, <3>2 DEF RowProgress, Categories
    <3> QED
      BY <2>2, <2>4, <3>1, <3>3, AccountedStays
  <2>6. Owns(job[j].target, job[j].id)'
    BY <2>1, <2>2, <2>4 DEF Owns
  <2> QED
    BY <2>4, <2>5, <2>6 DEF RowDone
<1>4. ASSUME Run(j), ~Complete(j) PROVE job'[j].status \in {"running", "failed"}
  <2>0. Working(j) => job[j].status = "running"
    BY DEF TypeInv, Shape, RowShape
  <2>1. ASSUME Start(j) PROVE job'[j].status = "running"
    <3>1. PICK held \in {There(j), 0}, mail \in Listed(j, "mail", There(j)) :
               job'[j] = [status |-> "running", id |-> job[j].id,
                          stage |-> IF mail # {} THEN "mail" ELSE AfterMail(j),
                          target |-> There(j), source |-> There(j), held |-> held,
                          todo |-> mail, sent |-> {}]
      BY <2>1, StartFacts
    <3> QED
      BY <3>1
  <2>2. ASSUME Fail(j) PROVE job'[j].status = "failed"
    <3>1. Settle(j, "failed")
      BY <2>2 DEF Fail
    <3>2. job'[j] = [status |-> "failed", id |-> job[j].id, stage |-> "-",
                     target |-> job[j].target, source |-> job[j].source,
                     held |-> 0, todo |-> {}, sent |-> {}]
      BY <3>1, SettleFacts
    <3> QED
      BY <3>2
  <2>3. ASSUME List(j) PROVE job'[j].status = "running"
    <3>1. Working(j) /\ Seen(j) # 0
      BY <2>3 DEF List, Working
    <3>2. Seen(j) \in DOMAIN made
      BY <3>1, SeenKnown
    <3>3. PICK events \in Listed(j, "event", Seen(j)) : job' = Listing(j, Seen(j), events)
      BY <2>3 DEF List
    <3>4. events \in SUBSET Items
      BY <3>2, ListedType
    <3>5. job'[j] = [status |-> job[j].status, id |-> job[j].id,
                     stage |-> IF events = {} THEN "end" ELSE job[j].stage,
                     target |-> job[j].target, source |-> Seen(j),
                     held |-> Seen(j), todo |-> events, sent |-> job[j].sent]
      BY <3>2, <3>3, <3>4, ListingFacts
    <3> QED
      BY <2>0, <3>1, <3>5
  <2>4. ASSUME CompleteLost(j) PROVE job'[j].status = "running"
    BY <2>0, <2>4, LostFacts DEF CompleteLost, Working
  <2>5. ASSUME NEW k \in job[j].todo, Passes(j, k) PROVE job'[j].status = "running"
    <3>1. job' = Past(j, k) /\ Working(j)
      BY <2>5, PassesFacts, ItemsKnown
    <3>2. job'[j] = [status |-> job[j].status, id |-> job[j].id,
                     stage |-> IF job[j].todo \ {k} # {} THEN job[j].stage
                               ELSE IF job[j].stage = "mail" THEN AfterMail(j) ELSE "end",
                     target |-> job[j].target, source |-> job[j].source,
                     held |-> 0, todo |-> job[j].todo \ {k}, sent |-> {}]
      BY <3>1, PastFacts
    <3> QED
      BY <2>0, <3>1, <3>2
  <2>6. ASSUME NEW k \in job[j].todo, Deliver(j, k) PROVE job'[j].status = "running"
    <3>1. k \in Items /\ Working(j)
      BY ItemsKnown
    <3>2. Seen(j) \in 0..MaxMade
      BY <2>6, <3>1, SeenKnown DEF Deliver, InHand
    <3>3. job'[j] = [status |-> job[j].status, id |-> job[j].id, stage |-> job[j].stage,
                     target |-> job[j].target, source |-> job[j].source,
                     held |-> Seen(j), todo |-> job[j].todo, sent |-> {k}]
      BY <2>6, <3>1, <3>2, DeliverFacts
    <3> QED
      BY <2>0, <3>1, <3>3
  <2> QED
    BY <1>4, <2>1, <2>2, <2>3, <2>4, <2>5, <2>6, RunCases
<1> QED
  BY <1>1, <1>2, <1>3, <1>4, RowSteps

LEMMA IdleProgress ==
    ASSUME NEW j \in Jobs, job'[j].stage \notin {"mail", "event", "end"}
    PROVE  RowProgress(j)'
BY DEF RowProgress, Working

\* An item a real job has done with is at its address or a failed row.
LEMMA PastIsAccounted ==
    ASSUME TypeInv, OwnInv, RowsInv, [Next]_vars, NEW j \in Jobs, ~HandedOn(job[j].id),
           ~order[j].dry, NEW i \in job[j].todo, Passes(j, i),
           job'[j].target = job[j].target, job'[j].id = job[j].id
    PROVE  Accounted(j, i)'
<1>1. Working(j) /\ Owns(job[j].target, job[j].id)
  BY ItemsKnown DEF OwnInv, RowOwns
<1>2. CASE AtTarget(j, i)
  BY <1>1, <1>2, AccountedStays DEF Accounted
<1>3. CASE Skip(j, i)
  BY <1>1, <1>2, <1>3, RecordedIsThere DEF Skip
<1>4. CASE Record(j, i)
  BY <1>2, <1>4 DEF Record, RowsInv
<1>5. CASE ImportFails(j, i)
  BY <1>5 DEF ImportFails, Accounted
<1> QED
  BY <1>3, <1>4, <1>5 DEF Passes, CountOnly

\* What a job has accounted for it still has after a step that keeps its mapping.
LEMMA FullStays ==
    ASSUME TypeInv, OwnInv, RowsInv, [Next]_vars, NEW j \in Jobs, Working(j),
           job'[j].target = job[j].target, job'[j].id = job[j].id, order'[j] = order[j],
           ~HandedOn(job[j].id)'
    PROVE  /\ ~HandedOn(job[j].id)
           /\ \A stage : Full(j, stage)' = Full(j, stage)
           /\ \A i : Accounted(j, i) => Accounted(j, i)'
<1>1. Owns(job[j].target, job[j].id)
  BY DEF OwnInv, RowOwns
<1>2. made'[job'[j].target] = made[job[j].target]
  BY <1>1, HistoryKept DEF Owns
<1>3. ~HandedOn(job[j].id)
  BY StillSole
<1>4. ASSUME NEW stage PROVE Full(j, stage)' = Full(j, stage)
  BY <1>2 DEF Full, Contents
<1> QED
  BY <1>1, <1>3, <1>4, AccountedStays

LEMMA StartProgress ==
    ASSUME TypeInv, NEW j \in Jobs, Start(j)
    PROVE  RowProgress(j)'
<1>1. There(j) \in DOMAIN made /\ made' = made /\ order' = order
  BY StartFacts DEF Start, table
<1>2. PICK held \in {There(j), 0}, mail \in Listed(j, "mail", There(j)) :
           job'[j] = [status |-> "running", id |-> job[j].id,
                      stage |-> IF mail # {} THEN "mail" ELSE AfterMail(j),
                      target |-> There(j), source |-> There(j), held |-> held,
                      todo |-> mail, sent |-> {}]
  BY StartFacts
<1>3. /\ job'[j].target = There(j) /\ job'[j].todo = mail
      /\ job'[j].stage = IF mail # {} THEN "mail" ELSE AfterMail(j)
  BY <1>2
<1>4. order[j].full \subseteq order[j].cats
  <2>1. order[j] \in Kinds
    BY RowType
  <2> QED
    BY <2>1 DEF Kinds
<1>5. Full(j, "mail")' \subseteq mail
  <2>1. "mail" \in order[j].full => mail = Contents(made[There(j)].user, "mail")
    BY <1>1, ListedType
  <2> QED
    BY <1>1, <1>3, <2>1 DEF Full, Contents
<1>6. job'[j].stage = "end" => mail = {} /\ "event" \notin order[j].cats
  BY <1>3 DEF AfterMail
<1>7. job'[j].stage = "end" => Full(j, "event")' = {}
  BY <1>1, <1>4, <1>6 DEF Full
<1>8. job'[j].stage = "event" => mail = {} /\ job'[j].todo = {}
  BY <1>3
<1>9. /\ job'[j].stage = "mail" =>
           \A i \in Full(j, "mail")' \ job'[j].todo : Accounted(j, i)'
      /\ job'[j].stage \in {"event", "end"} =>
           \A i \in Full(j, "mail")' : Accounted(j, i)'
      /\ job'[j].stage = "event" /\ job'[j].todo # {} =>
           \A i \in Full(j, "event")' \ job'[j].todo : Accounted(j, i)'
      /\ job'[j].stage = "end" => \A i \in Full(j, "event")' : Accounted(j, i)'
  BY <1>3, <1>5, <1>6, <1>7, <1>8
<1> QED
  BY <1>9 DEF RowProgress

LEMMA ListProgress ==
    ASSUME TypeInv, OwnInv, RowsInv, [Next]_vars, NEW j \in Jobs, List(j), RowProgress(j)
    PROVE  RowProgress(j)'
<1>1. /\ Working(j) /\ job[j].stage = "event" /\ Seen(j) # 0
      /\ made' = made /\ order' = order
  BY DEF List, Working, table
<1>2. Seen(j) \in DOMAIN made
  BY <1>1, SeenKnown
<1>3. PICK events \in Listed(j, "event", Seen(j)) : job' = Listing(j, Seen(j), events)
  BY DEF List
<1>4. /\ events \in SUBSET Items
      /\ "event" \in order[j].full => events = Contents(made[Seen(j)].user, "event")
  BY <1>2, ListedType
<1>5. job'[j] = [status |-> job[j].status, id |-> job[j].id,
                 stage |-> IF events = {} THEN "end" ELSE job[j].stage,
                 target |-> job[j].target, source |-> Seen(j),
                 held |-> Seen(j), todo |-> events, sent |-> job[j].sent]
  BY <1>2, <1>3, <1>4, ListingFacts
<1>6. /\ job'[j].id = job[j].id /\ job'[j].target = job[j].target
      /\ job'[j].stage = (IF events = {} THEN "end" ELSE "event") /\ job'[j].todo = events
  BY <1>1, <1>5
<1> SUFFICES ASSUME ~HandedOn(job[j].id)', ~order[j].dry PROVE RowProgress(j)'
  BY <1>1, <1>6 DEF RowProgress, HandedOn, Owners
<1>7. /\ ~HandedOn(job[j].id) /\ \A stage : Full(j, stage)' = Full(j, stage)
      /\ \A i : Accounted(j, i) => Accounted(j, i)'
  BY <1>1, <1>6, FullStays
<1>8. Seen(j) = job[j].target
  BY <1>1, <1>7, SeenOwns, SoleOwner DEF OwnInv, RowOwns
<1>9. Full(j, "event") \subseteq events
  BY <1>4, <1>8 DEF Full
<1>10. \A i \in Full(j, "mail") : Accounted(j, i)
  BY <1>1, <1>7 DEF RowProgress
<1>11. \A i \in Full(j, "mail")' : Accounted(j, i)'
  BY <1>7, <1>10
<1>12. Full(j, "event")' \ job'[j].todo = {}
  BY <1>6, <1>7, <1>9
<1>13. job'[j].stage = "end" => job'[j].todo = {}
  BY <1>6
<1>14. job'[j].stage \in {"event", "end"}
  BY <1>6
<1> QED
  BY <1>11, <1>12, <1>13, <1>14 DEF RowProgress

LEMMA PassProgress ==
    ASSUME TypeInv, OwnInv, RowsInv, [Next]_vars, NEW j \in Jobs, RowProgress(j),
           NEW i \in job[j].todo, Passes(j, i)
    PROVE  RowProgress(j)'
<1> DEFINE rest == job[j].todo \ {i}
<1>1. job' = Past(j, i) /\ order' = order
  BY PassesFacts
<1>2. Working(j) /\ job[j].stage \in {"mail", "event"}
  BY ItemsKnown
<1>3. job'[j] = [status |-> job[j].status, id |-> job[j].id,
                 stage |-> IF rest # {} THEN job[j].stage
                           ELSE IF job[j].stage = "mail" THEN AfterMail(j) ELSE "end",
                 target |-> job[j].target, source |-> job[j].source,
                 held |-> 0, todo |-> rest, sent |-> {}]
  BY <1>1, PastFacts
<1>4. /\ job'[j].id = job[j].id /\ job'[j].target = job[j].target /\ job'[j].todo = rest
      /\ job'[j].stage = IF rest # {} THEN job[j].stage
                         ELSE IF job[j].stage = "mail" THEN AfterMail(j) ELSE "end"
  BY <1>3
<1> SUFFICES ASSUME ~HandedOn(job[j].id)', ~order[j].dry PROVE RowProgress(j)'
  BY <1>1, <1>4 DEF RowProgress, HandedOn, Owners
<1>5. /\ ~HandedOn(job[j].id) /\ \A stage : Full(j, stage)' = Full(j, stage)
      /\ \A k : Accounted(j, k) => Accounted(j, k)'
  BY <1>1, <1>2, <1>4, FullStays
<1>6. Accounted(j, i)'
  BY <1>4, <1>5, PastIsAccounted
<1>7. CASE job[j].stage = "mail"
  <2>1. \A k \in Full(j, "mail") \ job[j].todo : Accounted(j, k)
    BY <1>2, <1>5, <1>7 DEF RowProgress
  <2>2. \A k \in Full(j, "mail")' \ rest : Accounted(j, k)'
    BY <1>5, <1>6, <2>1
  <2>3. CASE rest # {}
    <3>1. job'[j].stage = "mail"
      BY <1>4, <1>7, <2>3
    <3> QED
      BY <1>4, <2>2, <3>1 DEF RowProgress
  <2>4. CASE rest = {}
    <3>1. \A k \in Full(j, "mail")' : Accounted(j, k)'
      BY <2>2, <2>4
    <3>2. job'[j].stage = AfterMail(j) /\ job'[j].todo = {}
      BY <1>4, <1>7, <2>4
    <3>3. job'[j].stage = "end" => Full(j, "event")' = {}
      <4>1. order[j] \in Kinds
        BY RowType
      <4>2. job'[j].stage = "end" => "event" \notin order[j].full
        BY <3>2, <4>1 DEF AfterMail, Kinds
      <4> QED
        BY <1>5, <4>2 DEF Full
    <3>4. job'[j].stage \in {"event", "end"}
      BY <3>2 DEF AfterMail
    <3> QED
      BY <3>1, <3>2, <3>3, <3>4 DEF RowProgress
  <2> QED
    BY <2>3, <2>4
<1>8. CASE job[j].stage = "event"
  <2>1. /\ \A k \in Full(j, "mail") : Accounted(j, k)
        /\ \A k \in Full(j, "event") \ job[j].todo : Accounted(j, k)
    BY <1>2, <1>5, <1>8 DEF RowProgress
  <2>2. /\ \A k \in Full(j, "mail")' : Accounted(j, k)'
        /\ \A k \in Full(j, "event")' \ rest : Accounted(j, k)'
    BY <1>5, <1>6, <2>1
  <2>3. job'[j].stage = "event" \/ (job'[j].stage = "end" /\ rest = {})
    BY <1>4, <1>8
  <2> QED
    BY <1>4, <2>2, <2>3 DEF RowProgress
<1> QED
  BY <1>2, <1>7, <1>8

\* A step that leaves stage, list and mapping of a job as they are.
LEMMA SameProgress ==
    ASSUME TypeInv, OwnInv, RowsInv, [Next]_vars, NEW j \in Jobs, RowProgress(j),
           job'[j].target = job[j].target, job'[j].id = job[j].id,
           job'[j].stage = job[j].stage, job'[j].todo = job[j].todo, order'[j] = order[j]
    PROVE  RowProgress(j)'
<1> SUFFICES ASSUME Working(j), ~HandedOn(job[j].id)', ~order[j].dry PROVE RowProgress(j)'
  BY DEF RowProgress, Working, HandedOn, Owners
<1>1. /\ ~HandedOn(job[j].id) /\ \A stage : Full(j, stage)' = Full(j, stage)
      /\ \A i : Accounted(j, i) => Accounted(j, i)'
  BY FullStays
<1> QED
  BY <1>1 DEF RowProgress

LEMMA ProgressStep ==
    ASSUME TypeInv, OwnInv, RowsInv, [Next]_vars, NEW j \in Jobs, RowProgress(j)
    PROVE  RowProgress(j)'
<1>1. job'[j] = job[j] /\ order'[j] = order[j] => RowProgress(j)'
  BY SameProgress
<1>2. CASE job'[j].stage \in {"-", "gone"}
  BY <1>2, IdleProgress
<1>3. CASE Fail(j) \/ Complete(j) \/ CompleteLost(j)
  <2>1. CASE Settle(j, "failed") \/ Settle(j, "completed")
    <3>1. job'[j].stage = "-"
      BY <2>1, SettleFacts
    <3> QED
      BY <1>2, <3>1
  <2>2. CASE CompleteLost(j)
    BY <1>2, <2>2, LostFacts
  <2> QED
    BY <1>3, <2>1, <2>2 DEF Fail, Complete
<1>4. ASSUME NEW i \in job[j].todo, Deliver(j, i) PROVE RowProgress(j)'
  <2>1. i \in Items /\ Working(j) /\ order' = order
    BY <1>4, ItemsKnown DEF Deliver
  <2>2. Seen(j) \in 0..MaxMade
    BY <1>4, <2>1, SeenKnown DEF Deliver, InHand
  <2>3. job'[j] = [status |-> job[j].status, id |-> job[j].id, stage |-> job[j].stage,
                   target |-> job[j].target, source |-> job[j].source,
                   held |-> Seen(j), todo |-> job[j].todo, sent |-> {i}]
    BY <1>4, <2>1, <2>2, DeliverFacts
  <2>4. /\ job'[j].target = job[j].target /\ job'[j].id = job[j].id
        /\ job'[j].stage = job[j].stage /\ job'[j].todo = job[j].todo
    BY <2>3
  <2> QED
    BY <2>1, <2>4, SameProgress
<1>5. Run(j) => RowProgress(j)'
  BY <1>3, <1>4, StartProgress, ListProgress, PassProgress, RunCases
<1> QED
  BY <1>1, <1>2, <1>5, RowSteps

CopiedInv == OwnInv /\ RowsInv /\ ProgressInv /\ DoneInv

\* CompletedIsThere: each item that a completed job listed from the beginning is at
\* the address its mapping names or a failed row, whatever was deleted and added
\* while it ran and whatever ran since, as long as the id is that mapping's own.
THEOREM CompletedJobsHaveCopied == Spec => []CompletedIsThere
<1>1. Init => CopiedInv
  <2> SUFFICES ASSUME Init PROVE CopiedInv
    OBVIOUS
  <2>1. /\ \A j \in Jobs : /\ ~Working(j) /\ job[j].status # "completed"
                           /\ job[j].sent = {}
        /\ Taken = {} /\ rows = {}
    BY DEF Init, Taken, Working, NoJob
  <2> QED
    BY <2>1 DEF CopiedInv, OwnInv, RowOwns, RowsInv, ProgressInv, RowProgress,
                DoneInv, RowDone, Real
<1>2. TypeInv /\ CopiedInv /\ [Next]_vars => CopiedInv'
  <2> SUFFICES ASSUME TypeInv, OwnInv, RowsInv, ProgressInv, DoneInv, [Next]_vars
               PROVE  CopiedInv'
    BY DEF CopiedInv
  <2>1. OwnInv' /\ RowsInv'
    BY OwnersStep, RowsStep
  <2>2. ProgressInv'
    BY ProgressStep DEF ProgressInv
  <2>3. DoneInv'
    BY DoneStep DEF DoneInv, ProgressInv
  <2> QED
    BY <2>1, <2>2, <2>3 DEF CopiedInv
<1>3. TypeInv /\ CopiedInv => CompletedIsThere
  <2> SUFFICES ASSUME TypeInv, CopiedInv, NEW j \in Jobs, Real(j), ~HandedOn(job[j].id),
                      NEW stage \in order[j].full,
                      NEW i \in Contents(made[job[j].target].user, stage)
               PROVE  Accounted(j, i)
    BY DEF CompletedIsThere, Accounted, AtTarget
  <2>1. stage \in Categories
    <3>1. order[j] \in Kinds
      BY RowType
    <3> QED
      BY <3>1 DEF Kinds
  <2>2. i \in Full(j, stage)
    BY DEF Full
  <2> QED
    BY <2>1, <2>2 DEF CopiedInv, DoneInv, RowDone
<1> QED
  BY <1>1, <1>2, <1>3, TypesHold, PTL DEF Spec

=============================================================================
