------------------------ MODULE FetchPipelineProofs ------------------------
(***************************************************************************)
(* Proofs about FetchPipeline, for any posts, channels and page size.      *)
(* ClockInv orders last_fetched_at, the start of the fetch under way and   *)
(* the clock; it is what tells the end of a fetch, which advances          *)
(* last_fetched_at, from an error return, which does not.  DataInv says    *)
(* that the channels list what is written in them, and types the rest.     *)
(* On these rest IntactInv, which says where each text that a fetch is to  *)
(* bring is at every moment, and KnownInv, for what deletions may do.      *)
(***************************************************************************)
EXTENDS FetchPipeline, PostFilterProofs, SequenceTheorems, TLAPS

\* A fetch is under way.
Fetching == pc \in {"page", "store", "done"}

ClockInv == /\ now \in Nat /\ last \in Nat /\ start \in Nat
            /\ last < now
            /\ Fetching => last < start /\ start < now

-----------------------------------------------------------------------------
\* The ways a step of a fetch goes on: it gives up, or stays under way.

\* Steps that keep the clock and the two times, or only let time pass.
LEMMA ClockKept ==
    ASSUME ClockInv, now' \in {now, now + 1}, UNCHANGED <<last, start>>,
           Fetching' => Fetching
    PROVE  ClockInv'
  BY DEF ClockInv

\* Steps that leave the fetch, and last_fetched_at as it was.
LEMMA ClockLeft ==
    ASSUME ClockInv, UNCHANGED <<now, last>>, Forget, ~Fetching'
    PROVE  ClockInv'
  BY DEF ClockInv, Forget, Fresh

LEMMA NextChannelFetches == NextChannel => pc' \in {"page", "done"}
  BY DEF NextChannel

LEMMA GiveUpLeaves == GiveUp => /\ pc' = "idle" /\ ~Fetching' /\ Forget
                                /\ closed' => total' = before
                                /\ last' = last
  BY DEF GiveUp, Fetching

LEMMA ClockInit == Init => ClockInv
  BY DEF Init, ClockInv, Fetching

LEMMA ClockStep == ClockInv /\ [Next]_vars => ClockInv'
<1> SUFFICES ASSUME ClockInv, [Next]_vars PROVE ClockInv'
  OBVIOUS
<1> USE DEF local, store
<1>1. ASSUME NEW p \in Posts, Create(p) \/ Edit(p) \/ Delete(p) PROVE ClockInv'
  <2>1. now' = now /\ UNCHANGED <<last, start, pc>>
    BY <1>1 DEF Create, Edit, Delete
  <2>2. QED
    BY <2>1, ClockKept DEF Fetching
<1>2. CASE TimePasses
  BY <1>2, ClockKept DEF TimePasses, Fetching
<1>3. CASE StartFetch
  BY <1>3 DEF StartFetch, Fresh, ClockInv, Fetching
<1>4. CASE ReadPage
  <2>1. now' = now /\ UNCHANGED <<last, start>> /\ Fetching
    BY <1>4 DEF ReadPage, Fetching
  <2>2. QED
    BY <2>1, ClockKept
<1>5. CASE ReadFails
  BY <1>5, GiveUpLeaves, ClockLeft DEF ReadFails
<1>6. CASE StorePage
  <2>1. now' = now /\ UNCHANGED <<last, start>> /\ Fetching
    BY <1>6 DEF StorePage, Fetching
  <2>2. QED
    BY <2>1, ClockKept
<1>7. CASE Interrupted
  BY <1>7, GiveUpLeaves, ClockLeft DEF Interrupted
<1>8. CASE StoreFails
  BY <1>8, GiveUpLeaves, ClockLeft DEF StoreFails
<1>9. CASE StorePanics
  <2>1. UNCHANGED <<now, last>> /\ Forget /\ ~Fetching'
    BY <1>9 DEF StorePanics, Fetching
  <2>2. QED
    BY <2>1, ClockLeft
<1>10. CASE Finish
  BY <1>10 DEF Finish, Forget, ClockInv, Fetching
<1>11. CASE Crash
  BY <1>11, ClockLeft DEF Crash, Fetching
<1>12. CASE Restart
  BY <1>12, ClockKept DEF Restart, Fetching
<1>13. CASE ResetVectorStore
  BY <1>13, ClockKept DEF ResetVectorStore, Fetching
<1>14. CASE UNCHANGED vars
  BY <1>14, ClockKept DEF vars, Fetching
<1>15. QED
  BY <1>1, <1>2, <1>3, <1>4, <1>5, <1>6, <1>7, <1>8, <1>9, <1>10, <1>11, <1>12,
     <1>13, <1>14 DEF Next

THEOREM ClockInvariant == Spec => []ClockInv
  BY ClockInit, ClockStep, PTL DEF Spec

-----------------------------------------------------------------------------
\* A fetch that returns an error puts total_fetched_posts back (the error
\* returns of StartFetch), if the store takes that Put: the one step to rest
\* that does not is its end, which advances last_fetched_at or loses its Put.
THEOREM FailuresUndone == Spec => FailureUndone
<1> DEFINE Undone == pc \notin {"idle", "down"} /\ pc' = "idle" /\ last' = last
                         /\ closed' => total' = before
<1>1. ClockInv /\ [Next]_vars => [Undone]_vars
  <2> SUFFICES ASSUME ClockInv, Next, pc \notin {"idle", "down"}, pc' = "idle",
                      last' = last, closed'
               PROVE  total' = before
    OBVIOUS
  <2> USE DEF local, store
  <2>1. ASSUME NEW p \in Posts, Create(p) \/ Edit(p) \/ Delete(p) PROVE FALSE
    BY <2>1 DEF Create, Edit, Delete
  <2>2. CASE ReadPage
    BY <2>2, NextChannelFetches DEF ReadPage
  <2>3. CASE StorePage
    BY <2>3, NextChannelFetches DEF StorePage
  <2>4. CASE ReadFails \/ Interrupted \/ StoreFails
    BY <2>4, GiveUpLeaves DEF ReadFails, Interrupted, StoreFails
  <2>5. CASE Finish
    \* last_fetched_at becomes the start, which is later.
    BY <2>5 DEF Finish, ClockInv, Fetching
  <2>6. CASE StartFetch \/ StorePanics \/ Crash
    BY <2>6 DEF StartFetch, StorePanics, Crash
  <2>7. CASE TimePasses \/ Restart \/ ResetVectorStore
    BY <2>7 DEF TimePasses, Restart, ResetVectorStore
  <2>8. QED
    BY <2>1, <2>2, <2>3, <2>4, <2>5, <2>6, <2>7 DEF Next
<1>2. QED
  BY <1>1, ClockInvariant, PTL DEF Spec, FailureUndone

\* last_fetched_at, from which the next fetch asks for what changed, never
\* goes back, whatever fails or dies: no fetch reads the past again for good.
THEOREM LastFetchedGrows == Spec => [][last <= last']_last
<1>1. ClockInv /\ [Next]_vars => [last <= last']_last
  <2> SUFFICES ASSUME ClockInv, Next, last' # last PROVE last <= last'
    BY DEF vars, store
  <2> USE DEF local, store
  <2>1. CASE Finish
    BY <2>1 DEF Finish, ClockInv, Fetching
  <2>2. CASE ReadFails \/ Interrupted \/ StoreFails
    BY <2>2, GiveUpLeaves DEF ReadFails, Interrupted, StoreFails
  <2>3. ASSUME NEW p \in Posts, Create(p) \/ Edit(p) \/ Delete(p) PROVE FALSE
    BY <2>3 DEF Create, Edit, Delete
  <2>4. CASE ReadPage \/ StorePage
    BY <2>4 DEF ReadPage, StorePage
  <2>5. CASE StartFetch \/ StorePanics \/ Crash
    BY <2>5 DEF StartFetch, StorePanics, Crash
  <2>6. CASE TimePasses \/ Restart \/ ResetVectorStore
    BY <2>6 DEF TimePasses, Restart, ResetVectorStore
  <2>7. QED
    BY <2>1, <2>2, <2>3, <2>4, <2>5, <2>6 DEF Next
<1>2. QED
  BY <1>1, ClockInvariant, PTL DEF Spec

-----------------------------------------------------------------------------
\* Listings

\* How Among goes through a list of posts of R.
Selects(R, list, ids, first) ==
    /\ \A i \in 0..Len(list) : first[i] \in Seq(R)
    /\ first[0] = <<>>
    /\ \A i \in 1..Len(list) :
           /\ list[i] \in ids => first[i] = Append(first[i - 1], list[i])
           /\ list[i] \notin ids => first[i] = first[i - 1]

LEMMA AppendKeeps ==
    ASSUME NEW R, NEW s \in Seq(R), NEW e \in R
    PROVE  /\ Append(s, e) \in Seq(R) /\ Len(Append(s, e)) = Len(s) + 1
           /\ \A k \in DOMAIN s : k \in DOMAIN Append(s, e) /\ Append(s, e)[k] = s[k]
  BY AppendProperties

LEMMA AppendToConcat ==
    ASSUME NEW R, NEW s \in Seq(R), NEW h \in R, NEW e \in R
    PROVE  Append(<<h>> \o s, e) = <<h>> \o Append(s, e)
<1> DEFINE x == Append(<<h>> \o s, e)
           y == <<h>> \o Append(s, e)
<1>1. x \in Seq(R) /\ y \in Seq(R) /\ Len(x) = Len(s) + 2 /\ Len(y) = Len(s) + 2
  OBVIOUS
<1>2. \A i \in 1..(Len(s) + 2) : x[i] = y[i]
  OBVIOUS
<1> HIDE DEF x, y
<1>3. x = y
  BY <1>1, <1>2, SeqEqual
<1> QED
  BY <1>3 DEF x, y

LEMMA AmongRuns ==
    ASSUME NEW R, NEW list \in Seq(R), NEW ids
    PROVE  Selects(R, list, ids, Among(list, ids))
<1> DEFINE n == Len(list)
           S == Seq(R)
           base == <<>>
           Round(i, s) == IF list[i] \in ids THEN Append(s, list[i]) ELSE s
           step == [x \in (1..n) \X S |-> Round(x[1], x[2])]
<1>1. n \in Nat /\ base \in S
  OBVIOUS
<1>2. \A i \in 1..n, s \in S : Round(i, s) \in S
  OBVIOUS
<1>3. \A i \in 1..n, s \in S : step[<<i, s>>] = Round(i, s) /\ step[<<i, s>>] \in S
  <2> HIDE DEF S, Round
  <2> QED
    BY <1>2
<1> DEFINE Solves(f) == f = [i \in 0..n |-> IF i = 0 THEN base ELSE Round(i, f[i - 1])]
           first == CHOOSE f : Solves(f)
<1>4. Among(list, ids) = first
  BY DEF Among
<1> HIDE DEF S, base, Round, step
<1>5. \E f : Solves(f)
  <2>1. PICK f \in [0..n -> S] : Runs(f, n, base, step)
    <3>1. Maps(step, n, S)
      BY <1>3 DEF Maps
    <3> HIDE DEF n
    <3> QED
      BY <1>1, <3>1, Recursion
  <2>2. \A i \in 1..n : f[i - 1] \in S
    BY <1>1
  <2>3. \A i \in 0..n : f[i] = IF i = 0 THEN base ELSE Round(i, f[i - 1])
    <3>1. \A i \in 1..n : f[i] = Round(i, f[i - 1])
      BY <1>3, <2>1, <2>2 DEF Runs
    <3> HIDE DEF n
    <3> QED
      BY <1>1, <2>1, <3>1 DEF Runs
  <2>4. Solves(f)
    BY <2>3
  <2> QED
    BY <2>4
<1>6. Solves(first)
  BY <1>5
<1>7. first[0] = base /\ \A i \in 1..n : first[i] = Round(i, first[i - 1])
  <2> HIDE DEF first
  <2>1. \A i \in 0..n : first[i] = IF i = 0 THEN base ELSE Round(i, first[i - 1])
    BY <1>6
  <2> QED
    BY <1>1, <2>1
<1>8. \A i \in 0..n : first[i] \in S
  <2> HIDE DEF first
  <2> QED
    BY <1>1, <1>2, <1>7, Throughout
<1> HIDE DEF first
<1> QED
  BY <1>4, <1>7, <1>8 DEF S, base, Round, Selects

\* What is in one list is in the other, as far down or further.
Behind(s, t) == \A k \in DOMAIN s : \E l \in DOMAIN t : k <= l /\ t[l] = s[k]

LEMMA BehindTransitive ==
    ASSUME NEW R, NEW s \in Seq(R), NEW t \in Seq(R), NEW u \in Seq(R),
           Behind(s, t), Behind(t, u)
    PROVE  Behind(s, u)
<1> SUFFICES ASSUME NEW k \in DOMAIN s PROVE \E m \in DOMAIN u : k <= m /\ u[m] = s[k]
  BY DEF Behind
<1>1. PICK l \in DOMAIN t : k <= l /\ t[l] = s[k]
  BY DEF Behind
<1>2. PICK m \in DOMAIN u : l <= m /\ u[m] = t[l]
  BY DEF Behind
<1> QED
  BY <1>1, <1>2

Holds(list, ids, first) ==
    \A i \in 0..Len(list) : \A j \in 1..i : list[j] \in ids =>
        \E k \in DOMAIN first[i] : first[i][k] = list[j]

\* Every post of ids is among them ...
LEMMA AmongHolds ==
    ASSUME NEW R, NEW list \in Seq(R), NEW ids
    PROVE  Holds(list, ids, Among(list, ids))
<1> DEFINE n == Len(list)
           first == Among(list, ids)
           Good(i) == \A j \in 1..i : list[j] \in ids =>
                          \E k \in DOMAIN first[i] : first[i][k] = list[j]
           T == {i \in 0..n : Good(i)}
<1>0. n \in Nat /\ Selects(R, list, ids, first)
  BY AmongRuns
<1> HIDE DEF first
<1>2. 0 \in T
  BY <1>0
<1>3. ASSUME NEW i \in 1..n, i - 1 \in T PROVE i \in T
  <2>1. i - 1 \in 0..n /\ Good(i - 1) /\ first[i - 1] \in Seq(R)
    BY <1>0, <1>3 DEF Selects
  <2>2. ASSUME NEW j \in 1..i, list[j] \in ids
        PROVE  \E k \in DOMAIN first[i] : first[i][k] = list[j]
    <3>1. CASE j = i
      <4>1. first[i] = Append(first[i - 1], list[i])
        BY <1>0, <2>2, <3>1 DEF Selects
      <4>2. Len(first[i - 1]) + 1 \in DOMAIN first[i]
            /\ first[i][Len(first[i - 1]) + 1] = list[i]
        BY <2>1, <4>1
      <4> QED
        BY <3>1, <4>2
    <3>2. CASE j # i
      <4>1. j \in 1..(i - 1)
        BY <3>2
      <4>2. PICK k \in DOMAIN first[i - 1] : first[i - 1][k] = list[j]
        BY <2>1, <2>2, <4>1
      <4>3. k \in DOMAIN first[i] /\ first[i][k] = first[i - 1][k]
        <5>1. first[i] = Append(first[i - 1], list[i]) \/ first[i] = first[i - 1]
          BY <1>0 DEF Selects
        <5> QED
          BY <2>1, <5>1, AppendKeeps
      <4> QED
        BY <4>2, <4>3
    <3> QED
      BY <3>1, <3>2
  <2>3. Good(i)
    BY <2>2
  <2> QED
    BY <2>3
<1>4. \A i \in 0..n : i \in T
  <2> HIDE DEF T
  <2> QED
    BY <1>0, <1>2, <1>3, UpTo
<1> QED
  BY <1>4 DEF first, Holds

\* ... those of more ids as far down or further ...
LEMMA AmongMore ==
    ASSUME NEW R, NEW list \in Seq(R), NEW ids, NEW wide, ids \subseteq wide
    PROVE  \A i \in 0..Len(list) : Behind(Among(list, ids)[i], Among(list, wide)[i])
<1> DEFINE n == Len(list)
           a == Among(list, ids)
           b == Among(list, wide)
           Good(i) == Len(a[i]) <= Len(b[i]) /\ Behind(a[i], b[i])
           T == {i \in 0..n : Good(i)}
<1>1. n \in Nat /\ Selects(R, list, ids, a) /\ Selects(R, list, wide, b)
  BY AmongRuns
<1> HIDE DEF a, b
<1>2. 0 \in T
  BY <1>1 DEF Behind, Selects
<1>3. ASSUME NEW i \in 1..n, i - 1 \in T PROVE i \in T
  <2>1. i - 1 \in 0..n /\ Good(i - 1) /\ a[i - 1] \in Seq(R) /\ b[i - 1] \in Seq(R)
        /\ list[i] \in R
    BY <1>1, <1>3 DEF Selects
  <2>2. CASE list[i] \notin ids
    <3>1. a[i] = a[i - 1]
      BY <1>1, <2>2 DEF Selects
    <3>2. /\ Len(b[i - 1]) <= Len(b[i])
          /\ \A l \in DOMAIN b[i - 1] : l \in DOMAIN b[i] /\ b[i][l] = b[i - 1][l]
      <4>1. b[i] = b[i - 1] \/ b[i] = Append(b[i - 1], list[i])
        BY <1>1 DEF Selects
      <4> QED
        BY <2>1, <4>1, AppendKeeps
    <3>3. Len(a[i]) <= Len(b[i])
      BY <1>1, <2>1, <3>1, <3>2
    <3>4. Behind(a[i], b[i])
      BY <2>1, <3>1, <3>2 DEF Behind
    <3> QED
      BY <3>3, <3>4
  <2>3. CASE list[i] \in ids
    <3>1. a[i] = Append(a[i - 1], list[i]) /\ b[i] = Append(b[i - 1], list[i])
      BY <1>1, <2>3 DEF Selects
    <3>2. Len(a[i]) <= Len(b[i])
      BY <2>1, <3>1
    <3>3. ASSUME NEW k \in DOMAIN a[i] PROVE \E l \in DOMAIN b[i] : k <= l /\ b[i][l] = a[i][k]
      <4>1. CASE k = Len(a[i - 1]) + 1
        <5>1. Len(b[i - 1]) + 1 \in DOMAIN b[i] /\ b[i][Len(b[i - 1]) + 1] = list[i]
              /\ a[i][k] = list[i] /\ k <= Len(b[i - 1]) + 1
          BY <2>1, <3>1, <4>1
        <5> QED
          BY <5>1
      <4>2. CASE k # Len(a[i - 1]) + 1
        <5>1. k \in DOMAIN a[i - 1] /\ a[i][k] = a[i - 1][k]
          BY <2>1, <3>1, <4>2
        <5>2. PICK l \in DOMAIN b[i - 1] : k <= l /\ b[i - 1][l] = a[i - 1][k]
          BY <2>1, <5>1 DEF Behind
        <5>3. l \in DOMAIN b[i] /\ b[i][l] = b[i - 1][l]
          BY <2>1, <3>1
        <5> QED
          BY <5>1, <5>2, <5>3
      <4> QED
        BY <4>1, <4>2
    <3> QED
      BY <3>2, <3>3 DEF Behind
  <2> QED
    BY <2>2, <2>3
<1>4. \A i \in 0..n : i \in T
  <2> HIDE DEF T
  <2> QED
    BY <1>1, <1>2, <1>3, UpTo
<1> QED
  BY <1>4 DEF a, b

\* ... and so when the list gets a new head.
LEMMA AmongHead ==
    ASSUME NEW R, NEW list \in Seq(R), NEW head \in R, NEW ids
    PROVE  \A i \in 0..Len(list) :
               Behind(Among(list, ids)[i], Among(<<head>> \o list, ids)[i + 1])
<1> DEFINE n == Len(list)
           longer == <<head>> \o list
           a == Among(list, ids)
           b == Among(longer, ids)
           Good(i) == b[i + 1] = IF head \in ids THEN <<head>> \o a[i] ELSE a[i]
           T == {i \in 0..n : Good(i)}
<1>0. /\ longer \in Seq(R) /\ Len(longer) = n + 1 /\ longer[1] = head
      /\ \A i \in 1..n : longer[i + 1] = list[i]
  OBVIOUS
<1> HIDE DEF longer
<1>1. n \in Nat /\ Selects(R, list, ids, a) /\ Selects(R, longer, ids, b)
  BY <1>0, AmongRuns
<1> HIDE DEF a, b
<1>2. 0 \in T
  <2>1. a[0] = <<>> /\ b[0] = <<>> /\ 1 \in 1..Len(longer)
    BY <1>0, <1>1 DEF Selects
  <2>2. b[1] = IF head \in ids THEN Append(b[0], head) ELSE b[0]
    <3>1. 1 - 1 = 0
      OBVIOUS
    <3> QED
      BY <1>0, <1>1, <2>1, <3>1 DEF Selects
  <2>3. Append(<<>>, head) = <<head>> /\ <<head>> \o <<>> = <<head>>
    OBVIOUS
  <2>4. b[0 + 1] = IF head \in ids THEN <<head>> \o a[0] ELSE a[0]
    BY <2>1, <2>2, <2>3
  <2> QED
    BY <1>1, <2>4
<1>3. ASSUME NEW i \in 1..n, i - 1 \in T PROVE i \in T
  <2>1. i - 1 \in 0..n /\ a[i - 1] \in Seq(R) /\ list[i] \in R
        /\ b[i] = IF head \in ids THEN <<head>> \o a[i - 1] ELSE a[i - 1]
    BY <1>1, <1>3 DEF Selects
  <2>2. b[i + 1] = IF list[i] \in ids THEN Append(b[i], list[i]) ELSE b[i]
    <3>1. i + 1 \in 1..Len(longer) /\ (i + 1) - 1 = i /\ longer[i + 1] = list[i]
      BY <1>0, <1>1
    <3> QED
      BY <1>0, <1>1, <3>1 DEF Selects
  <2>5. a[i] = IF list[i] \in ids THEN Append(a[i - 1], list[i]) ELSE a[i - 1]
    BY <1>1 DEF Selects
  <2>3. Append(<<head>> \o a[i - 1], list[i]) = <<head>> \o Append(a[i - 1], list[i])
    BY <2>1, AppendToConcat
  <2>4. Good(i)
    BY <2>1, <2>2, <2>3, <2>5
  <2> QED
    BY <2>4
<1>4. \A i \in 0..n : i \in T
  <2> HIDE DEF T
  <2> QED
    BY <1>1, <1>2, <1>3, UpTo
<1>5. ASSUME NEW i \in 0..n PROVE Behind(a[i], b[i + 1])
  <2>1. Good(i) /\ a[i] \in Seq(R)
    BY <1>1, <1>4 DEF Selects
  <2>2. CASE head \in ids
    <3>1. \A k \in DOMAIN a[i] : k + 1 \in DOMAIN b[i + 1] /\ b[i + 1][k + 1] = a[i][k]
                                 /\ k <= k + 1
      BY <2>1, <2>2
    <3> QED
      BY <3>1 DEF Behind
  <2>3. CASE head \notin ids
    BY <2>1, <2>3 DEF Behind
  <2> QED
    BY <2>2, <2>3
<1> QED
  BY <1>5 DEF a, b, longer

-----------------------------------------------------------------------------
\* Types, and what the server lists

PostRecords == [id : Posts, at : 1..MaxTime, gone : BOOLEAN]

\* The posts of channel c that were written.
Written(c) == {p \in Posts : Home[p] = c /\ at[p] > 0}

\* A channel lists the posts written in it, and each of them.
OrderInv == /\ \A c \in 1..Len(Channels) : \A i \in DOMAIN order[c] : order[c][i] \in Written(c)
            /\ \A p \in Posts : at[p] > 0 =>
                   \E i \in DOMAIN order[Home[p]] : order[Home[p]][i] = p

DataInv == TypeOK /\ OrderInv

LEMMA ListingType ==
    ASSUME DataInv, NEW c \in 1..Len(Channels)
    PROVE  order[c] \in Seq(Written(c)) /\ Listed(c) \in Seq(Written(c))
<1>1. order[c] \in Seq(Posts) /\ \A i \in DOMAIN order[c] : order[c][i] \in Written(c)
  BY DEF DataInv, OrderInv, TypeOK
<1>2. order[c] \in Seq(Written(c)) /\ Len(order[c]) \in 0..Len(order[c])
  BY <1>1
<1> QED
  BY <1>2, AmongRuns DEF Listed, Selects

\* What one request reads: posts of the channel as they are, those of the
\* listing from the page on up to its end, and more says if any are left.
LEMMA PageReads ==
    ASSUME DataInv
    PROVE  LET res == PageOf(channel) IN
           /\ res.posts \in Seq(PostRecords) /\ res.more \in BOOLEAN
           /\ \A i \in DOMAIN res.posts :
                  LET p == res.posts[i].id IN
                  /\ p \in Written(channel)
                  /\ res.posts[i].at = at[p] /\ res.posts[i].gone = (p \in gone)
           /\ \A j \in DOMAIN Listed(channel) : j > page * PageSize =>
                  /\ res.posts # <<>>
                  /\ \/ \E i \in DOMAIN res.posts : res.posts[i].id = Listed(channel)[j]
                     \/ res.more /\ j > (page + 1) * PageSize
           /\ res.posts # <<>> => order[channel] # <<>>
<1> DEFINE all == Listed(channel)
           m == page * PageSize
           last1 == (page + 1) * PageSize
           end == IF last1 < Len(all) THEN last1 ELSE Len(all)
           ids == SubSeq(all, m + 1, end)
           read == [i \in DOMAIN ids |->
                      [id |-> ids[i], at |-> at[ids[i]], gone |-> ids[i] \in gone]]
<1>1. channel \in 1..Len(Channels) /\ at \in [Posts -> 0..MaxTime] /\ page \in Nat
      /\ PageSize \in Nat \ {0} /\ MaxTime \in Nat \ {0}
  BY PagesAssumption DEF DataInv, TypeOK
<1>2. all \in Seq(Written(channel)) /\ order[channel] \in Seq(Written(channel))
  BY <1>1, ListingType
<1>3. m \in Nat /\ last1 = m + PageSize
  BY <1>1
<1>4. PageOf(channel) = [posts |-> read, more |-> Len(all) > last1]
  BY DEF PageOf
<1> HIDE DEF all, m, last1
<1>5. end \in Nat /\ end <= Len(all) /\ (end = Len(all) \/ end = last1) /\ last1 \in Nat
  BY <1>1, <1>2, <1>3
<1> HIDE DEF end
<1>6. \A i \in (m + 1)..end : i \in 1..Len(all) /\ all[i] \in Written(channel)
  BY <1>2, <1>3, <1>5
<1>7. /\ ids \in Seq(Written(channel))
      /\ Len(ids) = IF m + 1 <= end THEN end - m ELSE 0
      /\ \A i \in 1..(end - m) : ids[i] = all[m + i]
  BY <1>3, <1>5, <1>6, SubSeqProperties
<1> HIDE DEF ids
<1>8. \A i \in DOMAIN ids : ids[i] \in Written(channel)
  BY <1>7
<1>9. read \in Seq(PostRecords) /\ Len(read) = Len(ids)
  <2>1. \A i \in DOMAIN ids : read[i] \in PostRecords
    BY <1>1, <1>8 DEF PostRecords, Written
  <2>2. read \in [1..Len(ids) -> PostRecords] /\ Len(ids) \in Nat
    BY <1>7, <2>1
  <2> QED
    BY <2>2, ArrayIs
<1>10. ASSUME NEW i \in DOMAIN read
       PROVE  /\ read[i].id \in Written(channel) /\ read[i].id = ids[i]
              /\ read[i].at = at[read[i].id] /\ read[i].gone = (read[i].id \in gone)
  BY <1>8
<1>11. ASSUME NEW j \in DOMAIN all, j > m
       PROVE  /\ read # <<>>
              /\ \/ \E i \in DOMAIN read : read[i].id = all[j]
                 \/ Len(all) > last1 /\ j > last1
  <2>1. m + 1 <= end
    BY <1>1, <1>2, <1>3, <1>5, <1>11
  <2>2. Len(read) > 0
    BY <1>3, <1>5, <1>7, <1>9, <2>1
  <2>3. CASE j <= end
    <3>1. j - m \in 1..(end - m) /\ j - m \in 1..Len(ids)
      BY <1>2, <1>3, <1>5, <1>7, <1>11, <2>1, <2>3
    <3>2. ids[j - m] = all[j]
      BY <1>2, <1>3, <1>7, <3>1
    <3>3. j - m \in DOMAIN read /\ read[j - m].id = all[j]
      BY <1>7, <1>9, <3>1, <3>2
    <3> QED
      BY <2>2, <3>3
  <2>4. CASE j > end
    BY <1>2, <1>5, <2>2, <2>4
  <2> QED
    BY <1>2, <1>5, <2>3, <2>4
<1>12. read # <<>> => order[channel] # <<>>
  <2>1. ASSUME order[channel] = <<>> PROVE all = <<>>
    <3>1. Len(order[channel]) = 0 /\ Among(order[channel], Matching)[0] = <<>>
      BY <1>2, <2>1, AmongRuns DEF Selects
    <3> QED
      BY <3>1 DEF all, Listed
  <2>2. ASSUME all = <<>> PROVE Len(read) = 0
    BY <1>3, <1>5, <1>7, <1>9, <2>2
  <2>3. Len(read) = 0 => read = <<>>
    BY <1>9, EmptySeq
  <2> QED
    BY <2>1, <2>2, <2>3
<1> HIDE DEF read
<1>13. PageOf(channel).posts = read /\ PageOf(channel).more = (Len(all) > last1)
  BY <1>4
<1>14. \A j \in DOMAIN all : j > m =>
           /\ read # <<>>
           /\ \/ \E i \in DOMAIN read : read[i].id = all[j]
              \/ Len(all) > last1 /\ j > last1
  BY <1>11
<1>15. read \in Seq(PostRecords) /\ (Len(all) > last1) \in BOOLEAN
  BY <1>9
<1>16. \A i \in DOMAIN read :
           /\ read[i].id \in Written(channel)
           /\ read[i].at = at[read[i].id] /\ read[i].gone = (read[i].id \in gone)
  BY <1>10
<1> QED
  BY <1>12, <1>13, <1>14, <1>15, <1>16, Zenon DEF all, m, last1

\* What is stored of a post: a copy that was kept, if there is one.
LEMMA UpsertedIs ==
    ASSUME NEW kept \in Seq(PostRecords), NEW old, NEW p \in Posts
    PROVE  \/ \E i \in DOMAIN kept : kept[i].id = p /\ Upserted(old, kept)[p] = kept[i].at
           \/ (\A i \in DOMAIN kept : kept[i].id # p) /\ Upserted(old, kept)[p] = old[p]
<1> DEFINE copies == {i \in DOMAIN kept : kept[i].id = p}
           i == CHOOSE x \in copies : \A y \in copies : y <= x
<1>1. Upserted(old, kept)[p] = IF copies = {} THEN old[p] ELSE kept[i].at
  BY DEF Upserted
<1>2. CASE copies = {}
  BY <1>1, <1>2
<1>3. CASE copies # {}
  <2>1. copies \subseteq 0..Len(kept) /\ Len(kept) \in Nat
    OBVIOUS
  <2> HIDE DEF copies
  <2>2. \E x \in copies : \A y \in copies : y <= x
    BY <1>3, <2>1, Greatest
  <2>3. i \in copies
    BY <2>2
  <2> HIDE DEF i
  <2> QED
    BY <1>1, <1>3, <2>3 DEF copies
<1> QED
  BY <1>2, <1>3

\* deleteAndFilterPost keeps and leaves posts of the list it is given.
LEMMA FilterGives ==
    ASSUME NEW R, posts \in Seq(R)
    PROVE  LET res == Filtering(posts, Text)[Len(posts)] IN
           /\ res.array \in Seq(R) /\ Len(res.array) = Len(posts)
           /\ res.kept \in Seq(R) /\ res.kept \in Seq(Storable(R, Text))
           /\ \A i \in 0..Len(posts) :
                  Filtering(posts, Text)[i].deleted \subseteq Deletable(R)
<1> DEFINE res == Filtering(posts, Text)[Len(posts)]
<1>0. Len(posts) \in Nat /\ Len(posts) \in 0..Len(posts)
  OBVIOUS
<1>1. \A i \in 0..Len(posts) : Filtering(posts, Text)[i] \in FilterStates(R, Len(posts), Text)
  BY FilteringRuns
<1>2. \A i \in 0..Len(posts) : Filtering(posts, Text)[i].deleted \subseteq Deletable(R)
  BY <1>1 DEF FilterStates
<1>3. res \in FilterStates(R, Len(posts), Text)
  BY <1>0, <1>1
<1> HIDE DEF res
<1>4. res.array \in [1..Len(posts) -> R] /\ res.kept \in Seq(Storable(R, Text))
  BY <1>3 DEF FilterStates
<1>5. res.array \in Seq(R) /\ Len(res.array) = Len(posts)
  BY <1>0, <1>4, ArrayIs
<1>6. res.kept \in Seq(R)
  BY <1>4 DEF Storable
<1> QED
  BY <1>2, <1>4, <1>5, <1>6 DEF res

LEMMA StoredType ==
    ASSUME TypeOK, NEW res, res.kept \in Seq(PostRecords), Stored(res)
    PROVE  index' \in [Posts -> 0..MaxTime]
<1> DEFINE old == Deleted(index, res.deleted)
<1>1. index' = Upserted(old, res.kept) /\ old \in [Posts -> 0..MaxTime]
  BY PagesAssumption DEF Stored, Deleted, TypeOK
<1>2. \A i \in DOMAIN res.kept : res.kept[i].at \in 0..MaxTime
  <2>1. \A i \in DOMAIN res.kept : res.kept[i] \in PostRecords
    BY ElementOfSeq, LenProperties
  <2> QED
    BY <2>1, PagesAssumption DEF PostRecords
<1> HIDE DEF old
<1>3. ASSUME NEW p \in Posts PROVE Upserted(old, res.kept)[p] \in 0..MaxTime
  BY <1>1, <1>2, UpsertedIs
<1> QED
  BY <1>1, <1>3 DEF Upserted

LEMMA NextChannelType ==
    ASSUME TypeOK, NextChannel
    PROVE  channel' \in 1..Len(Channels) /\ page' \in Nat /\ pc' \in {"page", "done"}
  BY ChannelsAssumption DEF TypeOK, NextChannel

\* What a fetch that ends leaves of its variables.
LEMMA ForgetType ==
    ASSUME Forget
    PROVE  /\ start' \in 0..MaxTime /\ since' \in 0..MaxTime /\ before' \in Nat
           /\ loaded' \in Nat /\ channel' \in 1..Len(Channels) /\ page' \in Nat
           /\ more' \in BOOLEAN /\ posts' \in Seq(PostRecords) /\ posts' = <<>>
<1>1. <<>> \in Seq(PostRecords)
  BY EmptySeq
<1>2. 0 \in 0..MaxTime /\ 0 \in Nat /\ 1 \in 1..Len(Channels)
  BY ChannelsAssumption, PagesAssumption
<1>3. /\ start' = 0 /\ since' = 0 /\ before' = 0 /\ loaded' = 0 /\ channel' = 1
      /\ page' = 0 /\ more' = FALSE /\ posts' = <<>>
  BY DEF Forget, Fresh
<1> QED
  BY <1>1, <1>2, <1>3

LEMMA DataInit == Init => DataInv
<1> SUFFICES ASSUME Init PROVE DataInv
  OBVIOUS
<1>1. <<>> \in Seq(Posts) /\ <<>> \in Seq(PostRecords) /\ DOMAIN <<>> = {}
  BY EmptySeq
<1>2. /\ now \in 1..MaxTime /\ index \in [Posts -> 0..MaxTime] /\ at \in [Posts -> 0..MaxTime]
      /\ gone \subseteq Posts
      /\ order \in [1..Len(Channels) -> Seq(Posts)]
  BY <1>1, ChannelsAssumption, PagesAssumption DEF Init
<1>3. channel \in 1..Len(Channels) /\ posts \in Seq(PostRecords) /\ last \in 0..MaxTime
  BY <1>1, ChannelsAssumption, PagesAssumption DEF Init
<1>4. TypeOK
  BY <1>2, <1>3 DEF Init, TypeOK, PostRecords
<1>5. OrderInv
  BY <1>1 DEF Init, OrderInv
<1> QED
  BY <1>4, <1>5 DEF DataInv

\* The server's steps.
LEMMA TypeServer ==
    ASSUME DataInv, NEW p \in Posts, Create(p) \/ Edit(p) \/ Delete(p)
    PROVE  DataInv'
<1> USE PostsAssumption, PagesAssumption, ChannelsAssumption DEF DataInv
<1>1. UNCHANGED <<chroma, store, pc, local, now>>
  BY DEF Create, Edit, Delete
<1>2. /\ at' = [at EXCEPT ![p] = now] /\ gone' \subseteq Posts /\ intact' \in BOOLEAN /\ closed' = closed
      /\ now \in 1..MaxTime /\ Home[p] \in 1..Len(Channels) /\ order \in [1..Len(Channels) -> Seq(Posts)]
  BY DEF Create, Edit, Delete, TypeOK, history
<1>3. order' = order \/ order' = [order EXCEPT ![Home[p]] = <<p>> \o @]
  BY DEF Create, Edit, Delete
<1>4. order' \in [1..Len(Channels) -> Seq(Posts)]
  <2>1. <<p>> \o order[Home[p]] \in Seq(Posts)
    BY <1>2
  <2> QED
    BY <1>2, <1>3, <2>1
<1>5. TypeOK'
  BY <1>1, <1>2, <1>4 DEF TypeOK, chroma, store, local, history
<1>6. \A q \in Posts : at'[q] = IF q = p THEN now ELSE at[q]
  BY <1>2 DEF TypeOK
<1>7. ASSUME NEW c \in 1..Len(Channels), NEW i \in DOMAIN order'[c]
      PROVE  order'[c][i] \in Written(c)'
  <2>1. order'[c][i] \in Written(c) \cup {p} /\ (order'[c][i] = p => c = Home[p])
    <3>1. CASE order'[c] = order[c]
      BY <3>1 DEF OrderInv, Written
    <3>2. CASE order'[c] = <<p>> \o order[c] /\ c = Home[p]
      <4>1. i = 1 \/ (i - 1 \in DOMAIN order[c] /\ order'[c][i] = order[c][i - 1])
        BY <1>2, <3>2
      <4>2. i = 1 => order'[c][i] = p
        BY <1>2, <3>2
      <4> QED
        BY <3>2, <4>1, <4>2 DEF OrderInv
    <3> QED
      BY <1>2, <1>3, <3>1, <3>2
  <2> QED
    BY <1>2, <1>6, <2>1 DEF Written
<1>8. ASSUME NEW q \in Posts, at'[q] > 0
      PROVE  \E i \in DOMAIN order'[Home[q]] : order'[Home[q]][i] = q
  <2>0. Home[q] \in 1..Len(Channels) /\ order[Home[q]] \in Seq(Posts)
    BY <1>2
  <2>1. CASE at[q] > 0
    <3>1. PICK i \in DOMAIN order[Home[q]] : order[Home[q]][i] = q
      BY <2>1 DEF OrderInv
    <3>2. CASE order'[Home[q]] = order[Home[q]]
      BY <3>1, <3>2
    <3>3. CASE order'[Home[q]] = <<p>> \o order[Home[q]]
      <4>1. i + 1 \in DOMAIN order'[Home[q]] /\ order'[Home[q]][i + 1] = q
        BY <2>0, <3>1, <3>3
      <4> QED
        BY <4>1
    <3> QED
      BY <1>2, <1>3, <2>0, <3>2, <3>3
  <2>2. CASE ~(at[q] > 0)
    <3>1. q = p
      BY <1>6, <1>8, <2>2
    <3>2. Create(p)
      BY <1>2, <2>2, <3>1 DEF Edit, Delete, Live
    <3>3. order'[Home[q]] = <<q>> \o order[Home[q]]
      BY <1>2, <3>1, <3>2 DEF Create
    <3>4. 1 \in DOMAIN order'[Home[q]] /\ order'[Home[q]][1] = q
      BY <2>0, <3>3
    <3> QED
      BY <3>4
  <2> QED
    BY <2>1, <2>2
<1>9. OrderInv'
  BY <1>7, <1>8 DEF OrderInv
<1> QED
  BY <1>5, <1>9

LEMMA OrderKept == ASSUME OrderInv, UNCHANGED <<order, at>> PROVE OrderInv'
  BY DEF OrderInv, Written

\* What deleteFromChroma leaves.
LEMMA RemovedType ==
    ASSUME TypeOK, NEW ids, Removed(ids)
    PROVE  index' \in [Posts -> 0..MaxTime]
<1>1. 0 \in 0..MaxTime /\ 0 \in 0..Len(Channels)
  BY ChannelsAssumption, PagesAssumption
<1> QED
  BY <1>1 DEF Removed, Deleted, TypeOK

\* A fetch that ends, whatever it has done to chroma.
LEMMA TypeForget ==
    ASSUME TypeOK, Forget, UNCHANGED <<now, server, handle, intact>>,
           pc' \in {"idle", "down"}, last' \in 0..MaxTime, total' \in Nat,
           closed' \in BOOLEAN,
           index' \in [Posts -> 0..MaxTime]
    PROVE  TypeOK'
<1>1. /\ start' \in 0..MaxTime /\ since' \in 0..MaxTime /\ before' \in Nat
      /\ loaded' \in Nat /\ channel' \in 1..Len(Channels) /\ page' \in Nat
      /\ more' \in BOOLEAN /\ posts' \in Seq(PostRecords)
  BY ForgetType
<1> QED
  BY <1>1 DEF TypeOK, server, PostRecords

LEMMA TypeGiveUp ==
    ASSUME TypeOK, GiveUp, UNCHANGED <<now, server, handle, intact>>,
           index' \in [Posts -> 0..MaxTime]
    PROVE  TypeOK'
<1>1. Forget /\ pc' = "idle" /\ last' \in 0..MaxTime /\ total' \in Nat
      /\ closed' \in BOOLEAN
  BY DEF GiveUp, TypeOK
<1> QED
  BY <1>1, TypeForget

LEMMA TypeStart == ASSUME TypeOK, StartFetch PROVE TypeOK'
<1>1. /\ <<>> \in Seq(PostRecords) /\ 1 \in 1..Len(Channels) /\ 0 \in 0..MaxTime
      /\ 0 \in Nat
  BY EmptySeq, ChannelsAssumption, PagesAssumption
<1>2. now' \in 1..MaxTime /\ start' \in 0..MaxTime /\ since' \in 0..MaxTime
  BY <1>1, PagesAssumption DEF StartFetch, TypeOK
<1>3. /\ loaded' \in Nat /\ channel' \in 1..Len(Channels) /\ page' \in Nat
      /\ more' \in BOOLEAN /\ posts' \in Seq(PostRecords)
  BY <1>1 DEF StartFetch, Fresh
<1> QED
  BY <1>2, <1>3 DEF StartFetch, TypeOK, server, chroma, store, PostRecords

LEMMA TypeRead == ASSUME DataInv, ReadPage PROVE TypeOK'
<1> DEFINE res == PageOf(channel)
<1>1. res.posts \in Seq(PostRecords) /\ res.more \in BOOLEAN
  BY PageReads
<1>2. posts \in Seq(PostRecords) /\ TypeOK
  BY DEF DataInv, TypeOK, PostRecords
<1>3. \/ /\ NextChannel
         /\ UNCHANGED <<start, since, before, loaded, more, posts>>
      \/ /\ posts' = posts \o res.posts
         /\ more' = res.more
         /\ pc' = "store"
         /\ UNCHANGED <<start, since, before, loaded, channel, page>>
  BY DEF ReadPage
<1> HIDE DEF res
<1>4. /\ channel' \in 1..Len(Channels) /\ page' \in Nat
      /\ pc' \in {"page", "store", "done"} /\ more' \in BOOLEAN
      /\ UNCHANGED <<start, since, before, loaded>>
  BY <1>1, <1>2, <1>3, NextChannelType DEF TypeOK
<1>5. posts' \in Seq(PostRecords)
  <2>1. posts \o res.posts \in Seq(PostRecords)
    BY <1>1, <1>2, ConcatProperties
  <2> QED
    BY <1>2, <1>3, <2>1
<1> QED
  BY <1>2, <1>4, <1>5 DEF ReadPage, TypeOK, server, chroma, store, history, PostRecords

LEMMA TypeStore == ASSUME TypeOK, StorePage PROVE TypeOK'
<1> DEFINE res == Filtering(posts, Text)[Len(posts)]
<1>1. posts \in Seq(PostRecords)
  BY DEF TypeOK, PostRecords
<1>2. res.array \in Seq(PostRecords) /\ res.kept \in Seq(PostRecords)
  BY <1>1, FilterGives
<1>3. /\ Stored(res) /\ posts' = res.array /\ total' \in {total, before + loaded'}
      /\ loaded' = IF res.kept = <<>> THEN loaded ELSE Len(res.kept)
      /\ \/ page' = page + 1 /\ pc' = "page" /\ UNCHANGED channel
         \/ NextChannel
      /\ UNCHANGED <<now, server, handle, last, start, since, before, more, history>>
  BY DEF StorePage
<1> HIDE DEF res
<1>4. index' \in [Posts -> 0..MaxTime]
  BY <1>2, <1>3, StoredType
<1>5. loaded' \in Nat /\ total' \in Nat
  BY <1>2, <1>3 DEF TypeOK
<1>6. channel' \in 1..Len(Channels) /\ page' \in Nat /\ pc' \in {"page", "done"}
  BY <1>3, NextChannelType DEF TypeOK
<1> QED
  BY <1>2, <1>3, <1>4, <1>5, <1>6 DEF TypeOK, server, history, PostRecords

LEMMA DataStep == DataInv /\ [Next]_vars => DataInv'
<1> SUFFICES ASSUME DataInv, [Next]_vars PROVE DataInv'
  OBVIOUS
<1>0. TypeOK /\ OrderInv /\ posts \in Seq(PostRecords)
  BY DEF DataInv, TypeOK, PostRecords
<1>1. ASSUME NEW p \in Posts, Create(p) \/ Edit(p) \/ Delete(p) PROVE DataInv'
  BY <1>1, TypeServer
<1>2. ASSUME TypeOK', UNCHANGED server PROVE DataInv'
  BY <1>0, <1>2, OrderKept DEF DataInv, server
<1>3. CASE TimePasses
  <2>1. now' \in 1..MaxTime
    BY <1>0, <1>3, PagesAssumption DEF TimePasses, TypeOK
  <2>2. TypeOK'
    BY <1>0, <1>3, <2>1 DEF TimePasses, TypeOK, server, chroma, store, local, history
  <2> QED
    BY <1>2, <1>3, <2>2 DEF TimePasses
<1>4. CASE StartFetch
  BY <1>0, <1>2, <1>4, TypeStart DEF StartFetch
<1>5. CASE ReadPage
  BY <1>2, <1>5, TypeRead DEF ReadPage
<1>6. CASE ReadFails
  <2>1. TypeOK'
    BY <1>0, <1>6, TypeGiveUp DEF ReadFails, chroma, TypeOK
  <2> QED
    BY <1>2, <1>6, <2>1 DEF ReadFails
<1>7. CASE StorePage
  BY <1>0, <1>2, <1>7, TypeStore DEF StorePage
<1>8. CASE Interrupted
  <2> DEFINE res == Filtering(posts, Text)[Len(posts)]
  <2>1. res.kept \in Seq(PostRecords)
    BY <1>0, FilterGives
  <2>2. Stored(res) /\ GiveUp /\ UNCHANGED <<now, server, handle, intact>>
    BY <1>8 DEF Interrupted
  <2> HIDE DEF res
  <2>3. TypeOK'
    BY <1>0, <2>1, <2>2, StoredType, TypeGiveUp
  <2> QED
    BY <1>2, <2>2, <2>3
<1>9. CASE StoreFails
  <2>1. /\ \E ids : Removed(ids)
        /\ GiveUp /\ UNCHANGED <<now, server, handle, intact>>
    BY <1>9 DEF StoreFails
  <2>2. TypeOK'
    BY <1>0, <2>1, RemovedType, TypeGiveUp
  <2> QED
    BY <1>2, <2>1, <2>2
<1>10. CASE StorePanics
  <2>1. /\ \E ids : Removed(ids)
        /\ pc' = "down" /\ Forget /\ UNCHANGED <<now, server, handle, store, history>>
    BY <1>10 DEF StorePanics
  <2>2. last' \in 0..MaxTime /\ total' \in Nat /\ closed' \in BOOLEAN /\ intact' = intact
    BY <1>0, <2>1 DEF store, history, TypeOK
  <2>3. TypeOK'
    BY <1>0, <2>1, <2>2, RemovedType, TypeForget
  <2> QED
    BY <1>2, <2>1, <2>3
<1>11. CASE Finish
  <2>1. TypeOK'
    BY <1>0, <1>11, TypeForget DEF Finish, chroma, TypeOK
  <2> QED
    BY <1>2, <1>11, <2>1 DEF Finish
<1>12. CASE Crash
  <2>1. TypeOK'
    BY <1>0, <1>12, TypeForget DEF Crash, chroma, store, history, TypeOK
  <2> QED
    BY <1>2, <1>12, <2>1 DEF Crash
<1>13. CASE Restart
  <2>1. TypeOK'
    BY <1>0, <1>13 DEF Restart, TypeOK, server, store, local, history
  <2> QED
    BY <1>2, <1>13, <2>1 DEF Restart
<1>14. CASE ResetVectorStore
  <2>1. 0 \in 0..MaxTime /\ 0 \in 0..Len(Channels)
    BY ChannelsAssumption, PagesAssumption
  <2>2. index' \in [Posts -> 0..MaxTime]
    BY <1>14, <2>1 DEF ResetVectorStore
  <2>3. TypeOK'
    BY <1>0, <1>14, <2>2 DEF ResetVectorStore, TypeOK, server, store, local
  <2> QED
    BY <1>2, <1>14, <2>3 DEF ResetVectorStore
<1>15. CASE UNCHANGED vars
  <2>1. TypeOK'
    BY <1>0, <1>15 DEF vars, TypeOK, server, chroma, store, local, history
  <2> QED
    BY <1>2, <1>15, <2>1 DEF vars
<1> QED
  BY <1>1, <1>3, <1>4, <1>5, <1>6, <1>7, <1>8, <1>9, <1>10, <1>11, <1>12, <1>13,
     <1>14, <1>15 DEF Next

\* The variables keep their types: what a fetch has read stays a list of posts
\* and its place stays one in the list of channels, whatever deleteAndFilterPost
\* does to the list under its own loop.
THEOREM TypeCorrect == Spec => []TypeOK
<1>1. DataInv => TypeOK
  BY DEF DataInv
<1> QED
  BY <1>1, DataInit, DataStep, PTL DEF Spec

-----------------------------------------------------------------------------
\* No text is lost, as long as nothing is deleted and the index is not reset

\* The texts a fetch is to bring: those written when it starts.
Due == {p \in Text : 0 < at[p] /\ at[p] <= start}

Settled(p) == index[p] = at[p]

\* The channel that is read still lists p, below the first k.
Ahead(p, k) == \E j \in DOMAIN Listed(channel) : j > k /\ Listed(channel)[j] = p

\* p is among what was read, or on one of the pages to be read.
ToCome(p) == \/ pc = "page" /\ Ahead(p, page * PageSize)
             \/ pc = "store" /\ \E i \in DOMAIN posts : posts[i].id = p
             \/ pc = "store" /\ more /\ Ahead(p, (page + 1) * PageSize)

Accounted(p) == Settled(p) \/ channel < Home[p] \/ (channel = Home[p] /\ ToCome(p))

\* Copies of posts as they are, or of posts written again since the fetch began.
Copies == {r \in PostRecords : ~r.gone /\ (r.at = at[r.id] \/ start < at[r.id])}

FetchInv == Fetching => /\ since \in {0, last}
                        /\ pc = "done" => channel = Len(Channels)
                        /\ posts \in Seq(Copies)
                        /\ \A p \in Due : Accounted(p)

IntactInv == intact => gone = {} /\ Complete /\ FetchInv

\* Writing moves what a channel lists down, never up: no post is passed over
\* by a fetch that counts its pages from the top.
LEMMA ListingGrows ==
    ASSUME DataInv, NEW p \in Posts, Create(p) \/ Edit(p), NEW c \in 1..Len(Channels)
    PROVE  Behind(Listed(c), Listed(c)')
<1> DEFINE list == order[c]
           n == Len(list)
           M == Matching
           N == Matching'
<1>1. /\ order \in [1..Len(Channels) -> Seq(Posts)] /\ at \in [Posts -> 0..MaxTime]
      /\ MaxTime \in Nat /\ now \in 1..MaxTime /\ since \in 0..MaxTime
  BY PagesAssumption DEF DataInv, TypeOK
<1>2. list \in Seq(Posts) /\ n \in Nat /\ n \in 0..n
  BY <1>1
<1>3. M \subseteq N
  <2>1. at' = [at EXCEPT ![p] = now] /\ at[p] < now /\ gone' = gone /\ since' = since
    BY <1>1 DEF Create, Edit, local
  <2>2. \A q \in Posts : at'[q] >= at[q]
    BY <1>1, <2>1
  <2>3. \A q \in Posts : at[q] > since => at'[q] > since
    BY <1>1, <2>1
  <2> QED
    BY <2>1, <2>3 DEF Matching
<1>4. list' = list \/ list' = <<p>> \o list
  BY <1>1 DEF Create, Edit
<1> HIDE DEF M, N
<1>5. Listed(c) = Among(list, M)[n] /\ Listed(c)' = Among(list', N)[Len(list')]
  BY DEF Listed, M, N
<1> HIDE DEF list
<1>6. Behind(Among(list, M)[n], Among(list, N)[n])
  BY <1>2, <1>3, AmongMore
<1>7. CASE list' = list
  BY <1>5, <1>6, <1>7
<1>8. CASE list' = <<p>> \o list
  <2>1. list' \in Seq(Posts) /\ Len(list') = n + 1 /\ n + 1 \in 0..(n + 1)
    BY <1>2, <1>8
  <2>2. Behind(Among(list, N)[n], Among(list', N)[n + 1])
    BY <1>2, <1>8, AmongHead
  <2>3. /\ Among(list, M)[n] \in Seq(Posts) /\ Among(list, N)[n] \in Seq(Posts)
        /\ Among(list', N)[n + 1] \in Seq(Posts)
    <3>1. /\ Selects(Posts, list, M, Among(list, M)) /\ Selects(Posts, list, N, Among(list, N))
          /\ Selects(Posts, list', N, Among(list', N))
      BY <1>2, <2>1, AmongRuns
    <3> QED
      BY <1>2, <2>1, <3>1 DEF Selects
  <2>4. Behind(Among(list, M)[n], Among(list', N)[n + 1])
    BY <1>6, <2>2, <2>3, BehindTransitive
  <2> QED
    BY <1>5, <2>1, <2>4
<1> QED
  BY <1>4, <1>7, <1>8

LEMMA AheadGrows ==
    ASSUME DataInv, DataInv', channel' = channel, Behind(Listed(channel), Listed(channel)'),
           NEW p, NEW k \in Nat, Ahead(p, k)
    PROVE  Ahead(p, k)'
<1> DEFINE a == Listed(channel)
           b == Listed(channel)'
<1>1. channel \in 1..Len(Channels) /\ channel' \in 1..Len(Channels)
  BY DEF DataInv, TypeOK
<1>2. a \in Seq(Written(channel))
  BY <1>1, ListingType
<1>3. PICK j \in DOMAIN a : j > k /\ a[j] = p
  BY DEF Ahead
<1>4. PICK l \in DOMAIN b : j <= l /\ b[l] = a[j]
  BY DEF Behind
<1>5. b \in Seq(Posts)
  <2>1. (order[channel] \in Seq(Posts))'
    BY <1>1 DEF DataInv, TypeOK
  <2>2. Selects(Posts, order[channel]', Matching', Among(order[channel]', Matching'))
    BY <2>1, AmongRuns
  <2>3. Len(order[channel]') \in 0..Len(order[channel]')
    BY <2>1
  <2> QED
    BY <2>2, <2>3 DEF Selects, Listed
<1>6. j \in Nat /\ l \in Nat
  BY <1>2, <1>5
<1>7. l > k /\ b[l] = p
  BY <1>3, <1>4, <1>6
<1> QED
  BY <1>4, <1>7 DEF Ahead

\* When a channel's first page is asked for, the listing has every text the
\* index does not have.
LEMMA ChannelBegins ==
    ASSUME DataInv', Complete', intact', gone' = {}, since' \in {0, last'}, page' = 0,
           NEW p \in Text, at'[p] > 0, channel' = Home[p]
    PROVE  Settled(p)' \/ Ahead(p, page * PageSize)'
<1> DEFINE list == order'[Home[p]]
           ids == Matching'
<1>1. /\ p \in Posts /\ Home[p] \in 1..Len(Channels) /\ page' * PageSize = 0
      /\ at' \in [Posts -> 0..MaxTime] /\ MaxTime \in Nat
  BY PostsAssumption, PagesAssumption DEF DataInv, TypeOK
<1>2. list \in Seq(Posts)
  BY <1>1 DEF DataInv, TypeOK
<1>3. PICK i \in DOMAIN list : list[i] = p
  BY <1>1 DEF DataInv, OrderInv
<1>4. CASE p \notin ids
  <2>1. since' # 0 /\ ~(at'[p] > since')
    BY <1>1, <1>4 DEF Matching
  <2>2. at'[p] <= last'
    BY <1>1, <2>1 DEF DataInv, TypeOK
  <2> QED
    BY <2>2 DEF Complete, Settled
<1>5. CASE p \in ids
  <2>1. Listed(channel)' = Among(list, ids)[Len(list)]
    BY DEF Listed
  <2> HIDE DEF list, ids
  <2>2. PICK k \in DOMAIN Among(list, ids)[Len(list)] : Among(list, ids)[Len(list)][k] = p
    <3>1. i \in 1..Len(list) /\ Len(list) \in 0..Len(list)
      BY <1>2
    <3>2. Holds(list, ids, Among(list, ids))
      BY <1>2, AmongHolds
    <3> QED
      BY <1>3, <1>5, <3>1, <3>2 DEF Holds
  <2>3. Among(list, ids)[Len(list)] \in Seq(Posts)
    <3>1. Len(list) \in 0..Len(list)
      BY <1>2
    <3> QED
      BY <1>2, <3>1, AmongRuns DEF Selects
  <2>4. k > 0
    BY <2>3
  <2> QED
    BY <1>1, <2>1, <2>2, <2>4 DEF Ahead
<1> QED
  BY <1>4, <1>5

\* What a page stores: with nothing deleted, all texts read so far, as they were
\* at the start of the fetch unless they were written again.
LEMMA StoringSettles ==
    ASSUME DataInv, posts \in Seq(Copies),
           Stored(Filtering(posts, Text)[Len(posts)]),
           NEW p \in Due, Settled(p) \/ \E i \in DOMAIN posts : posts[i].id = p
    PROVE  index'[p] = at[p]
<1> DEFINE res == Filtering(posts, Text)[Len(posts)]
<1>1. \A i \in DOMAIN posts : posts[i] \in Copies
  BY ElementOfSeq, LenProperties
<1>2. /\ res.deleted = {} /\ res.kept \in Seq(Copies)
      /\ \A j \in DOMAIN posts : posts[j].id \in Text =>
             \E k \in DOMAIN res.kept : res.kept[k] = posts[j]
  <2>1. Len(posts) \in 0..Len(posts) /\ DOMAIN posts = 1..Len(posts)
    BY LenProperties
  <2>2. \A j \in 1..Len(posts) : ~posts[j].gone
    BY <1>1, <2>1 DEF Copies
  <2> QED
    BY <2>1, <2>2, FilteringKeeps, FilterGives
<1> HIDE DEF res
<1>3. \A k \in DOMAIN res.kept : res.kept[k] \in Copies
  BY <1>2, ElementOfSeq, LenProperties
<1>4. p \in Posts /\ p \in Text /\ at[p] <= start /\ at[p] \in Nat /\ start \in Nat
  BY PostsAssumption, PagesAssumption DEF Due, DataInv, TypeOK
<1>5. index' = Upserted(Deleted(index, {}), res.kept)
  BY <1>2 DEF Stored, res
<1>6. res.kept \in Seq(PostRecords)
  BY <1>2, <1>3 DEF Copies
<1>7. CASE \E k \in DOMAIN res.kept : res.kept[k].id = p /\ index'[p] = res.kept[k].at
  BY <1>3, <1>4, <1>7 DEF Copies
<1>8. CASE (\A k \in DOMAIN res.kept : res.kept[k].id # p)
           /\ index'[p] = Deleted(index, {})[p]
  <2>1. ~\E i \in DOMAIN posts : posts[i].id = p
    BY <1>2, <1>4, <1>8
  <2> QED
    BY <1>4, <1>8, <2>1 DEF Settled, Deleted
<1> QED
  BY <1>4, <1>5, <1>6, <1>7, <1>8, UpsertedIs

LEMMA IntactBefore == [Next]_vars /\ intact' => intact
<1> SUFFICES ASSUME [Next]_vars, intact' PROVE intact
  OBVIOUS
<1> USE DEF history
<1>1. ASSUME NEW p \in Posts, Create(p) \/ Edit(p) \/ Delete(p) PROVE intact
  BY <1>1 DEF Create, Edit, Delete
<1>2. CASE StartFetch \/ ReadPage \/ ReadFails \/ StorePage \/ Interrupted
  BY <1>2 DEF StartFetch, ReadPage, ReadFails, StorePage, Interrupted
<1>3. CASE StoreFails \/ StorePanics \/ Finish \/ Crash
  BY <1>3 DEF StoreFails, StorePanics, Finish, Crash
<1>4. CASE TimePasses \/ Restart \/ ResetVectorStore \/ UNCHANGED vars
  BY <1>4 DEF TimePasses, Restart, ResetVectorStore, vars
<1> QED
  BY <1>1, <1>2, <1>3, <1>4 DEF Next

\* Steps that write no post and finish no fetch, and unsettle no text of before.
LEMMA CompleteKept ==
    ASSUME Complete, intact, UNCHANGED <<at, last>>,
           \A p \in Text : at[p] > 0 /\ at[p] <= last /\ Settled(p) => index'[p] = at[p]
    PROVE  Complete'
  BY DEF Complete, Settled

\* Steps after which no fetch is under way.
LEMMA IntactLeft ==
    ASSUME Complete', gone' = {}, ~Fetching'
    PROVE  IntactInv'
  BY DEF IntactInv, FetchInv

\* What the last fetch brought was written when this one starts.
LEMMA OldIsDue ==
    ASSUME ClockInv, DataInv, Fetching, NEW p \in Text, at[p] > 0, at[p] <= last
    PROVE  p \in Due
  BY PostsAssumption, PagesAssumption DEF ClockInv, DataInv, TypeOK, Due

LEMMA IntactWrites ==
    ASSUME DataInv, DataInv', ClockInv, IntactInv, intact, NEW p \in Posts,
           Create(p) \/ Edit(p)
    PROVE  IntactInv'
<1>1. /\ at' = [at EXCEPT ![p] = now] /\ UNCHANGED <<now, gone, index, last, pc, local, intact>>
  BY DEF Create, Edit, chroma, store, history
<1>2. /\ at \in [Posts -> 0..MaxTime] /\ MaxTime \in Nat /\ now \in Nat /\ last \in Nat
      /\ last < now /\ start \in Nat /\ (Fetching => start < now) /\ Text \subseteq Posts
      /\ channel \in 1..Len(Channels) /\ page \in Nat /\ PageSize \in Nat
  BY PostsAssumption, PagesAssumption DEF DataInv, TypeOK, ClockInv
<1>3. gone = {} /\ Complete /\ FetchInv
  BY DEF IntactInv
<1>4. Complete'
  BY <1>1, <1>2, <1>3 DEF Complete
<1>5. CASE Fetching
  <2>1. since \in {0, last} /\ (pc = "done" => channel = Len(Channels))
        /\ posts \in Seq(Copies) /\ \A q \in Due : Accounted(q)
    BY <1>3, <1>5 DEF FetchInv
  <2>2. Copies \subseteq Copies'
    <3>1. ASSUME NEW r \in Copies PROVE r \in Copies'
      <4>1. r \in PostRecords /\ ~r.gone /\ (r.at = at[r.id] \/ start < at[r.id])
            /\ r.id \in Posts
        BY DEF Copies, PostRecords
      <4>2. r.at = at'[r.id] \/ start < at'[r.id]
        BY <1>1, <1>2, <1>5, <4>1
      <4> QED
        BY <1>1, <4>1, <4>2 DEF Copies, PostRecords, local
    <3> QED
      BY <3>1
  <2>3. (posts \in Seq(Copies))'
    BY <1>1, <2>1, <2>2 DEF local
  <2>4. Behind(Listed(channel), Listed(channel)')
    BY <1>1, <1>2, ListingGrows DEF local
  <2>5. \A q, k : k \in Nat /\ Ahead(q, k) => Ahead(q, k)'
    BY <1>1, <2>4, AheadGrows DEF local
  <2>6. ASSUME NEW q \in Due' PROVE Accounted(q)'
    <3>1. q \in Due /\ at'[q] = at[q]
      BY <1>1, <1>2, <1>5 DEF Due, local
    <3>2. Accounted(q)
      BY <2>1, <3>1
    <3>3. page * PageSize \in Nat /\ (page + 1) * PageSize \in Nat
      BY <1>2
    <3>4. /\ Ahead(q, page * PageSize) => Ahead(q, page * PageSize)'
          /\ Ahead(q, (page + 1) * PageSize) => Ahead(q, (page + 1) * PageSize)'
      <4>1. page' = page
        BY <1>1 DEF local
      <4> QED
        BY <2>5, <3>3, <4>1 DEF Ahead
    <3>5. ToCome(q) => ToCome(q)'
      BY <1>1, <3>4 DEF ToCome, local
    <3> QED
      BY <1>1, <3>1, <3>2, <3>5 DEF Accounted, Settled, local
  <2> QED
    BY <1>1, <1>3, <1>4, <2>1, <2>3, <2>6 DEF IntactInv, FetchInv, local
<1>6. CASE ~Fetching
  BY <1>1, <1>3, <1>4, <1>6, IntactLeft DEF Fetching
<1> QED
  BY <1>5, <1>6

LEMMA IntactStarts ==
    ASSUME DataInv, DataInv', IntactInv, intact, StartFetch
    PROVE  IntactInv'
<1>1. /\ UNCHANGED <<order, at, gone, index, last, intact>> /\ pc' = "page"
      /\ since' \in {0, last} /\ channel' = 1 /\ page' = 0 /\ posts' = <<>>
  BY DEF StartFetch, Fresh, server, chroma, store
<1>2. gone = {} /\ Complete
  BY DEF IntactInv
<1>3. Complete'
  BY <1>1, <1>2 DEF Complete
<1>4. posts' \in Seq(Copies')
  BY <1>1, EmptySeq
<1>5. ASSUME NEW p \in Due' PROVE Accounted(p)'
  <2>1. p \in Text /\ at'[p] > 0 /\ Home[p] \in 1..Len(Channels)
    BY PostsAssumption DEF Due
  <2>2. CASE Home[p] = 1
    <3>1. Settled(p)' \/ Ahead(p, page * PageSize)'
      BY <1>1, <1>2, <1>3, <2>1, <2>2, ChannelBegins
    <3> QED
      BY <1>1, <2>2, <3>1 DEF Accounted, ToCome
  <2>3. CASE Home[p] # 1
    BY <1>1, <2>1, <2>3 DEF Accounted
  <2> QED
    BY <2>2, <2>3
<1> QED
  BY <1>1, <1>2, <1>3, <1>4, <1>5 DEF IntactInv, FetchInv

\* The next channel, when the texts of the one before are settled.
LEMMA IntactAdvances ==
    ASSUME DataInv, DataInv', IntactInv, intact, intact', Fetching, Complete', NextChannel,
           UNCHANGED <<order, at, gone, since, last, start>>,
           \A p \in Due : index'[p] = at[p] \/ channel < Home[p]
    PROVE  /\ pc' = "done" => channel' = Len(Channels)
           /\ \A p \in Due' : Accounted(p)'
<1>1. gone' = {} /\ since' \in {0, last'}
  BY DEF IntactInv, FetchInv
<1>2. channel \in 1..Len(Channels) /\ Len(Channels) \in Nat
  BY ChannelsAssumption DEF DataInv, TypeOK
<1>3. pc' = "done" => channel' = Len(Channels) /\ channel' = channel
  BY <1>2 DEF NextChannel
<1>4. ASSUME NEW p \in Due' PROVE Accounted(p)'
  <2>1. p \in Due /\ p \in Text /\ at'[p] > 0 /\ Home[p] \in 1..Len(Channels)
    BY PostsAssumption DEF Due
  <2>2. CASE index'[p] = at[p]
    BY <2>2 DEF Accounted, Settled
  <2>3. CASE index'[p] # at[p]
    <3>1. channel < Home[p]
      BY <2>1, <2>3
    <3>2. channel' = channel + 1 /\ page' = 0 /\ pc' = "page"
      BY <1>2, <2>1, <3>1 DEF NextChannel
    <3>3. CASE channel' = Home[p]
      <4>1. Settled(p)' \/ Ahead(p, page * PageSize)'
        BY <1>1, <2>1, <3>2, <3>3, ChannelBegins
      <4> QED
        BY <3>2, <3>3, <4>1 DEF Accounted, ToCome
    <3>4. CASE channel' # Home[p]
      BY <1>2, <2>1, <3>1, <3>2, <3>4 DEF Accounted
    <3> QED
      BY <3>3, <3>4
  <2> QED
    BY <2>2, <2>3
<1> QED
  BY <1>3, <1>4

LEMMA IntactReads ==
    ASSUME DataInv, DataInv', IntactInv, intact, ReadPage
    PROVE  IntactInv'
<1> DEFINE res == PageOf(channel)
<1>1. /\ pc = "page" /\ Fetching
      /\ UNCHANGED <<order, at, gone, index, last, since, start, intact>>
  BY DEF ReadPage, Fetching, server, chroma, store, history
<1>2. /\ gone = {} /\ Complete /\ since \in {0, last} /\ posts \in Seq(Copies)
      /\ \A p \in Due : Accounted(p)
  BY <1>1 DEF IntactInv, FetchInv
<1>3. Complete' /\ Copies' = Copies /\ Due' = Due
  BY <1>1, <1>2 DEF Complete, Copies, Due
<1>4. /\ res.posts \in Seq(PostRecords)
      /\ \A i \in DOMAIN res.posts :
             /\ res.posts[i].at = at[res.posts[i].id]
             /\ res.posts[i].gone = (res.posts[i].id \in gone)
      /\ \A j \in DOMAIN Listed(channel) : j > page * PageSize =>
             /\ res.posts # <<>>
             /\ \/ \E i \in DOMAIN res.posts : res.posts[i].id = Listed(channel)[j]
                \/ res.more /\ j > (page + 1) * PageSize
  BY PageReads
<1>5. \/ res.posts = <<>> /\ NextChannel /\ posts' = posts
      \/ /\ res.posts # <<>> /\ posts' = posts \o res.posts /\ more' = res.more
         /\ pc' = "store" /\ UNCHANGED <<channel, page>>
  BY DEF ReadPage
<1> HIDE DEF res
<1>6. CASE res.posts = <<>> /\ NextChannel /\ posts' = posts
  <2>1. ASSUME NEW p \in Due PROVE index'[p] = at[p] \/ channel < Home[p]
    <3>1. ~Ahead(p, page * PageSize)
      BY <1>4, <1>6 DEF Ahead
    <3>2. Accounted(p)
      BY <1>2
    <3> QED
      BY <1>1, <3>1, <3>2 DEF Accounted, ToCome, Settled
  <2>2. /\ pc' = "done" => channel' = Len(Channels)
        /\ \A p \in Due' : Accounted(p)'
    BY <1>1, <1>3, <1>6, <2>1, IntactAdvances
  <2> QED
    BY <1>1, <1>2, <1>3, <1>6, <2>2 DEF IntactInv, FetchInv
<1>7. CASE /\ res.posts # <<>> /\ posts' = posts \o res.posts /\ more' = res.more
           /\ pc' = "store" /\ UNCHANGED <<channel, page>>
  <2>1. \A i \in DOMAIN res.posts : res.posts[i] \in PostRecords
    BY <1>4, ElementOfSeq, LenProperties
  <2>2. \A i \in DOMAIN res.posts : res.posts[i] \in Copies
    BY <1>2, <1>4, <2>1 DEF Copies
  <2>3. res.posts \in Seq(Copies)
    BY <1>4, <2>2
  <2>4. posts' \in Seq(Copies)'
    BY <1>2, <1>3, <1>7, <2>3, ConcatProperties
  <2>5. ASSUME NEW i \in DOMAIN res.posts
        PROVE  \E j \in DOMAIN posts' : posts'[j].id = res.posts[i].id
    <3>1. Len(posts) + i \in DOMAIN posts' /\ posts'[Len(posts) + i] = res.posts[i]
      BY <1>2, <1>7, <2>3, <2>5
    <3> QED
      BY <3>1
  <2>6. Listed(channel)' = Listed(channel)
    BY <1>1, <1>7 DEF Listed, Matching
  <2>7. ASSUME NEW p \in Due PROVE Accounted(p)'
    <3>1. Accounted(p)
      BY <1>2
    <3>2. CASE Ahead(p, page * PageSize) /\ channel = Home[p]
      <4>1. PICK j \in DOMAIN Listed(channel) : j > page * PageSize /\ Listed(channel)[j] = p
        BY <3>2 DEF Ahead
      <4>2. CASE \E i \in DOMAIN res.posts : res.posts[i].id = p
        <5>1. \E i \in DOMAIN posts' : posts'[i].id = p
          BY <2>5, <4>2
        <5> QED
          BY <1>7, <3>2, <5>1 DEF Accounted, ToCome
      <4>3. CASE res.more /\ j > (page + 1) * PageSize
        <5>1. Ahead(p, (page + 1) * PageSize)'
          BY <1>7, <2>6, <4>1, <4>3 DEF Ahead
        <5> QED
          BY <1>7, <3>2, <4>3, <5>1 DEF Accounted, ToCome
      <4> QED
        BY <1>4, <4>1, <4>2, <4>3
    <3>3. CASE Settled(p) \/ channel < Home[p]
      BY <1>1, <1>7, <3>3 DEF Accounted, Settled
    <3> QED
      BY <1>1, <3>1, <3>2, <3>3 DEF Accounted, ToCome
  <2> QED
    BY <1>1, <1>2, <1>3, <1>7, <2>4, <2>7 DEF IntactInv, FetchInv
<1> QED
  BY <1>5, <1>6, <1>7

\* What deleteAndFilterPost does when nothing is deleted.
LEMMA IntactFilter ==
    ASSUME posts \in Seq(Copies)
    PROVE  /\ Filtering(posts, Text)[Len(posts)].array = posts
           /\ \A i \in 0..Len(posts) :
                  Filtering(posts, Text)[i].ok /\ Filtering(posts, Text)[i].deleted = {}
<1>1. Len(posts) \in 0..Len(posts) /\ DOMAIN posts = 1..Len(posts)
  BY LenProperties
<1>2. \A j \in 1..Len(posts) : ~posts[j].gone
  <2>1. \A j \in 1..Len(posts) : posts[j] \in Copies
    BY <1>1, ElementOfSeq
  <2> QED
    BY <2>1 DEF Copies
<1> QED
  BY <1>1, <1>2, FilteringKeeps

LEMMA IntactStores ==
    ASSUME DataInv, DataInv', ClockInv, IntactInv, intact, StorePage
    PROVE  IntactInv'
<1>1. /\ pc = "store" /\ Fetching
      /\ Stored(Filtering(posts, Text)[Len(posts)])
      /\ posts' = Filtering(posts, Text)[Len(posts)].array
      /\ UNCHANGED <<order, at, gone, last, since, start, intact>>
  BY DEF StorePage, Fetching, server, history
<1>2. /\ gone = {} /\ Complete /\ since \in {0, last} /\ posts \in Seq(Copies)
      /\ \A p \in Due : Accounted(p)
  BY <1>1 DEF IntactInv, FetchInv
<1>3. \A p \in Due : Settled(p) \/ (\E i \in DOMAIN posts : posts[i].id = p)
                         => index'[p] = at[p]
  BY <1>1, <1>2, StoringSettles
<1>4. Complete'
  <2>1. \A p \in Text : at[p] > 0 /\ at[p] <= last /\ Settled(p) => index'[p] = at[p]
    BY <1>1, <1>3, OldIsDue
  <2> QED
    BY <1>1, <1>2, <2>1, CompleteKept
<1>5. posts' \in Seq(Copies)'
  <2>1. posts' = posts
    BY <1>1, <1>2, IntactFilter
  <2>2. Copies' = Copies
    BY <1>1 DEF Copies
  <2> QED
    BY <1>2, <2>1, <2>2
<1>6. CASE more /\ page' = page + 1 /\ pc' = "page" /\ UNCHANGED channel
  <2>1. Listed(channel)' = Listed(channel)
    BY <1>1, <1>6 DEF Listed, Matching
  <2>2. ASSUME NEW p \in Due PROVE Accounted(p)'
    <3>1. Accounted(p)
      BY <1>2
    <3>2. CASE index'[p] = at[p]
      BY <1>1, <3>2 DEF Accounted, Settled
    <3>3. CASE channel < Home[p]
      BY <1>6, <3>3 DEF Accounted
    <3>4. CASE channel = Home[p] /\ Ahead(p, (page + 1) * PageSize)
      <4>1. Ahead(p, page * PageSize)'
        BY <1>6, <2>1, <3>4 DEF Ahead
      <4> QED
        BY <1>6, <3>4, <4>1 DEF Accounted, ToCome
    <3> QED
      BY <1>1, <1>3, <3>1, <3>2, <3>3, <3>4 DEF Accounted, ToCome
  <2>3. Due' = Due
    BY <1>1 DEF Due
  <2> QED
    BY <1>1, <1>2, <1>4, <1>5, <1>6, <2>2, <2>3 DEF IntactInv, FetchInv
<1>7. CASE ~more /\ NextChannel
  <2>1. ASSUME NEW p \in Due PROVE index'[p] = at[p] \/ channel < Home[p]
    <3>1. Accounted(p)
      BY <1>2
    <3> QED
      BY <1>1, <1>3, <1>7, <3>1 DEF Accounted, ToCome
  <2>2. /\ pc' = "done" => channel' = Len(Channels)
        /\ \A p \in Due' : Accounted(p)'
    BY <1>1, <1>4, <1>7, <2>1, IntactAdvances
  <2> QED
    BY <1>1, <1>2, <1>4, <1>5, <2>2 DEF IntactInv, FetchInv
<1> QED
  BY <1>6, <1>7 DEF StorePage

\* A fetch that ends, and whose Put of last_fetched_at goes through.
LEMMA IntactFinishes ==
    ASSUME DataInv, IntactInv, intact, Finish, last' = start
    PROVE  IntactInv'
<1>1. /\ pc = "done" /\ Fetching /\ pc' = "idle" /\ ~Fetching' /\ last' = start
      /\ UNCHANGED <<at, gone, index, intact>>
  BY DEF Finish, Fetching, server, chroma
<1>2. gone = {} /\ channel = Len(Channels) /\ \A p \in Due : Accounted(p)
  BY <1>1 DEF IntactInv, FetchInv
<1>3. \A p \in Due : Settled(p)
  <2>1. \A p \in Due : ~(channel < Home[p])
    BY <1>2, PostsAssumption, ChannelsAssumption DEF Due
  <2> QED
    BY <1>1, <1>2, <2>1 DEF Accounted, ToCome
<1>4. Complete'
  BY <1>1, <1>3 DEF Complete, Due, Settled
<1> QED
  BY <1>1, <1>2, <1>4, IntactLeft

LEMMA IntactInit == Init => IntactInv
  BY PostsAssumption DEF Init, IntactInv, Complete, FetchInv, Fetching

LEMMA IntactStep == DataInv /\ DataInv' /\ ClockInv /\ IntactInv /\ [Next]_vars => IntactInv'
<1> SUFFICES ASSUME DataInv, DataInv', ClockInv, IntactInv, [Next]_vars, intact'
             PROVE  IntactInv'
  BY DEF IntactInv
<1>0. intact /\ gone = {} /\ Complete /\ FetchInv
  BY IntactBefore DEF IntactInv
<1>1. ASSUME UNCHANGED <<at, gone, index, last>>, ~Fetching' PROVE IntactInv'
  BY <1>0, <1>1, CompleteKept, IntactLeft DEF Settled
<1>2. ASSUME NEW p \in Posts, Create(p) \/ Edit(p) PROVE IntactInv'
  BY <1>0, <1>2, IntactWrites
<1>3. ASSUME NEW p \in Posts, Delete(p) PROVE FALSE
  BY <1>3 DEF Delete
<1>4. CASE StartFetch
  BY <1>0, <1>4, IntactStarts
<1>5. CASE ReadPage
  BY <1>0, <1>5, IntactReads
<1>6. CASE ReadFails
  BY <1>1, <1>6, GiveUpLeaves DEF ReadFails, server, chroma
<1>7. CASE StorePage
  BY <1>0, <1>7, IntactStores
<1>8. CASE Interrupted
  <2>1. /\ Fetching /\ Stored(Filtering(posts, Text)[Len(posts)]) /\ GiveUp
        /\ UNCHANGED <<at, gone>>
    BY <1>8 DEF Interrupted, Fetching, server
  <2>2. posts \in Seq(Copies)
    BY <1>0, <2>1 DEF FetchInv
  <2>3. \A p \in Text : at[p] > 0 /\ at[p] <= last /\ Settled(p) => index'[p] = at[p]
    BY <2>1, <2>2, OldIsDue, StoringSettles
  <2>4. Complete' /\ ~Fetching'
    BY <1>0, <2>1, <2>3, CompleteKept, GiveUpLeaves
  <2> QED
    BY <1>0, <2>1, <2>4, IntactLeft
<1>9. CASE StoreFails
  <2>1. /\ Fetching /\ GiveUp /\ UNCHANGED <<at, gone>>
        /\ \E i \in 0..Len(posts) : Removed(Filtering(posts, Text)[i].deleted)
    BY <1>9 DEF StoreFails, Fetching, server
  <2>2. posts \in Seq(Copies)
    BY <1>0, <2>1 DEF FetchInv
  <2>3. index' = Deleted(index, {})
    BY <2>1, <2>2, IntactFilter DEF Removed
  <2>4. \A p \in Text : index'[p] = index[p]
    BY <2>3, PostsAssumption DEF Deleted
  <2>5. Complete' /\ ~Fetching'
    BY <1>0, <2>1, <2>4, CompleteKept, GiveUpLeaves DEF Settled
  <2> QED
    BY <1>0, <2>1, <2>5, IntactLeft
<1>10. CASE StorePanics
  <2>1. Fetching /\ ~Filtering(posts, Text)[Len(posts)].ok
    BY <1>10 DEF StorePanics, Fetching
  <2>2. posts \in Seq(Copies)
    BY <1>0, <2>1 DEF FetchInv
  <2>3. Filtering(posts, Text)[Len(posts)].ok
    <3>1. Len(posts) \in 0..Len(posts)
      BY <2>2, LenProperties
    <3> QED
      BY <2>2, <3>1, IntactFilter
  <2> QED
    BY <2>1, <2>3
<1>11. CASE Finish
  <2>1. CASE last' = start
    BY <1>0, <1>11, <2>1, IntactFinishes
  <2>2. CASE last' = last
    BY <1>1, <1>11, <2>2 DEF Finish, Fetching, server, chroma
  <2> QED
    BY <1>11, <2>1, <2>2 DEF Finish
<1>12. CASE Crash \/ Restart
  BY <1>1, <1>12 DEF Crash, Restart, Fetching, server, chroma, store
<1>13. CASE ResetVectorStore
  BY <1>13 DEF ResetVectorStore
<1>14. CASE TimePasses \/ UNCHANGED vars
  <2>1. UNCHANGED <<server, chroma, store, pc, local, history>>
    BY <1>14 DEF TimePasses, vars
  <2>2. Listed(channel)' = Listed(channel) /\ Due' = Due /\ Copies' = Copies
    BY <2>1 DEF Listed, Matching, Due, Copies, server, local
  <2>3. \A p : Accounted(p)' = Accounted(p)
    BY <2>1, <2>2 DEF Accounted, Settled, ToCome, Ahead, server, chroma, local
  <2>4. FetchInv'
    BY <1>0, <2>1, <2>2, <2>3 DEF FetchInv, Fetching, store, local
  <2>5. Complete'
    BY <1>0, <2>1 DEF Complete, server, chroma, store
  <2> QED
    BY <1>0, <2>1, <2>4, <2>5 DEF IntactInv, server
<1> QED
  BY <1>2, <1>3, <1>4, <1>5, <1>6, <1>7, <1>8, <1>9, <1>10, <1>11, <1>12, <1>13,
     <1>14 DEF Next

\* No text is lost: what was written up to last_fetched_at is in the index as it
\* was last written, whatever fetches failed, were interrupted or died on the way
\* and whatever was written while pages were read, as long as nothing is deleted
\* and the index is not reset.
THEOREM NothingLost == Spec => []Complete
<1>1. IntactInv => Complete
  BY DEF IntactInv, Complete
<1> QED
  BY <1>1, DataInit, DataStep, ClockInit, ClockStep, IntactInit, IntactStep, PTL DEF Spec

-----------------------------------------------------------------------------
\* What deletions, and the slice that moves under deleteAndFilterPost's loop,
\* never do

\* Copies of what was written, marked deleted only if it is.
Known == {r \in PostRecords : r.at <= at[r.id] /\ (r.gone => r.id \in gone)}

\* Chroma holds texts only, and none before it is written.
OnlyTexts == \A p \in Posts : index[p] # 0 => p \in Text /\ index[p] <= at[p]

KnownInv == posts \in Seq(Known) /\ OnlyTexts

LEMMA KnownInit == Init => KnownInv
<1>1. <<>> \in Seq(Known)
  BY EmptySeq
<1> QED
  BY <1>1 DEF Init, KnownInv, OnlyTexts

\* What a server's step does to posts.
LEMMA ServerWrites ==
    ASSUME TypeOK, NEW p \in Posts, Create(p) \/ Edit(p) \/ Delete(p)
    PROVE  (\A q \in Posts : at[q] <= at'[q]) /\ gone \subseteq gone'
           /\ UNCHANGED <<index, pc, posts, handle>>
<1>1. /\ at \in [Posts -> 0..MaxTime] /\ MaxTime \in Nat /\ now \in 1..MaxTime
      /\ at' = [at EXCEPT ![p] = now] /\ at[p] < now
  BY PagesAssumption DEF TypeOK, Create, Edit, Delete
<1>2. \A q \in Posts : at[q] <= at'[q]
  BY <1>1
<1>3. gone \subseteq gone' /\ UNCHANGED <<index, pc, posts, handle>>
  BY DEF Create, Edit, Delete, chroma, local
<1> QED
  BY <1>2, <1>3

LEMMA KnownGrows ==
    ASSUME TypeOK, NEW s \in Seq(Known), \A q \in Posts : at[q] <= at'[q],
           at' \in [Posts -> 0..MaxTime], gone \subseteq gone'
    PROVE  s \in Seq(Known)'
<1>1. ASSUME NEW r \in Known PROVE r \in Known'
  <2>1. r \in PostRecords /\ r.id \in Posts /\ r.at \in Nat /\ at[r.id] \in Nat
        /\ at'[r.id] \in Nat
    BY PagesAssumption DEF Known, PostRecords, TypeOK
  <2>2. r.at <= at'[r.id] /\ (r.gone => r.id \in gone')
    BY <2>1 DEF Known
  <2> QED
    BY <2>1, <2>2 DEF Known, PostRecords
<1> QED
  BY <1>1

\* Steps that leave the posts alone, and store nothing.
LEMMA KnownKept ==
    ASSUME KnownInv, UNCHANGED <<at, gone>>, posts' \in Seq(Known),
           \A p \in Posts : index'[p] = index[p] \/ index'[p] = 0
    PROVE  KnownInv'
<1>1. Known' = Known
  BY DEF Known
<1> QED
  BY <1>1 DEF KnownInv, OnlyTexts

LEMMA KnownForgets ==
    ASSUME KnownInv, UNCHANGED <<at, gone>>, Forget,
           \A p \in Posts : index'[p] = index[p] \/ index'[p] = 0
    PROVE  KnownInv'
<1>1. posts' \in Seq(Known)
  BY EmptySeq DEF Forget, Fresh
<1> QED
  BY <1>1, KnownKept

\* A deletion may leave posts of the list out, but puts none in.
LEMMA StoresKnown ==
    ASSUME TypeOK, posts \in Seq(Known), OnlyTexts,
           Stored(Filtering(posts, Text)[Len(posts)]), NEW p \in Posts
    PROVE  /\ index'[p] # 0 => p \in Text /\ index'[p] <= at[p]
           /\ index[p] # 0 /\ index'[p] = 0 => p \in gone
<1> DEFINE res == Filtering(posts, Text)[Len(posts)]
<1>1. res.kept \in Seq(Storable(Known, Text)) /\ res.deleted \subseteq Deletable(Known)
  <2>1. Len(posts) \in 0..Len(posts)
    BY LenProperties
  <2> QED
    BY <2>1, FilterGives
<1> HIDE DEF res
<1>2. \A k \in DOMAIN res.kept : res.kept[k] \in Storable(Known, Text)
  BY <1>1, ElementOfSeq, LenProperties
<1>3. res.kept \in Seq(PostRecords)
  <2>1. Storable(Known, Text) \subseteq PostRecords
    BY DEF Storable, Known
  <2> QED
    BY <1>1, <2>1
<1>4. index' = Upserted(Deleted(index, res.deleted), res.kept)
  BY DEF Stored, res
<1>5. CASE \E k \in DOMAIN res.kept : res.kept[k].id = p /\ index'[p] = res.kept[k].at
  <2>1. PICK k \in DOMAIN res.kept : res.kept[k].id = p /\ index'[p] = res.kept[k].at
    BY <1>5
  <2>2. res.kept[k] \in Known /\ p \in Text
    BY <1>2, <2>1 DEF Storable
  <2>3. index'[p] <= at[p] /\ index'[p] \in 1..MaxTime
    BY <2>1, <2>2 DEF Known, PostRecords
  <2>4. index'[p] # 0
    BY <2>3, PagesAssumption
  <2> QED
    BY <2>2, <2>3, <2>4
<1>6. CASE index'[p] = Deleted(index, res.deleted)[p]
  <2>1. index'[p] = IF p \in res.deleted THEN 0 ELSE index[p]
    BY <1>6 DEF Deleted
  <2>2. p \in res.deleted => p \in gone
    BY <1>1 DEF Deletable, Known
  <2> QED
    BY <2>1, <2>2 DEF OnlyTexts
<1> QED
  BY <1>3, <1>4, <1>5, <1>6, UpsertedIs

LEMMA KnownStep == DataInv /\ KnownInv /\ DataInv' /\ [Next]_vars => KnownInv'
<1> SUFFICES ASSUME DataInv, KnownInv, DataInv', [Next]_vars PROVE KnownInv'
  OBVIOUS
<1>0. TypeOK /\ posts \in Seq(Known) /\ OnlyTexts
  BY DEF DataInv, KnownInv
<1>1. ASSUME NEW p \in Posts, Create(p) \/ Edit(p) \/ Delete(p) PROVE KnownInv'
  <2>1. (\A q \in Posts : at[q] <= at'[q]) /\ gone \subseteq gone' /\ index' = index
        /\ posts' = posts
    BY <1>0, <1>1, ServerWrites
  <2>2. /\ at \in [Posts -> 0..MaxTime] /\ at' \in [Posts -> 0..MaxTime]
        /\ index \in [Posts -> 0..MaxTime] /\ MaxTime \in Nat
    BY PagesAssumption DEF DataInv, TypeOK
  <2>3. posts' \in Seq(Known)'
    BY <1>0, <2>1, <2>2, KnownGrows
  <2>4. OnlyTexts'
    BY <1>0, <2>1, <2>2 DEF OnlyTexts
  <2> QED
    BY <2>3, <2>4 DEF KnownInv
<1>2. CASE StartFetch
  <2>1. posts' \in Seq(Known)
    BY <1>2, EmptySeq DEF StartFetch, Fresh
  <2> QED
    BY <1>0, <1>2, <2>1, KnownKept DEF StartFetch, server, chroma
<1>3. CASE ReadPage
  <2> DEFINE res == PageOf(channel)
  <2>1. /\ res.posts \in Seq(PostRecords)
        /\ \A i \in DOMAIN res.posts :
               /\ res.posts[i].at = at[res.posts[i].id]
               /\ res.posts[i].gone = (res.posts[i].id \in gone)
    BY PageReads
  <2>2. posts' = posts \/ posts' = posts \o res.posts
    BY <1>3 DEF ReadPage
  <2> HIDE DEF res
  <2>3. \A i \in DOMAIN res.posts : res.posts[i] \in PostRecords
    BY <2>1, ElementOfSeq, LenProperties
  <2>4. \A i \in DOMAIN res.posts : res.posts[i] \in Known
    BY <2>1, <2>3, PagesAssumption DEF Known, PostRecords
  <2>5. res.posts \in Seq(Known)
    BY <2>1, <2>4
  <2>6. posts' \in Seq(Known)
    BY <1>0, <2>2, <2>5, ConcatProperties
  <2> QED
    BY <1>3, <2>6, KnownKept DEF ReadPage, server, chroma
<1>4. CASE ReadFails
  BY <1>4, KnownForgets, GiveUpLeaves DEF ReadFails, server, chroma
<1>5. CASE StorePage
  <2>1. /\ Stored(Filtering(posts, Text)[Len(posts)]) /\ UNCHANGED <<at, gone>>
        /\ posts' = Filtering(posts, Text)[Len(posts)].array
    BY <1>5 DEF StorePage, server
  <2>2. posts' \in Seq(Known)
    BY <1>0, <2>1, FilterGives
  <2>3. OnlyTexts'
    BY <1>0, <2>1, StoresKnown DEF OnlyTexts
  <2>4. Known' = Known
    BY <2>1 DEF Known
  <2> QED
    BY <2>2, <2>3, <2>4 DEF KnownInv
<1>6. CASE Interrupted
  <2>1. Stored(Filtering(posts, Text)[Len(posts)]) /\ UNCHANGED <<at, gone>> /\ Forget
    BY <1>6, GiveUpLeaves DEF Interrupted, server
  <2>2. OnlyTexts'
    BY <1>0, <2>1, StoresKnown DEF OnlyTexts
  <2>3. posts' \in Seq(Known)'
    BY <2>1, EmptySeq DEF Forget, Fresh
  <2> QED
    BY <2>2, <2>3 DEF KnownInv
<1>7. CASE StoreFails \/ StorePanics
  <2>1. UNCHANGED <<at, gone>> /\ Forget /\ \E ids : index' = Deleted(index, ids)
    BY <1>7, GiveUpLeaves DEF StoreFails, StorePanics, Removed, server
  <2>2. \A p \in Posts : index'[p] = index[p] \/ index'[p] = 0
    BY <2>1 DEF Deleted
  <2> QED
    BY <2>1, <2>2, KnownForgets
<1>8. CASE Finish \/ Crash
  BY <1>8, KnownForgets DEF Finish, Crash, server, chroma
<1>9. CASE TimePasses \/ Restart \/ UNCHANGED vars
  BY <1>0, <1>9, KnownKept DEF TimePasses, Restart, vars, server, chroma, local
<1>10. CASE ResetVectorStore
  BY <1>0, <1>10, KnownKept DEF ResetVectorStore, server, local
<1> QED
  BY <1>1, <1>2, <1>3, <1>4, <1>5, <1>6, <1>7, <1>8, <1>9, <1>10 DEF Next

THEOREM KnownInvariant == Spec => [](DataInv /\ KnownInv)
  BY DataInit, DataStep, KnownInit, KnownStep, PTL DEF Spec

\* Chroma never holds a system message or an empty post (the filter of
\* deleteAndFilterPost), whatever its deletions do to the list it goes through.
THEOREM OnlyTextsIndexed == Spec => []OnlyTexts
<1>1. KnownInv => OnlyTexts
  BY DEF KnownInv
<1> QED
  BY <1>1, KnownInvariant, PTL

\* A post leaves chroma only if it was deleted, or the vector store is reset:
\* deleteAndFilterPost deletes no post by mistake, for all that it skips some.
THEOREM DeletesOnlyDeleted ==
    Spec => [][ResetVectorStore
               \/ \A p \in Posts : index[p] # 0 /\ index'[p] = 0 => p \in gone]_vars
<1> DEFINE Left == \A p \in Posts : index[p] # 0 /\ index'[p] = 0 => p \in gone
<1>1. DataInv /\ KnownInv /\ [Next]_vars => [ResetVectorStore \/ Left]_vars
  <2> SUFFICES ASSUME DataInv, KnownInv, Next, ~ResetVectorStore PROVE Left
    OBVIOUS
  <2>0. TypeOK /\ posts \in Seq(Known) /\ OnlyTexts
    BY DEF DataInv, KnownInv
  <2>1. ASSUME index' = index PROVE Left
    BY <2>1
  <2>2. ASSUME NEW p \in Posts, Create(p) \/ Edit(p) \/ Delete(p) PROVE Left
    BY <2>0, <2>1, <2>2, ServerWrites
  <2>3. CASE StorePage \/ Interrupted
    <3>1. Stored(Filtering(posts, Text)[Len(posts)])
      BY <2>3 DEF StorePage, Interrupted
    <3> QED
      BY <2>0, <3>1, StoresKnown
  <2>4. CASE StoreFails \/ StorePanics
    <3>1. \E i \in 0..Len(posts) : index' = Deleted(index, Filtering(posts, Text)[i].deleted)
      <4>1. Len(posts) \in 0..Len(posts)
        BY <2>0, LenProperties
      <4> QED
        BY <2>4, <4>1 DEF StoreFails, StorePanics, Removed
    <3>2. PICK i \in 0..Len(posts) :
              index' = Deleted(index, Filtering(posts, Text)[i].deleted)
      BY <3>1
    <3>3. Filtering(posts, Text)[i].deleted \subseteq Deletable(Known)
      BY <2>0, FilterGives
    <3> QED
      BY <3>2, <3>3 DEF Deleted, Deletable, Known
  <2>5. CASE StartFetch \/ ReadPage \/ ReadFails \/ Finish \/ Crash \/ Restart \/ TimePasses
    BY <2>1, <2>5 DEF StartFetch, ReadPage, ReadFails, Finish, Crash, Restart, TimePasses,
       chroma
  <2> QED
    BY <2>2, <2>3, <2>4, <2>5 DEF Next
<1> QED
  BY <1>1, KnownInvariant, PTL DEF Spec

\* The slice bound of removePost that ends the plugin (syncPosts.go:731) is out
\* of range only over deleted posts: while users only write, no fetch panics.
THEOREM PanicsOnlyOverDeleted == Spec => [][StorePanics => gone # {}]_vars
<1>1. KnownInv => (StorePanics => gone # {})
  <2> SUFFICES ASSUME KnownInv, StorePanics, gone = {} PROVE FALSE
    OBVIOUS
  <2>1. posts \in Seq(Known) /\ ~Filtering(posts, Text)[Len(posts)].ok
    BY DEF KnownInv, StorePanics
  <2>2. Len(posts) \in 0..Len(posts) /\ \A j \in 1..Len(posts) : posts[j] \in Known
    BY <2>1, LenProperties, ElementOfSeq
  <2>3. \A j \in 1..Len(posts) : ~posts[j].gone
    BY <2>2 DEF Known
  <2> QED
    BY <2>1, <2>2, <2>3, FilteringKeeps
<1> QED
  BY <1>1, KnownInvariant, PTL DEF Spec
=============================================================================
