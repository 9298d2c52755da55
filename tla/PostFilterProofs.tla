-------------------------- MODULE PostFilterProofs --------------------------
(***************************************************************************)
(* Proofs about PostFilter, for any list of posts: what a recursion over   *)
(* an array yields, and what deleteAndFilterPost leaves and keeps, with no *)
(* post deleted, one, or any number.  The library's induction theorems     *)
(* take a predicate as a parameter; here a set stands for it, and the      *)
(* least-number principle is the library's theorem on well-founded         *)
(* relations.                                                              *)
(***************************************************************************)
EXTENDS PostFilter, SequenceTheorems, WellFoundedInduction, TLAPS

-----------------------------------------------------------------------------
\* Induction and recursion up to a number

LEMMA Least ==
    ASSUME NEW T, T \subseteq Nat, T # {}
    PROVE  \E x \in T : \A y \in T : x <= y
<1>1. \E x \in T : \A y \in T : <<y, x>> \notin OpToRel(<, Nat)
  BY NatLessThanWellFounded, WFMin, Zenon
<1>2. ASSUME NEW x \in Nat, NEW y \in Nat, <<y, x>> \notin OpToRel(<, Nat)
      PROVE  x <= y
  <2>1. ~ y < x
    BY <1>2, Zenon DEF OpToRel
  <2> QED
    BY <2>1
<1> QED
  BY <1>1, <1>2

LEMMA Greatest ==
    ASSUME NEW n \in Nat, NEW T, T \subseteq 0..n, T # {}
    PROVE  \E x \in T : \A y \in T : y <= x
<1> DEFINE D == {n - x : x \in T}
<1>0. \A x \in T : n - x \in Nat
  OBVIOUS
<1>1. D \subseteq Nat /\ D # {}
  BY <1>0
<1>2. PICK d \in D : \A y \in D : d <= y
  BY <1>1, Least
<1>3. PICK x \in T : d = n - x
  BY <1>2
<1>4. \A y \in T : n - x <= n - y
  BY <1>2, <1>3
<1> QED
  BY <1>4

LEMMA UpTo ==
    ASSUME NEW n \in Nat, NEW T, 0 \in T, \A i \in 1..n : i - 1 \in T => i \in T
    PROVE  \A i \in 0..n : i \in T
<1> DEFINE D == {i \in 0..n : i \notin T}
<1> SUFFICES ASSUME D # {} PROVE FALSE
  OBVIOUS
<1>0. D \subseteq Nat
  OBVIOUS
<1>1. PICK d \in D : \A y \in D : d <= y
  <2> HIDE DEF D
  <2> QED
    BY <1>0, Least
<1>2. d \in 1..n /\ d - 1 \in 0..n
  OBVIOUS
<1>3. d - 1 \in T
  BY <1>1, <1>2
<1> QED
  BY <1>2, <1>3

\* The states of a recursion: step takes the i-th and one of S to the next.
Maps(step, n, S) == \A i \in 1..n, s \in S : step[<<i, s>>] \in S
Runs(f, n, base, step) == f[0] = base /\ \A i \in 1..n : f[i] = step[<<i, f[i - 1]>>]

\* A recursion over 1..n with states in S has a solution ...
LEMMA Recursion ==
    ASSUME NEW n \in Nat, NEW S, NEW base \in S, NEW step, Maps(step, n, S)
    PROVE  \E f \in [0..n -> S] : Runs(f, n, base, step)
<1> USE DEF Maps, Runs
<1> DEFINE Solves(f, k) == f \in [0..k -> S] /\ Runs(f, k, base, step)
           T == {k \in Nat : \E f : Solves(f, k)}
<1>1. 0 \in T
  <2>1. Solves([i \in 0..0 |-> base], 0)
    OBVIOUS
  <2> QED
    BY <2>1
<1>2. ASSUME NEW k \in 1..n, k - 1 \in T PROVE k \in T
  <2>1. PICK f : Solves(f, k - 1)
    BY <1>2
  <2> DEFINE g == [i \in 0..k |-> IF i = k THEN step[<<k, f[k - 1]>>] ELSE f[i]]
  <2>2. \A i \in 0..(k - 1) : g[i] = f[i] /\ f[i] \in S
    BY <2>1
  <2>3. g[k] = step[<<k, f[k - 1]>>] /\ g[k] \in S
    BY <2>1, <2>2
  <2>4. g \in [0..k -> S]
    <3>1. \A i \in 0..k : i = k \/ i \in 0..(k - 1)
      OBVIOUS
    <3>2. \A i \in 0..k : g[i] \in S
      BY <2>2, <2>3, <3>1
    <3> QED
      BY <3>2
  <2>5. ASSUME NEW i \in 1..k PROVE g[i] = step[<<i, g[i - 1]>>]
    BY <2>1, <2>2, <2>3
  <2>6. g[0] = base
    BY <2>1, <2>2
  <2>7. Solves(g, k) /\ k \in Nat
    <3> HIDE DEF g
    <3> QED
      BY <2>4, <2>5, <2>6
  <2> QED
    BY <2>7
<1>3. n \in T
  <2> HIDE DEF T
  <2>1. \A i \in 0..n : i \in T
    BY <1>1, <1>2, UpTo
  <2> QED
    BY <2>1
<1>4. PICK f : Solves(f, n)
  BY <1>3
<1> QED
  BY <1>4

\* ... and what holds at first and is kept holds throughout.
LEMMA Throughout ==
    ASSUME NEW n \in Nat, NEW S, NEW f, f[0] \in S,
           \A i \in 1..n : f[i - 1] \in S => f[i] \in S
    PROVE  \A i \in 0..n : f[i] \in S
<1> DEFINE T == {i \in 0..n : f[i] \in S}
<1>1. 0 \in T
  OBVIOUS
<1>2. ASSUME NEW i \in 1..n, i - 1 \in T PROVE i \in T
  BY <1>2
<1>3. \A i \in 0..n : i \in T
  <2> HIDE DEF T
  <2> QED
    BY <1>1, <1>2, UpTo
<1> QED
  BY <1>3

-----------------------------------------------------------------------------
\* removePost

\* The arrays of n posts of R, as functions and as sequences.
LEMMA ArrayIs ==
    ASSUME NEW R, NEW n \in Nat, NEW a
    PROVE  a \in [1..n -> R] <=> a \in Seq(R) /\ Len(a) = n
  OBVIOUS

LEMMA ShiftType ==
    ASSUME NEW R, NEW n \in Nat, NEW a \in [1..n -> R], NEW i \in 1..n, NEW len \in 0..n
    PROVE  ShiftDown(a, i, len) \in [1..n -> R]
  BY DEF ShiftDown

\* A round of removePost's loop, and the states it goes through.
RemoveStep(s, i, id) ==
    IF ~s.ok \/ s.array[i].id # id THEN s
    ELSE IF i > s.len THEN [s EXCEPT !.ok = FALSE]
    ELSE [s EXCEPT !.array = ShiftDown(s.array, i, s.len), !.len = @ - 1]

RemoveStates(R, n) == [array : [1..n -> R], len : 0..n, ok : BOOLEAN]

\* They are those of a recursion that ends with what removePost leaves.
Removes(R, posts, id, after) ==
    /\ \A i \in 0..Len(posts) : after[i] \in RemoveStates(R, Len(posts))
    /\ after[0] = [array |-> posts, len |-> Len(posts), ok |-> TRUE]
    /\ \A i \in 1..Len(posts) : after[i] = RemoveStep(after[i - 1], i, id)
    /\ RemovePost(posts, id) = after[Len(posts)]

LEMMA RemoveRuns ==
    ASSUME NEW R, NEW posts \in Seq(R), NEW id
    PROVE  \E after : Removes(R, posts, id, after)
<1> DEFINE n == Len(posts)
           S == RemoveStates(R, n)
           base == [array |-> posts, len |-> n, ok |-> TRUE]
           Round(i, s) == RemoveStep(s, i, id)
           step == [x \in (1..n) \X S |-> Round(x[1], x[2])]
<1>1. n \in Nat /\ base \in S
  BY ArrayIs DEF RemoveStates
<1>2. ASSUME NEW i \in 1..n, NEW s \in S PROVE Round(i, s) \in S
  <2> USE DEF RemoveStates, RemoveStep
  <2>1. s.array \in [1..n -> R] /\ s.len \in 0..n /\ s.ok \in BOOLEAN
    OBVIOUS
  <2> HIDE DEF n
  <2>2. ShiftDown(s.array, i, s.len) \in [1..n -> R]
    BY <1>1, <2>1, ShiftType
  <2>3. CASE i <= s.len
    <3>1. s.len - 1 \in 0..n
      BY <1>1, <2>1, <2>3
    <3>2. [s EXCEPT !.array = ShiftDown(s.array, i, s.len), !.len = @ - 1] \in S
      BY <2>2, <3>1
    <3> QED
      BY <2>1, <2>3, <3>2
  <2>4. CASE i > s.len
    BY <2>1, <2>4
  <2> QED
    BY <1>1, <2>1, <2>3, <2>4
<1>3. \A i \in 1..n, s \in S : step[<<i, s>>] = Round(i, s) /\ step[<<i, s>>] \in S
  BY <1>2
<1> DEFINE Solves(f) == f = [i \in 0..n |-> IF i = 0 THEN base ELSE Round(i, f[i - 1])]
           after == CHOOSE f : Solves(f)
<1>4. RemovePost(posts, id) = after[n]
  BY DEF RemovePost, RemoveStep
<1> HIDE DEF S, base, Round, step
<1>5. \E f : Solves(f)
  <2>1. PICK f \in [0..n -> S] : Runs(f, n, base, step)
    <3>1. Maps(step, n, S)
      BY <1>3 DEF Maps
    <3> HIDE DEF n
    <3> QED
      BY <1>1, <3>1, Recursion
  <2>2. \A i \in 1..n : f[i - 1] \in S
    BY <1>1
  <2>3. \A i \in 0..n : f[i] = IF i = 0 THEN base ELSE Round(i, f[i - 1])
    <3>1. \A i \in 1..n : f[i] = Round(i, f[i - 1])
      BY <1>3, <2>1, <2>2 DEF Runs
    <3> HIDE DEF n
    <3> QED
      BY <1>1, <2>1, <3>1 DEF Runs
  <2>4. Solves(f)
    BY <2>3
  <2> QED
    BY <2>4
<1>6. Solves(after)
  BY <1>5
<1>7. after[0] = base /\ \A i \in 1..n : after[i] = Round(i, after[i - 1])
  <2> HIDE DEF after
  <2>1. \A i \in 0..n : after[i] = IF i = 0 THEN base ELSE Round(i, after[i - 1])
    BY <1>6
  <2> QED
    BY <1>1, <2>1
<1>8. \A i \in 0..n : after[i] \in S
  <2> HIDE DEF after
  <2> QED
    BY <1>1, <1>2, <1>7, Throughout
<1> HIDE DEF after
<1>9. Removes(R, posts, id, after)
  BY <1>4, <1>7, <1>8 DEF Removes, S, base, Round
<1> QED
  BY <1>9

\* removePost changes the order and the number of copies of the posts in the
\* array, and nothing else: it invents no post and has one at each place.
LEMMA RemoveType ==
    ASSUME NEW R, NEW posts \in Seq(R), NEW id
    PROVE  /\ RemovePost(posts, id).array \in Seq(R)
           /\ Len(RemovePost(posts, id).array) = Len(posts)
           /\ RemovePost(posts, id).ok \in BOOLEAN
<1>1. PICK after : Removes(R, posts, id, after)
  BY RemoveRuns
<1>2. Len(posts) \in Nat /\ Len(posts) \in 0..Len(posts)
  OBVIOUS
<1>3. RemovePost(posts, id) \in RemoveStates(R, Len(posts))
  BY <1>1, <1>2 DEF Removes
<1> QED
  BY <1>2, <1>3, ArrayIs DEF RemoveStates

\* A post that is in the list once: those behind it move up, and the last
\* place keeps what it had.
LEMMA RemoveOne ==
    ASSUME NEW R, NEW posts \in Seq(R), NEW d \in 1..Len(posts),
           \A j \in 1..Len(posts) : j # d => posts[j].id # posts[d].id
    PROVE  /\ RemovePost(posts, posts[d].id).ok
           /\ RemovePost(posts, posts[d].id).array = ShiftDown(posts, d, Len(posts))
<1> DEFINE n == Len(posts)
           id == posts[d].id
           moved == ShiftDown(posts, d, n)
           Good(s, i) == IF i < d THEN s.array = posts /\ s.len = n
                         ELSE s.array = moved
<1>1. PICK after : Removes(R, posts, id, after)
  BY RemoveRuns
<1>2. n \in Nat /\ posts \in [1..n -> R]
  BY ArrayIs
<1>3. /\ after[0] = [array |-> posts, len |-> n, ok |-> TRUE]
      /\ \A i \in 1..n : after[i] = RemoveStep(after[i - 1], i, id)
      /\ \A i \in 0..n : after[i] \in RemoveStates(R, n)
      /\ RemovePost(posts, id) = after[n]
  BY <1>1 DEF Removes
<1>4. \A j \in 1..n : moved[j] = IF d <= j /\ j < n THEN posts[j + 1] ELSE posts[j]
  BY <1>2 DEF ShiftDown
<1>5. \A j \in 1..n : j > d => moved[j].id # id
  <2>1. ASSUME NEW j \in 1..n, j > d PROVE moved[j].id # id
    <3>1. CASE j < n
      <4>1. j + 1 \in 1..n /\ j + 1 # d /\ moved[j] = posts[j + 1]
        BY <1>2, <1>4, <2>1, <3>1
      <4> QED
        BY <4>1
    <3>2. CASE j = n
      BY <1>2, <1>4, <2>1, <3>2
    <3>3. j < n \/ j = n
      <4> HIDE DEF n
      <4> QED
        BY <1>2
    <3> HIDE DEF moved, id
    <3> QED
      BY <3>1, <3>2, <3>3
  <2> QED
    BY <2>1
<1> HIDE DEF moved, id
<1> DEFINE T == {i \in 0..n : after[i].ok /\ Good(after[i], i)}
<1>6. 0 \in T
  BY <1>2, <1>3
<1>7. ASSUME NEW i \in 1..n, i - 1 \in T PROVE i \in T
  <2> DEFINE s == after[i - 1]
  <2>1. /\ s.ok /\ Good(s, i - 1) /\ s \in RemoveStates(R, n) /\ i - 1 \in 0..n
        /\ after[i] = RemoveStep(s, i, id)
    BY <1>2, <1>3, <1>7
  <2>2. CASE i < d
    <3>1. posts[i].id # id /\ s.array = posts /\ s.len = n
      BY <1>2, <2>1, <2>2 DEF id
    <3>2. after[i] = s
      BY <2>1, <3>1 DEF RemoveStep
    <3> QED
      BY <2>1, <2>2, <3>1, <3>2
  <2>3. CASE i = d
    <3>1. s.array = posts /\ s.len = n /\ posts[i].id = id
      BY <2>1, <2>3 DEF id
    <3>2. after[i] = [s EXCEPT !.array = moved, !.len = @ - 1]
      BY <1>2, <2>1, <2>3, <3>1 DEF RemoveStep, moved
    <3>3. after[i].ok /\ after[i].array = moved
      BY <2>1, <3>2 DEF RemoveStates
    <3> QED
      BY <2>3, <3>3
  <2>4. CASE i > d
    <3>1. s.array = moved
      BY <2>1, <2>4
    <3>2. after[i] = s
      BY <1>5, <2>1, <2>4, <3>1 DEF RemoveStep
    <3> QED
      BY <2>1, <2>4, <3>1, <3>2
  <2> QED
    BY <2>2, <2>3, <2>4
<1>8. \A i \in 0..n : i \in T
  <2> HIDE DEF T
  <2> QED
    BY <1>2, <1>6, <1>7, UpTo
<1>9. after[n].ok /\ after[n].array = moved
  BY <1>2, <1>8
<1> QED
  BY <1>3, <1>9 DEF moved, id

-----------------------------------------------------------------------------
\* deleteAndFilterPost

\* The posts of R to be stored, and the ids of those to be deleted.
Storable(R, text) == {r \in R : ~r.gone /\ r.id \in text}
Deletable(R) == {r.id : r \in {x \in R : x.gone}}

FilterStates(R, n, text) == [array : [1..n -> R], kept : Seq(Storable(R, text)),
                             deleted : SUBSET Deletable(R), ok : BOOLEAN]

LEMMA FilterStepType ==
    ASSUME NEW R, NEW n \in Nat, NEW text, NEW s \in FilterStates(R, n, text),
           NEW i \in 1..n
    PROVE  FilterStep(s, i, text) \in FilterStates(R, n, text)
<1> DEFINE post == s.array[i]
           rest == RemovePost(s.array, post.id)
<1>1. /\ s.array \in [1..n -> R] /\ s.kept \in Seq(Storable(R, text)) /\ s.ok \in BOOLEAN
      /\ s.deleted \in SUBSET Deletable(R)
  BY DEF FilterStates
<1>2. post \in R
  BY <1>1
<1>3. rest.array \in [1..n -> R] /\ rest.ok \in BOOLEAN
  <2>1. s.array \in Seq(R) /\ Len(s.array) = n
    BY <1>1, ArrayIs
  <2>2. rest.array \in Seq(R) /\ Len(rest.array) = n /\ rest.ok \in BOOLEAN
    BY <2>1, RemoveType
  <2> QED
    BY <2>2, ArrayIs
<1> DEFINE del == [s EXCEPT !.array = rest.array, !.ok = rest.ok,
                            !.deleted = @ \cup {post.id}]
           keep == [s EXCEPT !.kept = Append(@, post)]
<1>4. \/ FilterStep(s, i, text) = s
      \/ post.gone /\ FilterStep(s, i, text) = del
      \/ ~post.gone /\ post.id \in text /\ FilterStep(s, i, text) = keep
  BY DEF FilterStep
<1> HIDE DEF post, rest
<1>5. ASSUME post.gone PROVE del \in FilterStates(R, n, text)
  <2>1. s.deleted \cup {post.id} \in SUBSET Deletable(R)
    BY <1>1, <1>2, <1>5 DEF Deletable
  <2> QED
    BY <1>1, <1>3, <2>1 DEF FilterStates
<1>6. ASSUME ~post.gone, post.id \in text PROVE keep \in FilterStates(R, n, text)
  <2>1. post \in Storable(R, text)
    BY <1>2, <1>6 DEF Storable
  <2>2. Append(s.kept, post) \in Seq(Storable(R, text))
    BY <1>1, <2>1
  <2> QED
    BY <1>1, <2>2 DEF FilterStates
<1> QED
  BY <1>4, <1>5, <1>6

\* What deleteAndFilterPost does, round by round: however its deletions move
\* the array under the loop, the array and what is kept hold posts it was given.
LEMMA FilteringRuns ==
    ASSUME NEW R, NEW posts \in Seq(R), NEW text
    PROVE  /\ \A i \in 0..Len(posts) : Filtering(posts, text)[i] \in FilterStates(R, Len(posts), text)
           /\ Filtering(posts, text)[0] =
                  [array |-> posts, kept |-> <<>>, deleted |-> {}, ok |-> TRUE]
           /\ \A i \in 1..Len(posts) :
                  Filtering(posts, text)[i] = FilterStep(Filtering(posts, text)[i - 1], i, text)
<1> DEFINE n == Len(posts)
           S == FilterStates(R, n, text)
           base == [array |-> posts, kept |-> <<>>, deleted |-> {}, ok |-> TRUE]
           Round(i, s) == FilterStep(s, i, text)
           step == [x \in (1..n) \X S |-> Round(x[1], x[2])]
<1>1. n \in Nat /\ base \in S
  <2>1. posts \in [1..n -> R]
    BY ArrayIs
  <2> QED
    BY <2>1 DEF FilterStates
<1>2. \A i \in 1..n, s \in S : Round(i, s) \in S
  BY <1>1, FilterStepType
<1>3. \A i \in 1..n, s \in S : step[<<i, s>>] = Round(i, s) /\ step[<<i, s>>] \in S
  <2> HIDE DEF S, Round
  <2> QED
    BY <1>2
<1> DEFINE Solves(f) == f = [i \in 0..n |-> IF i = 0 THEN base ELSE Round(i, f[i - 1])]
           after == CHOOSE f : Solves(f)
<1>4. Filtering(posts, text) = after
  BY DEF Filtering
<1> HIDE DEF S, base, Round, step
<1>5. \E f : Solves(f)
  <2>1. PICK f \in [0..n -> S] : Runs(f, n, base, step)
    <3>1. Maps(step, n, S)
      BY <1>3 DEF Maps
    <3> HIDE DEF n
    <3> QED
      BY <1>1, <3>1, Recursion
  <2>2. \A i \in 1..n : f[i - 1] \in S
    BY <1>1
  <2>3. \A i \in 0..n : f[i] = IF i = 0 THEN base ELSE Round(i, f[i - 1])
    <3>1. \A i \in 1..n : f[i] = Round(i, f[i - 1])
      BY <1>3, <2>1, <2>2 DEF Runs
    <3> HIDE DEF n
    <3> QED
      BY <1>1, <2>1, <3>1 DEF Runs
  <2>4. Solves(f)
    BY <2>3
  <2> QED
    BY <2>4
<1>6. Solves(after)
  BY <1>5
<1>7. after[0] = base /\ \A i \in 1..n : after[i] = Round(i, after[i - 1])
  <2> HIDE DEF after
  <2>1. \A i \in 0..n : after[i] = IF i = 0 THEN base ELSE Round(i, after[i - 1])
    BY <1>6
  <2> QED
    BY <1>1, <2>1
<1>8. \A i \in 0..n : after[i] \in S
  <2> HIDE DEF after
  <2> QED
    BY <1>1, <1>2, <1>7, Throughout
<1> HIDE DEF after
<1> QED
  BY <1>4, <1>7, <1>8 DEF S, base, Round

\* t is s with its i-th post, if it is a text, among those to be stored.
Keeps(s, t, i, text) ==
    /\ t.ok /\ t.array = s.array /\ t.deleted = s.deleted
    /\ \A k \in DOMAIN s.kept : k \in DOMAIN t.kept /\ t.kept[k] = s.kept[k]
    /\ s.array[i].id \in text => \E k \in DOMAIN t.kept : t.kept[k] = s.array[i]

\* A round that comes to a post that is not deleted.
LEMMA FilterStepKeeps ==
    ASSUME NEW R, NEW n \in Nat, NEW text, NEW s \in FilterStates(R, n, text), NEW i \in 1..n,
           s.ok, ~s.array[i].gone
    PROVE  Keeps(s, FilterStep(s, i, text), i, text)
<1> DEFINE post == s.array[i]
           t == FilterStep(s, i, text)
<1>1. s.kept \in Seq(Storable(R, text)) /\ post \in R
  BY DEF FilterStates
<1>2. t = IF post.id \in text THEN [s EXCEPT !.kept = Append(@, post)] ELSE s
  BY DEF FilterStep
<1>3. CASE post.id \in text
  <2>1. /\ t.ok /\ t.array = s.array /\ t.deleted = s.deleted
        /\ t.kept = Append(s.kept, post)
    BY <1>2, <1>3 DEF FilterStates
  <2>2. post \in Storable(R, text)
    BY <1>1, <1>3 DEF Storable
  <2> HIDE DEF t, post
  <2>3. \A k \in DOMAIN s.kept : k \in DOMAIN t.kept /\ t.kept[k] = s.kept[k]
    BY <1>1, <2>1, <2>2, AppendProperties
  <2>4. Len(s.kept) + 1 \in DOMAIN t.kept /\ t.kept[Len(s.kept) + 1] = post
    BY <1>1, <2>1, <2>2, AppendProperties
  <2> QED
    BY <2>1, <2>3, <2>4 DEF t, post, Keeps
<1>4. CASE post.id \notin text
  BY <1>2, <1>4 DEF Keeps
<1> QED
  BY <1>3, <1>4

\* With no deleted post in it, it leaves the list alone and keeps every text, to
\* be stored: what is lost in deleteAndFilterPost is lost to deletions.
THEOREM FilteringKeeps ==
    ASSUME NEW R, NEW posts \in Seq(R), NEW text,
           \A j \in 1..Len(posts) : ~posts[j].gone
    PROVE  \A i \in 0..Len(posts) :
               LET s == Filtering(posts, text)[i] IN
               /\ s.array = posts /\ s.ok /\ s.deleted = {}
               /\ \A j \in 1..i : posts[j].id \in text =>
                      \E k \in DOMAIN s.kept : s.kept[k] = posts[j]
<1> DEFINE n == Len(posts)
           after == Filtering(posts, text)
           Good(i) == /\ after[i].array = posts /\ after[i].ok /\ after[i].deleted = {}
                      /\ \A j \in 1..i : posts[j].id \in text =>
                             \E k \in DOMAIN after[i].kept : after[i].kept[k] = posts[j]
           T == {i \in 0..n : Good(i)}
<1>1. /\ n \in Nat
      /\ \A i \in 0..n : after[i] \in FilterStates(R, n, text)
      /\ after[0] = [array |-> posts, kept |-> <<>>, deleted |-> {}, ok |-> TRUE]
      /\ \A i \in 1..n : after[i] = FilterStep(after[i - 1], i, text)
  BY FilteringRuns
<1> HIDE DEF after
<1>2. 0 \in T
  BY <1>1
<1>3. ASSUME NEW i \in 1..n, i - 1 \in T PROVE i \in T
  <2> DEFINE s == after[i - 1]
             t == after[i]
  <2>1. i - 1 \in 0..n /\ Good(i - 1) /\ s \in FilterStates(R, n, text)
        /\ t = FilterStep(s, i, text)
    BY <1>1, <1>3
  <2>2. Keeps(s, t, i, text)
    BY <1>1, <2>1, FilterStepKeeps
  <2>3. ASSUME NEW j \in 1..i, posts[j].id \in text
        PROVE  \E k \in DOMAIN t.kept : t.kept[k] = posts[j]
    <3>1. j = i \/ j \in 1..(i - 1)
      OBVIOUS
    <3>2. CASE j \in 1..(i - 1)
      <4>1. PICK k \in DOMAIN s.kept : s.kept[k] = posts[j]
        BY <2>1, <2>3, <3>2
      <4> QED
        BY <2>2, <4>1 DEF Keeps
    <3> QED
      BY <2>1, <2>2, <2>3, <3>1, <3>2 DEF Keeps
  <2>4. t.array = posts /\ t.ok /\ t.deleted = {}
    BY <2>1, <2>2 DEF Keeps
  <2> QED
    BY <2>3, <2>4
<1>4. \A i \in 0..n : i \in T
  <2> HIDE DEF T
  <2> QED
    BY <1>1, <1>2, <1>3, UpTo
<1> QED
  BY <1>4 DEF after

\* What one deleted post costs.  It is deleted, nothing else is, and no slice
\* bound is out of range; every text of the list is stored but for the one behind
\* it, which is moved to the place the loop has passed, unless that is the last.
THEOREM OneDeletion ==
    ASSUME NEW R, NEW posts \in Seq(R), NEW text,
           NEW d \in 1..Len(posts), posts[d].gone,
           \A j \in 1..Len(posts) : j # d => ~posts[j].gone /\ posts[j].id # posts[d].id
    PROVE  LET s == Filtering(posts, text)[Len(posts)] IN
           /\ s.ok /\ s.deleted = {posts[d].id}
           /\ s.array = ShiftDown(posts, d, Len(posts))
           /\ \A j \in 1..Len(posts) :
                  posts[j].id \in text /\ j # d /\ (j # d + 1 \/ j = Len(posts)) =>
                      \E k \in DOMAIN s.kept : s.kept[k] = posts[j]
<1> DEFINE n == Len(posts)
           id == posts[d].id
           moved == ShiftDown(posts, d, n)
           after == Filtering(posts, text)
           Seen(j) == IF j < d THEN posts[j] ELSE moved[j]
           Has(s, j) == \E k \in DOMAIN s.kept : s.kept[k] = Seen(j)
           Good(s, i) == /\ s.ok
                         /\ IF i < d THEN s.array = posts /\ s.deleted = {}
                            ELSE s.array = moved /\ s.deleted = {id}
                         /\ \A j \in 1..i : j # d /\ Seen(j).id \in text => Has(s, j)
<1>1. n \in Nat /\ posts \in [1..n -> R] /\ d \in 1..n
  BY ArrayIs
<1>2. /\ \A i \in 0..n : after[i] \in FilterStates(R, n, text)
      /\ after[0] = [array |-> posts, kept |-> <<>>, deleted |-> {}, ok |-> TRUE]
      /\ \A i \in 1..n : after[i] = FilterStep(after[i - 1], i, text)
  BY FilteringRuns
<1>3. RemovePost(posts, id).ok /\ RemovePost(posts, id).array = moved
  BY RemoveOne
<1>4. \A j \in 1..n : moved[j] = IF d <= j /\ j < n THEN posts[j + 1] ELSE posts[j]
  BY <1>1 DEF ShiftDown
<1>5. /\ \A j \in 1..n : j # d => ~posts[j].gone
      /\ posts[d].gone
  OBVIOUS
<1> HIDE DEF n, moved, after, id
<1>6. \A j \in 1..n : j > d => ~moved[j].gone
  <2>1. ASSUME NEW j \in 1..n, j > d PROVE ~moved[j].gone
    <3>1. PICK l \in 1..n : l # d /\ moved[j] = posts[l]
      <4>1. CASE j < n
        <5>1. j + 1 \in 1..n /\ j + 1 # d
          BY <1>1, <2>1, <4>1
        <5>2. d <= j
          BY <1>1, <2>1
        <5> QED
          BY <1>4, <4>1, <5>1, <5>2
      <4>2. CASE ~(j < n)
        BY <1>1, <1>4, <2>1, <4>2
      <4> QED
        BY <4>1, <4>2
    <3> QED
      BY <1>5, <3>1
  <2> QED
    BY <2>1
<1> DEFINE T == {i \in 0..n : Good(after[i], i)}
<1>7. 0 \in T
  BY <1>1, <1>2
<1>8. ASSUME NEW i \in 1..n, i - 1 \in T PROVE i \in T
  <2> DEFINE s == after[i - 1]
             t == after[i]
  <2>1. /\ Good(s, i - 1) /\ s \in FilterStates(R, n, text) /\ i - 1 \in 0..n
        /\ t = FilterStep(s, i, text)
    BY <1>1, <1>2, <1>8
  <2> HIDE DEF s, t
  <2>2. CASE i = d
    <3>1. s.ok /\ s.array = posts /\ s.deleted = {} /\ s.array[i].gone /\ s.array[i].id = id
      BY <1>1, <1>5, <2>1, <2>2 DEF id
    <3>2. t = [s EXCEPT !.array = moved, !.ok = TRUE, !.deleted = {} \cup {id}]
      <4>1. t = [s EXCEPT !.array = RemovePost(posts, id).array,
                          !.ok = RemovePost(posts, id).ok, !.deleted = @ \cup {id}]
        BY <2>1, <3>1 DEF FilterStep
      <4>2. RemovePost(posts, id).ok = TRUE
        <5>1. RemovePost(posts, id).ok \in BOOLEAN
          BY RemoveType
        <5> QED
          BY <1>3, <5>1
      <4> QED
        BY <1>3, <3>1, <4>1, <4>2
    <3>3. t.ok /\ t.array = moved /\ t.deleted = {id} /\ t.kept = s.kept
      BY <2>1, <3>2 DEF FilterStates
    <3>4. \A j \in 1..i : j # d => j \in 1..(i - 1)
      BY <1>1, <2>2
    <3>5. \A j \in 1..i : j # d /\ Seen(j).id \in text => Has(t, j)
      BY <2>1, <3>3, <3>4
    <3>6. ~(i < d)
      BY <1>1, <2>2
    <3>7. Good(t, i)
      BY <3>3, <3>5, <3>6, Zenon
    <3> QED
      BY <1>1, <3>7 DEF t
  <2>3. CASE i # d
    <3>1. s.ok /\ s.array = (IF i < d THEN posts ELSE moved)
          /\ s.deleted = (IF i < d THEN {} ELSE {id})
      <4>1. i - 1 < d <=> i < d
        BY <1>1, <2>1, <2>3
      <4> QED
        BY <2>1, <4>1
    <3>2. s.array[i] = Seen(i) /\ ~s.array[i].gone
      <4>1. CASE i < d
        BY <1>5, <2>3, <3>1, <4>1
      <4>2. CASE ~(i < d)
        <5>1. i > d
          BY <1>1, <2>3, <4>2
        <5> QED
          BY <1>6, <3>1, <4>2, <5>1
      <4> QED
        BY <4>1, <4>2
    <3>3. /\ t.ok /\ t.array = s.array /\ t.deleted = s.deleted
          /\ \A k \in DOMAIN s.kept : k \in DOMAIN t.kept /\ t.kept[k] = s.kept[k]
          /\ Seen(i).id \in text => Has(t, i)
      <4>1. s.ok /\ ~s.array[i].gone
        BY <3>1, <3>2
      <4>2. Keeps(s, t, i, text)
        BY <1>1, <2>1, <4>1, FilterStepKeeps
      <4> HIDE DEF Seen
      <4> QED
        BY <3>2, <4>2 DEF Keeps
    <3>4. ASSUME NEW j \in 1..i, j # d, Seen(j).id \in text PROVE Has(t, j)
      <4> HIDE DEF Seen
      <4>1. CASE j = i
        BY <3>3, <3>4, <4>1
      <4>2. CASE j # i
        <5>1. j \in 1..(i - 1)
          BY <1>1, <4>2
        <5>2. PICK k \in DOMAIN s.kept : s.kept[k] = Seen(j)
          BY <2>1, <3>4, <5>1
        <5> QED
          BY <3>3, <5>2
      <4> QED
        BY <4>1, <4>2
    <3>5. Good(t, i)
      <4> HIDE DEF Has, Seen
      <4> QED
        BY <3>1, <3>3, <3>4
    <3> QED
      BY <1>1, <3>5 DEF t
  <2> QED
    BY <2>2, <2>3
<1>9. \A i \in 0..n : i \in T
  <2> HIDE DEF T
  <2> QED
    BY <1>1, <1>7, <1>8, UpTo
<1>10. Good(after[n], n) /\ ~(n < d)
  BY <1>1, <1>9
<1>11. ASSUME NEW j \in 1..n, posts[j].id \in text, j # d, j # d + 1 \/ j = n
       PROVE  \E k \in DOMAIN after[n].kept : after[n].kept[k] = posts[j]
  <2>1. PICK l \in 1..n : l # d /\ Seen(l) = posts[j]
    <3>1. CASE j < d
      BY <3>1
    <3>2. CASE j > d + 1
      <4>1. j - 1 \in 1..n /\ j - 1 # d /\ d <= j - 1 /\ j - 1 < n /\ ~(j - 1 < d)
            /\ (j - 1) + 1 = j
        BY <1>1, <3>2
      <4>2. moved[j - 1] = posts[j]
        BY <1>4, <4>1
      <4> QED
        BY <4>1, <4>2
    <3>3. CASE j = d + 1 /\ j = n
      <4>1. ~(j < d) /\ ~(j < n)
        BY <1>1, <3>3
      <4> QED
        BY <1>4, <1>11, <4>1
    <3>4. j < d \/ j > d + 1 \/ (j = d + 1 /\ j = n)
      BY <1>1, <1>11
    <3> QED
      BY <3>1, <3>2, <3>3, <3>4
  <2> HIDE DEF Seen
  <2> QED
    BY <1>10, <1>11, <2>1
<1> QED
  BY <1>10, <1>11 DEF n, moved, after, id
=============================================================================
