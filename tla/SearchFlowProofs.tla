-------------------------- MODULE SearchFlowProofs --------------------------
(***************************************************************************)
(* Proofs about SearchFlow, for any documents, distances, queries and      *)
(* requests in flight.  SearchInv is the inductive invariant: its parts    *)
(* say what each property rests on that the property itself does not see.  *)
(***************************************************************************)
EXTENDS SearchFlow, TLAPS

\* A hit that was deleted before the search was sent is still to be looked up.
LookUps ==
    \A r \in Requests : /\ pc[r] # "idle" => before[r] \subseteq gone
                        /\ pc[r] = "idle" => hits[r] = {}
                        /\ hits[r] \cap before[r] \subseteq todo[r]

\* Who waits for what: a sidebar that is broken shows no loader and no
\* payload, and only a request that is under way is an orphan.
Waiting == /\ LoaderTells
           /\ broken => ~loading /\ payload = NoPayload
           /\ \A r \in orphans : pc[r] # "idle"

\* The request sent last has the query sent last.
Newest == /\ newest \in InFlight => text[newest] = asked
          /\ ShownIsLatest

SearchInv == TypeOK /\ LookUps /\ Waiting /\ Newest

-----------------------------------------------------------------------------
\* Steps that leave requests and sidebar as they are, or end them.

LEMMA NearestIsFound ==
    ASSUME NEW q, NEW collection, collection \subseteq Docs
    PROVE  Nearest(q, collection) \subseteq Docs
  BY DEF Nearest

\* A dying process fails the requests it served; none of them is given up.
LEMMA DieKeeps == SearchInv /\ Die => SearchInv'
<1> SUFFICES ASSUME SearchInv, Die PROVE SearchInv'
  OBVIOUS
<1> USE DEF SearchInv, Die, world, sidebar, history
<1>1. TypeOK'
  BY DEF TypeOK, Served
<1>2. LookUps'
  BY DEF TypeOK, LookUps, Served
<1>3. InFlight' = InFlight
  BY DEF TypeOK, InFlight, Served
<1>4. Waiting'
  BY <1>3 DEF TypeOK, Waiting, LoaderTells, Served
<1>5. Newest'
  BY <1>3 DEF Newest, ShownIsLatest, NoPayload
<1>6. QED
  BY <1>1, <1>2, <1>4, <1>5

\* A step of a request from one point in the plugin to the next, with nothing
\* but its hits and the look-ups it has still to do changed.
LEMMA ServeKeeps ==
    ASSUME SearchInv, NEW r \in Requests, pc[r] \in Served,
           NEW to \in {"mattermost", "slack", "details", "answered"},
           pc' = [pc EXCEPT ![r] = to],
           NEW found \in SUBSET Docs, hits' = [hits EXCEPT ![r] = found],
           NEW left \in SUBSET Docs, todo' = [todo EXCEPT ![r] = left],
           found \cap before[r] \subseteq left,
           to = "answered" => left = {},
           UNCHANGED <<world, up, text, revoked, before, sidebar, orphans, history>>
    PROVE  SearchInv'
<1> USE DEF SearchInv, world, sidebar, history
<1>1. TypeOK'
  BY DEF TypeOK, Served
<1>2. LookUps'
  BY DEF TypeOK, LookUps, Served
<1>3. InFlight' = InFlight
  BY DEF TypeOK, InFlight, Served
<1>4. Waiting'
  BY <1>3 DEF TypeOK, Waiting, LoaderTells
<1>5. Newest'
  BY <1>3 DEF Newest, ShownIsLatest, NoPayload
<1>6. QED
  BY <1>1, <1>2, <1>4, <1>5

LEMMA ServeStep ==
    ASSUME SearchInv, NEW r \in Requests, Serve(r)
    PROVE  SearchInv'
<1> USE DEF SearchInv, request
<1>1. CASE Open(r)
  <2>1. pc[r] \in Served /\ hits[r] \in SUBSET Docs /\ todo[r] \in SUBSET Docs
    BY <1>1 DEF Open, TypeOK, Served
  <2>2. hits' = [hits EXCEPT ![r] = hits[r]] /\ todo' = [todo EXCEPT ![r] = todo[r]]
    BY <1>1 DEF Open, TypeOK
  <2>3. hits[r] \cap before[r] \subseteq todo[r]
    BY DEF LookUps
  <2>4. QED
    BY <1>1, <2>1, <2>2, <2>3, ServeKeeps DEF Open
<1>2. ASSUME NEW collection, collection \subseteq Docs, NEW from \in Served,
             NEW to \in {"slack", "details"}, QueryOne(r, collection, from, to)
      PROVE  SearchInv'
  <2>1. CASE r \in revoked /\ Die
    BY <2>1, DieKeeps
  <2>2. CASE ~(r \in revoked /\ Die)
    <3> DEFINE found == hits[r] \cup Nearest(text[r], index \cap collection)
    <3>1. found \in SUBSET Docs
      BY NearestIsFound, <1>2 DEF TypeOK
    <3>2. pc[r] \in Served /\ hits' = [hits EXCEPT ![r] = found]
          /\ todo' = [todo EXCEPT ![r] = found]
      BY <1>2, <2>2 DEF QueryOne, TypeOK
    <3>3. pc' = [pc EXCEPT ![r] = to]
          /\ UNCHANGED <<world, up, text, revoked, before, sidebar, orphans, history>>
      BY <1>2, <2>2 DEF QueryOne
    <3> HIDE DEF found
    <3>4. QED
      BY <3>1, <3>2, <3>3, ServeKeeps
  <2>3. QED
    BY <2>1, <2>2
<1>3. CASE QueryMattermost(r) \/ QuerySlack(r)
  BY <1>2, <1>3 DEF QueryMattermost, QuerySlack, Docs, Served
<1>4. CASE Details(r)
  <2>1. CASE Die
    BY <2>1, DieKeeps
  <2>2. CASE ~Die
    <3>1. PICK d \in todo[r] : /\ d \notin gone
                               /\ todo' = [todo EXCEPT ![r] = @ \ {d}]
      BY <1>4, <2>2 DEF Details
    <3>2. /\ pc[r] = "details" /\ pc' = pc /\ hits' = hits
          /\ UNCHANGED <<world, up, text, revoked, before, sidebar, orphans, history>>
      BY <1>4, <2>2 DEF Details
    <3>3. hits[r] \in SUBSET Docs /\ todo[r] \ {d} \in SUBSET Docs
      BY DEF TypeOK
    <3>4. d \notin before[r]
      BY <3>1, <3>2 DEF LookUps
    <3>5. hits[r] \cap before[r] \subseteq todo[r] \ {d}
      BY <3>4 DEF LookUps
    <3>6. pc' = [pc EXCEPT ![r] = "details"] /\ hits' = [hits EXCEPT ![r] = hits[r]]
          /\ todo' = [todo EXCEPT ![r] = todo[r] \ {d}]
      BY <3>1, <3>2 DEF TypeOK
    <3>7. QED
      BY <3>2, <3>3, <3>5, <3>6, ServeKeeps DEF Served
  <2>3. QED
    BY <2>1, <2>2
<1>5. CASE Respond(r)
  <2>1. pc[r] \in Served /\ hits[r] \in SUBSET Docs /\ todo[r] = {}
    BY <1>5 DEF Respond, TypeOK, Served
  <2>2. hits' = [hits EXCEPT ![r] = hits[r]] /\ todo' = [todo EXCEPT ![r] = {}]
    BY <1>5 DEF Respond, TypeOK
  <2>3. hits[r] \cap before[r] \subseteq {}
    BY <2>1 DEF LookUps
  <2>4. /\ pc' = [pc EXCEPT ![r] = "answered"]
        /\ UNCHANGED <<world, up, text, revoked, before, sidebar, orphans, history>>
    BY <1>5 DEF Respond
  <2>5. {} \in SUBSET Docs
    OBVIOUS
  <2>6. QED
    BY <2>1, <2>2, <2>3, <2>4, <2>5, ServeKeeps
<1>6. QED
  BY <1>1, <1>3, <1>4, <1>5 DEF Serve

-----------------------------------------------------------------------------
\* A new search.
LEMMA SubmitStep ==
    ASSUME SearchInv, NEW q \in Queries, Submit(q)
    PROVE  SearchInv'
<1> USE DEF SearchInv, world
<1>1. CASE query = q
  <2>1. UNCHANGED <<world, up, pc, request, loading, payload, avatars, history, broken,
                    orphans>> /\ query' = NoQuery
    BY <1>1 DEF Submit
  <2>2. QED
    BY <2>1 DEF TypeOK, LookUps, Waiting, LoaderTells, Newest, ShownIsLatest,
        InFlight, request, history, NoPayload, Served
<1>2. CASE query # q
  <2>1. PICK r \in Requests : Send(r, q)
    BY <1>2 DEF Submit
  <2>2. UNCHANGED <<world, up, broken, orphans>> /\ query' = q /\ ~broken
    BY <1>2 DEF Submit
  <2>3. TypeOK'
    BY <2>1, <2>2 DEF Send, TypeOK, Served
  <2>4. LookUps'
    BY <2>1, <2>2 DEF Send, TypeOK, LookUps, Served
  <2>5. r \in InFlight' /\ newest' = r /\ text'[r] = asked'
    BY <2>1, <2>2 DEF Send, TypeOK, InFlight, Waiting
  <2>6. Waiting'
    BY <2>1, <2>2, <2>5 DEF Send, TypeOK, Waiting, LoaderTells
  <2>7. Newest'
    BY <2>5 DEF Newest, ShownIsLatest
  <2>8. QED
    BY <2>3, <2>4, <2>6, <2>7
<1>3. QED
  BY <1>1, <1>2

-----------------------------------------------------------------------------
\* What the end of a request leaves of the others.
LEMMA OverKeeps ==
    ASSUME SearchInv, NEW r \in Requests, pc[r] \in {"answered", "failed"}, Over(r),
           UNCHANGED <<gone, asked, newest>>
    PROVE  /\ LookUps'
           /\ InFlight' = InFlight \ {r}
           /\ newest \in InFlight' => text'[newest] = asked
           /\ \A o \in orphans' : pc'[o] # "idle"
<1> USE DEF SearchInv, Over
<1>1. LookUps'
  BY DEF TypeOK, LookUps
<1>2. InFlight' = InFlight \ {r}
  BY DEF TypeOK, InFlight
<1>3. newest \in InFlight' => text'[newest] = asked
  BY <1>2 DEF TypeOK, Newest, InFlight
<1>4. \A o \in orphans' : pc'[o] # "idle"
  BY DEF TypeOK, Waiting
<1>5. QED
  BY <1>1, <1>2, <1>3, <1>4

\* The answers.
LEMMA ArriveStep ==
    ASSUME SearchInv, NEW r \in Requests, Arrive(r)
    PROVE  SearchInv'
<1> USE DEF SearchInv, world
<1>1. TypeOK'
  <2>1. /\ pc' \in [Requests -> {"idle", "answered", "failed"} \cup Served]
        /\ text' \in [Requests -> Queries \cup {NoQuery}]
        /\ hits' \in [Requests -> SUBSET Docs] /\ todo' = todo /\ revoked' = revoked
        /\ before' \in [Requests -> SUBSET Posts] /\ orphans' \subseteq Requests
        /\ \A s \in Requests : pc'[s] \notin Served => todo'[s] = {}
    BY DEF Arrive, Over, TypeOK, Served
  <2>2. payload' \in [query : Queries \cup {NoQuery}, hits : SUBSET Docs]
    BY DEF Arrive, TypeOK
  <2>3. /\ avatars' \in {"none", "fetching", "loaded", "failed"}
        /\ loading' \in BOOLEAN /\ overtaken' \in BOOLEAN
    BY DEF Arrive, TypeOK, Fetched
  <2>4. swapped' \in BOOLEAN
    BY DEF Arrive, TypeOK, Mounted
  <2>5. QED
    BY <2>1, <2>2, <2>3, <2>4 DEF Arrive, TypeOK
<1>2. /\ LookUps' /\ InFlight' = InFlight \ {r}
      /\ newest' \in InFlight' => text'[newest'] = asked'
      /\ \A o \in orphans' : pc'[o] # "idle"
  BY OverKeeps DEF Arrive
<1>3. CASE broken
  <2>1. UNCHANGED <<payload, loading, broken>> /\ ~loading /\ payload = NoPayload
    BY <1>3 DEF Arrive, Waiting
  <2>2. QED
    BY <1>1, <1>2, <2>1 DEF Waiting, LoaderTells, Newest, ShownIsLatest, NoPayload
<1>4. CASE ~broken
  <2>1. /\ loading' = FALSE /\ broken' = FALSE
        /\ payload'.query = text[r]
        /\ overtaken' = (r # newest /\ newest \notin InFlight)
        /\ UNCHANGED <<asked, newest>>
    BY <1>4 DEF Arrive, TypeOK
  <2>2. r \in InFlight
    BY DEF Arrive, InFlight
  <2>3. Waiting'
    BY <1>2, <2>1 DEF Waiting, LoaderTells
  <2>4. ShownIsLatest'
    BY <1>2, <2>1, <2>2 DEF Newest, ShownIsLatest
  <2>5. QED
    BY <1>1, <1>2, <2>3, <2>4 DEF Newest
<1>5. QED
  BY <1>3, <1>4

LEMMA ArriveFailedStep ==
    ASSUME SearchInv, NEW r \in Requests, ArriveFailed(r)
    PROVE  SearchInv'
<1> USE DEF SearchInv, world, history
<1>1. TypeOK'
  BY DEF ArriveFailed, Over, TypeOK, Served, NoPayload
<1>2. /\ LookUps'
      /\ newest' \in InFlight' => text'[newest'] = asked'
      /\ \A o \in orphans' : pc'[o] # "idle"
  BY OverKeeps DEF ArriveFailed
<1>3. loading' = FALSE /\ payload' = NoPayload'
  BY DEF ArriveFailed, NoPayload
<1>4. QED
  BY <1>1, <1>2, <1>3 DEF Waiting, LoaderTells, Newest, ShownIsLatest, NoPayload

LEMMA ArriveOrphanStep ==
    ASSUME SearchInv, NEW r \in Requests, ArriveOrphan(r)
    PROVE  SearchInv'
<1> USE DEF SearchInv, world, sidebar, history
<1>1. TypeOK'
  BY DEF ArriveOrphan, Over, TypeOK, Served
<1>2. /\ LookUps' /\ InFlight' = InFlight \ {r}
      /\ newest' \in InFlight' => text'[newest'] = asked'
      /\ \A o \in orphans' : pc'[o] # "idle"
  BY OverKeeps DEF ArriveOrphan
<1>3. InFlight' = InFlight
  BY <1>2 DEF ArriveOrphan, InFlight
<1>4. QED
  BY <1>1, <1>2, <1>3 DEF ArriveOrphan, Waiting, LoaderTells, Newest, ShownIsLatest,
      NoPayload

LEMMA ReopenStep == SearchInv /\ Reopen => SearchInv'
<1> SUFFICES ASSUME SearchInv, Reopen PROVE SearchInv'
  OBVIOUS
<1> USE RequestAssumption DEF SearchInv, Reopen, world, request, NoPayload
<1>1. TypeOK'
  BY DEF TypeOK, Served, InFlight
<1>2. LookUps'
  BY DEF LookUps
<1>3. Waiting'
  BY DEF Waiting, LoaderTells, InFlight
<1>4. Newest'
  BY DEF Newest, ShownIsLatest, InFlight
<1>5. QED
  BY <1>1, <1>2, <1>3, <1>4

-----------------------------------------------------------------------------
\* The steps of the world, and those of the avatars, which touch no request.
LEMMA OtherStep ==
    ASSUME SearchInv,
           \/ \E p \in Posts : Delete(p) \/ Removed(p)
           \/ \E d \in Docs : Indexed(d)
           \/ Reset \/ Restart \/ AvatarsArrive \/ AvatarsFail \/ UNCHANGED vars
    PROVE  SearchInv'
<1> USE DEF SearchInv, world, request, sidebar, history, vars
<1>1. /\ UNCHANGED <<pc, text, hits, todo, before, query, loading, payload, broken,
                     orphans, history>>
      /\ gone \subseteq gone' /\ gone' \subseteq Posts /\ index' \subseteq Docs
      /\ up' \in BOOLEAN /\ revoked' \subseteq Requests
      /\ avatars' \in {"none", "fetching", "loaded", "failed"}
  BY DEF TypeOK, Delete, Removed, Indexed, Reset, Restart, AvatarsArrive, AvatarsFail,
      Docs
<1>2. TypeOK'
  BY <1>1 DEF TypeOK, Served
<1>3. LookUps'
  BY <1>1 DEF LookUps
<1>4. Waiting' /\ Newest'
  BY <1>1 DEF Waiting, Newest, LoaderTells, ShownIsLatest, InFlight, NoPayload
<1>5. QED
  BY <1>2, <1>3, <1>4

LEMMA SearchStep == SearchInv /\ [Next]_vars => SearchInv'
<1> SUFFICES ASSUME SearchInv, [Next]_vars PROVE SearchInv'
  OBVIOUS
<1>1. CASE Crash \/ \E r \in Requests : ServiceFails(r)
  BY <1>1, DieKeeps DEF Crash, ServiceFails
<1>2. CASE \E r \in Requests : Serve(r)
  BY <1>2, ServeStep
<1>3. CASE \E r \in Requests : Arrive(r) \/ ArriveFailed(r) \/ ArriveOrphan(r)
  BY <1>3, ArriveStep, ArriveFailedStep, ArriveOrphanStep
<1>4. CASE \E q \in Queries : Submit(q)
  BY <1>4, SubmitStep
<1>5. CASE Reopen
  BY <1>5, ReopenStep
<1>6. CASE \/ \E p \in Posts : Delete(p) \/ Removed(p)
           \/ \E d \in Docs : Indexed(d)
           \/ Reset \/ Restart \/ AvatarsArrive \/ AvatarsFail \/ UNCHANGED vars
  BY <1>6, OtherStep
<1>7. QED
  BY <1>1, <1>2, <1>3, <1>4, <1>5, <1>6 DEF Next

LEMMA SearchInit == Init => SearchInv
<1> SUFFICES ASSUME Init PROVE SearchInv
  OBVIOUS
<1> USE RequestAssumption DEF Init, FreshSidebar, NoPayload
<1>1. TypeOK
  BY DEF TypeOK, Served
<1>2. LookUps
  BY DEF LookUps
<1>3. Waiting /\ Newest
  BY DEF Waiting, LoaderTells, Newest, ShownIsLatest, InFlight
<1>4. QED
  BY <1>1, <1>2, <1>3 DEF SearchInv

\* SearchInv holds of every behaviour of a search.
THEOREM SearchInvariant == Spec => []SearchInv
  BY SearchInit, SearchStep, PTL DEF Spec

\* The variables keep their types, and only a search under way has look-ups to do.
THEOREM TypeCorrect == Spec => []TypeOK
<1>1. SearchInv => TypeOK
  BY DEF SearchInv
<1>2. QED
  BY <1>1, SearchInvariant, PTL

\* No answer shows a post that was deleted before its search was sent
\* (getPostDetails, search.go:113).
THEOREM NoDeletedShown == Spec => []NothingDeletedShown
<1>1. SearchInv => NothingDeletedShown
  BY DEF SearchInv, TypeOK, LookUps, NothingDeletedShown, Served
<1>2. QED
  BY <1>1, SearchInvariant, PTL

\* The loader turns only while an answer is to come (finally, rhs_view.jsx:70).
THEOREM LoaderTold == Spec => []LoaderTells
<1>1. SearchInv => LoaderTells
  BY DEF SearchInv, Waiting
<1>2. QED
  BY <1>1, SearchInvariant, PTL

\* What is shown answers the query sent last, unless that answer is still to
\* come or was overtaken (setPayload, rhs_view.jsx:59).
THEOREM LatestShown == Spec => []ShownIsLatest
<1>1. SearchInv => ShownIsLatest
  BY DEF SearchInv, Newest
<1>2. QED
  BY <1>1, SearchInvariant, PTL
=============================================================================
