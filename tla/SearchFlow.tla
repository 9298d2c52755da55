----------------------------- MODULE SearchFlow -----------------------------
(***************************************************************************)
(* A search, from the sidebar (rhs_view.jsx, Result.tsx) through           *)
(* handleSearch and Search (server/search.go) to the two collections       *)
(* (Query, server/chroma.go) and back.                                     *)
(*                                                                         *)
(* Each request runs in a goroutine of its own, against collections that   *)
(* fetches and imports change meanwhile (FetchPipeline, SlackImport) and a *)
(* Mattermost server whose users delete posts; a failure anywhere in it is *)
(* a log.Fatal, which ends the plugin with every request it serves.  The   *)
(* sidebar may have several requests in flight, and takes their answers in *)
(* the order they arrive.                                                  *)
(*                                                                         *)
(* A document is known by its id; what it says, its score and its place in *)
(* the list are left out, and hits are looked up in any order.  No user is *)
(* restricted to channels: getUserChannels is a stub that names none.      *)
(***************************************************************************)
EXTENDS Naturals, FiniteSets

CONSTANTS
    Posts,          \* Mattermost posts
    Slack,          \* messages imported from Slack
    Queries,        \* what a user may type
    Distance,       \* Distance[q][d]: of document d from query q
    MaxDistance,    \* max_chroma_distance
    NResults,       \* n_results
    Requests,       \* bound: searches in flight
    NoQuery, NoRequest,
    Faults          \* TRUE: services may fail, and the process be killed

Docs == Posts \cup Slack

ASSUME DocsAssumption == Posts \cap Slack = {} /\ IsFiniteSet(Docs)
ASSUME DistanceAssumption ==
    /\ Distance \in [Queries -> [Docs -> Nat]]
    /\ MaxDistance \in Nat /\ NResults \in Nat
    /\ \A q \in Queries : \A d, e \in Docs : Distance[q][d] = Distance[q][e] => d = e
ASSUME RequestAssumption ==
    NoQuery \notin Queries /\ NoRequest \notin Requests /\ Faults \in BOOLEAN

VARIABLES
    index,      \* documents in the two collections
    gone,       \* posts deleted from Mattermost
    up,         \* the plugin process is alive
    pc,         \* pc[r]: where request r is
    text,       \* text[r]: its query
    hits,       \* hits[r]: what the collections returned for it
    todo,       \* todo[r]: hits whose details are still to be looked up
    revoked,    \* requests whose collections were reset after they got them
    before,     \* history: before[r] is gone as it was when r was sent
    query,      \* the sidebar's searchQuery
    loading,    \* its loading
    payload,    \* its payload: the query answered and the hits
    avatars,    \* what the Result shown has of the avatars; "loaded" is ~isBusy
    broken,     \* a component threw while it rendered: nothing is shown
    orphans,    \* requests of a sidebar that is gone
    newest,     \* history: the request sent last
    asked,      \* history: the query sent last
    overtaken,  \* history: the last answer was of another request, newest's came first
    swapped     \* history: the Result shown was given another answer

world == <<index, gone>>
request == <<text, hits, todo, revoked, before>>
sidebar == <<query, loading, payload, avatars, broken>>
history == <<newest, asked, overtaken, swapped>>
vars == <<world, up, pc, request, sidebar, orphans, history>>

Served == {"opening", "mattermost", "slack", "details"}
InFlight == {r \in Requests \ orphans : pc[r] # "idle"}

NoPayload == [query |-> NoQuery, hits |-> {}]

\* The Result component is mounted: not behind the loader, not the Home page.
Mounted == ~loading /\ payload # NoPayload /\ ~broken

FreshSidebar ==
    /\ query = NoQuery /\ loading = FALSE /\ payload = NoPayload
    /\ avatars = "none" /\ broken = FALSE

Init ==
    /\ index \in SUBSET Docs /\ gone = {} /\ up = TRUE
    /\ pc = [r \in Requests |-> "idle"]
    /\ text = [r \in Requests |-> NoQuery]
    /\ hits = [r \in Requests |-> {}]
    /\ todo = [r \in Requests |-> {}]
    /\ revoked = {}
    /\ before = [r \in Requests |-> {}]
    /\ FreshSidebar
    /\ orphans = {}
    /\ newest = NoRequest /\ asked = NoQuery
    /\ overtaken = FALSE /\ swapped = FALSE

-----------------------------------------------------------------------------
\* What changes meanwhile

\* A user deletes a post (external).
Delete(p) ==
    /\ p \notin gone
    /\ gone' = gone \cup {p}
    /\ UNCHANGED <<index, up, pc, request, sidebar, orphans, history>>

\* A fetch or an import upserts a document: also a copy of a post that is
\* gone, which FetchPipeline shows to happen.
Indexed(d) ==
    /\ up /\ d \notin index
    /\ index' = index \cup {d}
    /\ UNCHANGED <<gone, up, pc, request, sidebar, orphans, history>>

\* deleteFromChroma of a fetch.
Removed(p) ==
    /\ up /\ p \in index \cap gone
    /\ index' = index \ {p}
    /\ UNCHANGED <<gone, up, pc, request, sidebar, orphans, history>>

\* handleReset: the collections are gone, with the handles queries hold.
Reset ==
    /\ up
    /\ index' = {}
    /\ revoked' = revoked \cup {r \in Requests : pc[r] \in {"mattermost", "slack"}}
    /\ UNCHANGED <<gone, up, pc, text, hits, todo, before, sidebar, orphans, history>>

\* log.Fatal, or a kill: the server answers the requests it forwarded.
Die ==
    /\ up' = FALSE
    /\ pc' = [r \in Requests |-> IF pc[r] \in Served THEN "failed" ELSE pc[r]]
    /\ hits' = [r \in Requests |-> IF pc[r] \in Served THEN {} ELSE hits[r]]
    /\ todo' = [r \in Requests |-> {}]
    /\ revoked' = {}
    /\ UNCHANGED <<world, text, before, sidebar, orphans, history>>

Crash == Faults /\ up /\ Die

Restart ==
    /\ ~up
    /\ up' = TRUE
    /\ UNCHANGED <<world, pc, request, sidebar, orphans, history>>

-----------------------------------------------------------------------------
\* The plugin: handleSearch, Search, Query

\* The near ones among the NResults documents of a collection nearest to q:
\* the threshold is applied to what the collection returned.
Nearest(q, collection) ==
    {d \in collection :
        /\ Cardinality({e \in collection : Distance[q][e] < Distance[q][d]}) < NResults
        /\ Distance[q][d] < MaxDistance}

\* GetOrCreateCollection of both collections.
Open(r) ==
    /\ pc[r] = "opening"
    /\ pc' = [pc EXCEPT ![r] = "mattermost"]
    /\ UNCHANGED <<world, up, request, sidebar, orphans, history>>

\* One collection answers, or is not there any more.
QueryOne(r, collection, from, to) ==
    /\ pc[r] = from
    /\ \/ r \in revoked /\ Die
       \/ /\ r \notin revoked
          /\ pc' = [pc EXCEPT ![r] = to]
          /\ hits' = [hits EXCEPT ![r] = @ \cup Nearest(text[r], index \cap collection)]
          /\ todo' = [todo EXCEPT ![r] = hits'[r]]
          /\ UNCHANGED <<world, up, text, revoked, before, sidebar, orphans, history>>

QueryMattermost(r) == QueryOne(r, Posts, "mattermost", "slack")
QuerySlack(r) == QueryOne(r, Slack, "slack", "details")

\* Mutant: a post that is not found is shown from the index alone.
DetailsUnchecked(r) ==
    /\ pc[r] = "details"
    /\ \E d \in todo[r] : todo' = [todo EXCEPT ![r] = @ \ {d}]
    /\ UNCHANGED <<world, up, pc, text, hits, revoked, before, sidebar, orphans, history>>

\* Mutant: a post that is not found is asked for again.
DetailsRetries(r) ==
    /\ pc[r] = "details"
    /\ \E d \in todo[r] \ gone : todo' = [todo EXCEPT ![r] = @ \ {d}]
    /\ UNCHANGED <<world, up, pc, text, hits, revoked, before, sidebar, orphans, history>>

\* getPostDetails and the user's, the channel's, the team's: Mattermost does
\* not find a post that is gone.  A Slack message needs no look-up.
Details(r) ==
    /\ pc[r] = "details"
    /\ \E d \in todo[r] :
          \/ d \in gone /\ Die
          \/ /\ d \notin gone
             /\ todo' = [todo EXCEPT ![r] = @ \ {d}]
             /\ UNCHANGED <<world, up, pc, text, hits, revoked, before, sidebar,
                            orphans, history>>

\* Mutant: the answer does not wait for the details.
RespondEarly(r) ==
    /\ pc[r] = "details"
    /\ pc' = [pc EXCEPT ![r] = "answered"]
    /\ UNCHANGED <<world, up, request, sidebar, orphans, history>>

Respond(r) ==
    /\ pc[r] = "details" /\ todo[r] = {}
    /\ pc' = [pc EXCEPT ![r] = "answered"]
    /\ UNCHANGED <<world, up, request, sidebar, orphans, history>>

\* Chroma or Mattermost does not answer, or not with a status of 200.
ServiceFails(r) == Faults /\ pc[r] \in Served /\ Die

Serve(r) == Open(r) \/ QueryMattermost(r) \/ QuerySlack(r) \/ Details(r) \/ Respond(r)

-----------------------------------------------------------------------------
\* The sidebar

\* The effect of a new searchQuery sends it; a plugin that is down fails it.
Send(r, q) ==
    /\ pc[r] = "idle"
    /\ pc' = [pc EXCEPT ![r] = IF up THEN "opening" ELSE "failed"]
    /\ text' = [text EXCEPT ![r] = q]
    /\ before' = [before EXCEPT ![r] = gone]
    /\ loading' = TRUE /\ avatars' = "none"
    /\ newest' = r /\ asked' = q /\ overtaken' = FALSE /\ swapped' = FALSE
    /\ UNCHANGED <<hits, todo, revoked, payload>>

\* handleSearchQuery: the same input again is taken for none, and not sent.
Submit(q) ==
    /\ ~broken
    /\ \/ /\ query # q
          /\ query' = q
          /\ \E r \in Requests : Send(r, q)
       \/ /\ query = q
          /\ query' = NoQuery
          /\ UNCHANGED <<pc, request, loading, payload, avatars, history>>
    /\ UNCHANGED <<world, up, broken, orphans>>

\* A request is over: its slot can be used again.
Over(r) ==
    /\ pc' = [pc EXCEPT ![r] = "idle"]
    /\ text' = [text EXCEPT ![r] = NoQuery]
    /\ hits' = [hits EXCEPT ![r] = {}]
    /\ before' = [before EXCEPT ![r] = {}]
    /\ orphans' = orphans \ {r}
    /\ UNCHANGED <<todo, revoked>>

\* What the effect of a Result does, once, when the Result is mounted.
Fetched(found) == IF found = {} THEN "none"
                  ELSE IF found \cap Posts = {} THEN "loaded" ELSE "fetching"

\* Mutant: the first answer stays.
ArriveOnce(r) ==
    /\ pc[r] = "answered" /\ r \notin orphans
    /\ Over(r)
    /\ payload' = IF payload = NoPayload THEN [query |-> text[r], hits |-> hits[r]]
                  ELSE payload
    /\ loading' = FALSE
    /\ avatars' = IF Mounted THEN avatars ELSE Fetched(hits[r])
    /\ swapped' = Mounted
    /\ overtaken' = (r # newest /\ newest \notin InFlight)
    /\ UNCHANGED <<world, up, query, broken, newest, asked>>

\* Mutant: the avatars are fetched for the first answer only.
ArriveFetchesOnce(r) ==
    /\ pc[r] = "answered" /\ r \notin orphans
    /\ Over(r)
    /\ payload' = [query |-> text[r], hits |-> hits[r]]
    /\ loading' = FALSE
    /\ avatars' = IF payload # NoPayload THEN avatars ELSE Fetched(hits[r])
    /\ swapped' = Mounted
    /\ overtaken' = (r # newest /\ newest \notin InFlight)
    /\ UNCHANGED <<world, up, query, broken, newest, asked>>

\* setPayload, then setLoading(false): no event comes between the two.  A
\* Result that is mounted stays, with the isBusy it has.
Arrive(r) ==
    /\ pc[r] = "answered" /\ r \notin orphans
    /\ Over(r)
    /\ IF broken
       THEN UNCHANGED <<payload, loading, avatars, overtaken, swapped>>
       ELSE /\ payload' = [query |-> text[r], hits |-> hits[r]]
            /\ loading' = FALSE
            /\ avatars' = IF Mounted THEN avatars ELSE Fetched(hits[r])
            /\ swapped' = Mounted
            /\ overtaken' = (r # newest /\ newest \notin InFlight)
    /\ UNCHANGED <<world, up, query, broken, newest, asked>>

\* Mutant: a failure leaves the loader.
ArriveFailedLoading(r) ==
    /\ pc[r] = "failed" /\ r \notin orphans
    /\ Over(r)
    /\ broken' = TRUE
    /\ payload' = NoPayload /\ avatars' = "none"
    /\ UNCHANGED <<world, up, query, loading, history>>

\* The payload of a failure has no context: Result throws when it reads it.
ArriveFailed(r) ==
    /\ pc[r] = "failed" /\ r \notin orphans
    /\ Over(r)
    /\ broken' = TRUE
    /\ loading' = FALSE /\ payload' = NoPayload /\ avatars' = "none"
    /\ UNCHANGED <<world, up, query, history>>

\* Nobody waits for the answer.
ArriveOrphan(r) ==
    /\ pc[r] \in {"answered", "failed"} /\ r \in orphans
    /\ Over(r)
    /\ UNCHANGED <<world, up, sidebar, history>>

\* The avatars of the posts found arrive, or one does not.
AvatarsArrive ==
    /\ avatars = "fetching"
    /\ avatars' = "loaded"
    /\ UNCHANGED <<world, up, pc, request, query, loading, payload, broken, orphans, history>>

AvatarsFail ==
    /\ Faults /\ avatars = "fetching"
    /\ avatars' = "failed"
    /\ UNCHANGED <<world, up, pc, request, query, loading, payload, broken, orphans, history>>

\* The sidebar is closed, or its page left, and opened again.
Reopen ==
    /\ query' = NoQuery /\ loading' = FALSE /\ payload' = NoPayload
    /\ avatars' = "none" /\ broken' = FALSE
    /\ orphans' = orphans \cup InFlight
    /\ newest' = NoRequest /\ asked' = NoQuery
    /\ overtaken' = FALSE /\ swapped' = FALSE
    /\ UNCHANGED <<world, up, pc, request>>

-----------------------------------------------------------------------------
Next ==
    \/ \E p \in Posts : Delete(p) \/ Removed(p)
    \/ \E d \in Docs : Indexed(d)
    \/ Reset \/ Crash \/ Restart
    \/ \E r \in Requests : \/ Serve(r) \/ ServiceFails(r)
                           \/ Arrive(r) \/ ArriveFailed(r) \/ ArriveOrphan(r)
    \/ \E q \in Queries : Submit(q)
    \/ AvatarsArrive \/ AvatarsFail \/ Reopen

Spec == Init /\ [][Next]_vars

\* Goroutines run, answers arrive, and a call of a service returns, well or
\* badly; nobody has to search.
FairSpec ==
    /\ Spec
    /\ WF_vars(Restart) /\ WF_vars(AvatarsArrive)
    /\ \A r \in Requests :
          /\ WF_vars(Serve(r))
          /\ WF_vars(Arrive(r)) /\ WF_vars(ArriveFailed(r)) /\ WF_vars(ArriveOrphan(r))

-----------------------------------------------------------------------------
TypeOK ==
    /\ index \subseteq Docs /\ gone \subseteq Posts /\ up \in BOOLEAN
    /\ pc \in [Requests -> {"idle", "answered", "failed"} \cup Served]
    /\ text \in [Requests -> Queries \cup {NoQuery}]
    /\ hits \in [Requests -> SUBSET Docs] /\ todo \in [Requests -> SUBSET Docs]
    /\ revoked \subseteq Requests
    /\ before \in [Requests -> SUBSET Posts]
    /\ query \in Queries \cup {NoQuery} /\ loading \in BOOLEAN
    /\ payload \in [query : Queries \cup {NoQuery}, hits : SUBSET Docs]
    /\ avatars \in {"none", "fetching", "loaded", "failed"} /\ broken \in BOOLEAN
    /\ orphans \subseteq Requests
    /\ newest \in Requests \cup {NoRequest} /\ asked \in Queries \cup {NoQuery}
    /\ overtaken \in BOOLEAN /\ swapped \in BOOLEAN
    /\ \A r \in Requests : pc[r] \notin Served => todo[r] = {}

\* No answer shows a post that was deleted before the search was sent, even
\* when the index still holds it: the look-up of its details does not find it
\* (and ends the plugin, search.go:196).
NothingDeletedShown ==
    \A r \in Requests : pc[r] = "answered" => hits[r] \cap before[r] = {}

\* The loader turns only while an answer is to come, whichever requests were
\* answered, failed or given up before it (finally, rhs_view.jsx:70).
LoaderTells == loading => InFlight # {}

\* The sidebar shows the answer to the query sent last, unless that answer is
\* still to come, or came before that of an earlier query.
ShownIsLatest ==
    payload # NoPayload => \/ payload.query = asked
                           \/ newest \in InFlight
                           \/ overtaken

\* The loader does not turn for ever, whatever fails: each search is answered,
\* if only because the plugin it ran in has ended.  A Chroma that hangs is not
\* among the failures: its calls have no timeout (chroma.go:33, 125, 138), and
\* FairSpec has each of them return.
LoaderEnds == loading ~> ~loading

\* Results that were found are displayed, whatever their Result replaced,
\* unless an avatar fails to load or a Result that was already mounted is
\* given them: then isBusy may hide them for ever (Result.tsx:65-82).
ResultsAppear ==
    (Mounted /\ payload.hits # {} /\ ~swapped)
        ~> (~Mounted \/ swapped \/ avatars \in {"loaded", "failed"})
=============================================================================
