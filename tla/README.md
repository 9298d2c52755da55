# mm-semantic-search: a verification development

TLA+ models of the Mattermost semantic search plugin, the TLC runs that check
them, and TLAPS proofs. Line numbers refer to the sources under `src/`; the
Go files are in `src/server/`, the pages in `src/webapp/src/`.

## 1. The system

The plugin copies the posts of a Mattermost server, and the messages of Slack
exports, into a Chroma vector database and searches them. An administrator
drives it from four settings of the system console; a user searches from the
right hand sidebar. Everything is concurrent: each HTTP request runs in a
goroutine of its own, sessions, forwarders, the hub and the poller are
goroutines too, and **no lock protects anything they share**. What survives a
restart is a bolt file, the files on disk and Chroma.

| Component | State | Operations | Hard part | Correct when |
|---|---|---|---|---|
| Sync engine (`syncPosts.go` 142-485, `syncSSE.go` 90-173) | `ticker`, `ctxCancel`, `percentageChan` of each session; stored `is_sync_in_progress`, `is_fetch_in_progress` | start, stop, change the interval; StartSync, StartFetch, StopSync, the forwarder | check-then-act on flag and ticker, deferred clean-up of a refused session, blocking sends, crashes | one session at a time, flags and ticker tell the truth, nothing waits for ever |
| Broker (`syncSSE.go` 15-57, 76-103, 169-206) | `clients`, four unbuffered channels | join, leave, broadcast | rendezvous with clients that are not receiving, closing channels | nothing is sent on a closed channel, nobody waits for ever, clients get every message in order |
| Fetch pipeline (`syncPosts.go` 213-376, 700-795) | accumulated `posts`, page, stored `total_fetched_posts`, `last_fetched_at`, the collection handle | StartFetch page by page, filter, delete, upsert, reset | writes while pages are read, failures and crashes half way, an aliased slice | no text is lost, deleted posts leave the index, a failed fetch leaves no trace in the store, if the store takes its last Put |
| Slack import (`http.go` 221-481, `slack.go`, `UploadSlackExportFileSetting.tsx`) | `Channels`, `FilteredChannels`, `extracted_slack_data`; the page's table | upload, store, the page's choice | handlers overlap on shared maps, the directory is never emptied | what is imported was chosen, done means stored |
| Status feed (`activate_hooks.go`, `http.go` 110-138, 187-202, the reducer, `ToggleSyncSetting.tsx`, `TimeLeftUntilNextFetchSetting.tsx`) | the poller's previous flags; the pages' copies | poll, publish, ask, reload, count down | two reads that are not atomic, answers and events that overtake each other | pages end up showing what the store says |
| Search (`search.go`, `chroma.go`, `http.go` 82-106, `rhs_view.jsx`, `Result.tsx`) | none on the server but the handles a query holds; query, payload, loader and the mounted Result in the sidebar | search, show | answers out of order, hits that are stale, a failure that ends the plugin, a component that is reused | nothing deleted is shown, the loader tells, what is shown answers the last query |
| Fetch interval (`http.go` 140-185, `syncPosts.go` 405-419 and 471-508, `SyncIntervalSetting.tsx`) | `fetch_interval`, the ticker's period, the form | read, update, start | seconds, hours and 64-bit Durations; updates that overlap each other and a session | a session can start, ticker and store agree, the form shows what was saved |
| Data store, Chroma client, plugin frame, build tools | | | | see PROJECT.json; boilerplate or external |

How they interact. A start or stop request joins the **broker** as a client and
then acts on the **sync engine**: a stop cancels the context and stops the
ticker; either request launches a session when the ticker is nil. A session is a
syncer (StartSync, which runs a fetch at once and then at each tick) and a
forwarder, which receives the progress on `percentageChan` and passes it to the
broker, which passes it to every client's handler, which publishes a websocket
event. A fetch runs the **pipeline**. The **poller** reads the two stored flags
and publishes their changes; the console's components combine those events with
answers to their own requests. The **Slack import** shares nothing with the
synchronisation but Chroma and the process: a panic or `log.Fatalf` anywhere ends
them all, and Mattermost starts the plugin again. So does a **search** that
fails; its hits are what the pipeline and the import left in Chroma, looked up
again in Mattermost. The **fetch interval** is set by handlers beside the session
that reads it.

## 2. The modules

| Module | Models | Correspondence |
|---|---|---|
| `SyncEngine` | sync engine | A slot stands for one request and the session it may launch: `hpc`, `spc`, `fpc` are the control points of its handler, syncer and forwarder, with one action between two accesses to shared state. `ticker`, `ctxCancel`, `closed` (channels), `flags` are the program's. `stale` is a history variable: flags left by a dead process or a failed write. |
| `MCSyncEngine` | | Instances of it: which requests arrive, which faults. |
| `SyncEngineProofs` | | Its theorems. |
| `PubSub` | abstract | What a client may expect of the hub: whoever is subscribed when a message is posted receives it, once and in order, before the next is posted. |
| `Broker` | broker | The listener's `select` (`lpc`, `msg`, `todo`), each client's handler `hpc` and closer, the forwarders' pending sends. `log`, `from`, `got` are history. |
| `BrokerProofs` | | Its theorems, and the refinement. |
| `PostFilter` | `deleteAndFilterPost`, `removePost` | Recursive functions on the array under the slice that the range loop walks: skipping, double visits and the panic come out as they do in Go. |
| `PostFilterProofs` | | Recursion and induction over a list, and theorems about what the filter keeps, with no deleted post in the list, one, or any number. |
| `FetchPipeline`, `MCFetchPipeline` | fetch pipeline | The Mattermost server (`at`: when a post was last written; `gone`: deleted), the index, the two stored numbers, and the fetch: read a page, store it, finish or fail. Each Put of `total_fetched_posts` may fail, and its error is ignored. Time counts writes. `intact` and `closed` are history: no post deleted and no reset yet; the Put with which the last fetch returned was taken. |
| `FetchPipelineProofs` | | Its theorems. |
| `SearchFlow`, `MCSearchFlow` | search | Request `r` goes through `pc[r]`: opening the collections, querying one and the other, looking up each hit, answered or failed (`Die`, for every `log.Fatal`). A document is its id; `Distance` says how far it is from a query. `index` and `gone` change at any time, as FetchPipeline shows they do. The sidebar's state is its hooks', and `avatars` the `isBusy` of the Result that is mounted. `before`, `newest`, `asked`, `overtaken`, `swapped` are history. |
| `SearchFlowProofs` | | Its theorems. |
| `FetchInterval`, `MCFetchInterval` | fetch interval | `stored` in seconds, `period` and `dur[r]` as Durations of `2 * Half` values with `Unit` to a second, the form in hours and minutes. The answer of a GET ends the loading, and its body comes later (`get`, `answer`). An update stands at `check`, `reset` or `put` between its accesses; the session at `read` between reading the interval and making the ticker. `late` (the form was saved while a body was awaited), `filled`, `sent`, `last`, `wrapped`, `mixed`, `apart` are history. |
| `FetchIntervalProofs` | | Its theorems. |
| `SlackImport`, `MCSlackImport` | Slack import | Files of one channel and one day, whole or `Torn`; an upload that unzips and is answered in steps (`reading`: the answers under way); `known`, the channels in memory, which a decode fills one at a time; handlers `import[r]` that walk the shared map key by key and its files in any order, passing over those they cannot read; the page's `table`, what it shows of it (`shown`) and `done`. `picked` (what the saved selections covered), `alone` and `muddled` (two decodes met) are history. |
| `SlackImportProofs` | | Its theorems. |
| `StatusFeed` | status feed | The poller between its two reads, events and answers on their way, the copies of both components. A failing read is answered `false`; a timer whose request failed may have `stopped` counting. `misled`, `fresh`, `crashed` are history. |
| `StatusFeedProofs` | | Its theorems. |

Definitions called `...` with a comment "Mutant:" are plausible mistakes of an
action; no specification uses them. They are there to show that a property
notices the mistake.

### What the models take from outside

* A panic nobody recovers ends the plugin process, after the deferred calls of
  its own goroutine (`panicking`); Mattermost starts the plugin again.
* A request's context may never be done. `PublishWebSocketEvent` returns, and a
  browser gets the events in the order they were published.
* A full listing of a channel has its live posts; one with `since` has the posts
  written, edited or deleted strictly after it; both newest first, by page number.
  No post is written in the very millisecond a fetch starts.
* An upsert of a list with a repeated id keeps the last. Each `Get` and `Put` of
  the store is atomic, and may fail where `Faults` says so.
* A Go map is ranged over in any order; writing it at the same time may end the
  process. `select` takes any case that is ready.
* React runs the effects of an event or an answer before the next is handled.
* A collection answers a query with the `n_results` documents nearest to it. A
  handle of a collection that was reset is refused. Mattermost does not find a
  post that was deleted, and answers a request forwarded to a plugin that ends.
* A component that throws while it renders takes the sidebar's with it, until it
  is opened again. The answers of requests made by a component that is gone change
  nothing.
* A Slack channel's id and name are one here (a decode gives it both at once), a daily
  file has at least one message to store, and every archive has a `channels.json`. A
  `channels.json` or a daily file that was cut short does not decode.

## 3. The runs

| Run | Question and answer | Bounds |
|---|---|---|
| `engine_races` | With start and stop requests at any time, panics and a kill: is every raised flag, and a ticker that is not nil, never forgotten: is a session under way that has still to take it down, unless one is wedged on `percentageChan`, the process died or a write failed (`OwnedFlags`, `OwnedTicker`)? Is a closed channel never used (`ChannelDiscipline`)? Does a cancelled session end, or else block for good on a send to the forwarder that has returned, with no third way (`StopsOrWedges`)? Do repeated start requests lower the flags of a dead process (`StaleFlagsHeal`)? Yes. | 2 slots, 1 page, 1 fault |
| `engine_serial` | When requests come only while the plugin is steady: one session at a time (`Exclusive`), no nil ticker under the loop (`TickerStays`), truthful flags (`FlagsTell`)? Yes, with changes of the interval and failing writes too. | 3 slots, 1 page, 2 faults |
| `engine_single_sync` | *violation* of `SingleSync`: two overlapping start requests run two sessions. | 2 slots |
| `engine_enabled` | *violation* of `EnabledFetches`: a stop during a fetch can leave the sync shown as enabled with no fetch ever again. | 2 slots, 1 page |
| `broker` | Closed channels are not used (`OpenWhenUsed`), no offer and no leaving client waits for ever (`OffersTaken`, `HangupEnds`), and the hub implements `PubSub` with its fairness (`LockStep`). | 2 clients, 2 forwarders, 2 messages |
| `fetch` | Is every text written up to `last_fetched_at` in the index in its last version (`Complete`), and does a failed fetch restore `total_fetched_posts` if the store takes its last Put (`FailureUndone`)? Yes, through failures, also of the store, crashes and concurrent writes. | 3 posts, one of them without text, 2 channels, pages of 1, 4 points of time, edits of texts (`Edits`) |
| `fetch_deleted` | *violation* of `DeletedGone`: of two adjacent deleted posts the second stays in the index. | 3 posts, 5 points of time |
| `slack` | Is only imported what some saved selection covered (`OnlyPicked`)? Are all the files that decode, of the channels and times the request gave, stored when `on_done` is sent, unless another upload or a request with other choices came meanwhile, or a file could not be read (`DoneMeansStored`)? Is a request dropped silently only over a channel it did not name, unless another export was uploaded or two saves meet while the channels are decoded (`DroppedOverOthers`)? Yes. | 2 exports, 2 channels, 2 days, 2 uploads, 2 saves, 1 crash, together 4 (`MaxEvents`); one date to choose, from day 2 |
| `slack_export` | *violation* of `OnlyThisExport`: files of an earlier export are imported with a later one. | the same exports, 2 uploads, 2 saves one after the other; choices of dates that start, end or do neither |
| `search` | Is nothing shown that was deleted before the search (`NothingDeletedShown`)? Does the loader turn only while an answer is to come, and not for ever (`LoaderTells`, `LoaderEnds`), if Chroma answers or fails and does not hang? Is the answer shown that of the query sent last, unless it was overtaken (`ShownIsLatest`)? Are hits displayed once their avatars are there, unless their Result was mounted for another answer (`ResultsAppear`)? Yes. | 1 post, 1 Slack message, 2 queries, 2 searches in flight |
| `interval` | Is the stored interval positive, unless a Duration wrapped (`StartsUnlessWrapped`)? Do ticker and store agree after what ran alone (`TickerAsStored`)? Does a page show what it saved (`ShowsSaved`), unless it was saved while the body of a GET was awaited, which then overwrites the form? Yes. | 2 updates at a time; Durations of 19 bits, 3 units to a second, intervals of 15 s, 59 min, 23 h, 23 h 59 min and four that no form sends |
| `status` | Does a page open all the time end up with the store's flags (`StatusFollows`), the switch of a page opened meanwhile (`SwitchFollows`, with the exceptions `misled` names: its request failed, was answered `false` because the store did, or was overtaken, the flag changed back unseen, the plugin died), and a countdown that has not stopped over a failed request with the last fetch (`TimerFollows`)? Yes. | 2 changes, 1 fetch, 1 fault, 1 reload, 1 request in flight |

Why the bounds are enough. Two sessions suffice for every race of the engine
(check-then-act, clean-up under another, a stop that launches); the third slot of
`engine_serial` lets a stop and a start follow each other while an old forwarder
is still there. One page is one progress send before the last send. Two clients
and two forwarders let one be slow while another leaves, and one be passed over
for the other. Pages of one post and three posts let pages shift by one and repeat
a post (`Edits` leaves out only that the post without text is written again); two channels let a fetch fail after one of them was stored. Two
exports with a channel in common, and two overlapping saves, are what it takes to
mix specifications and files; `MaxEvents` leaves out only that uploads, saves and crashes
all reach their bounds, and one choice of dates
makes a selection that covers part of a channel; the other choices are in
`slack_export` and in the theorems. Two searches let one answer overtake the other; each
query finds a document of its own, so that answers differ, and with one result to a
collection a hit can be pushed out of it. In `interval` a second has three units
and a Duration 19 bits, so that all the form can send fits, as in the code, and one
request wraps to less than a second and another to 23 hours; the theorems are for
any width. In `status` two changes are a flag raised and
lowered again between two polls. Bounds that cap counters: `MaxPages`,
`MaxFaults`, `MaxMessages`, `MaxTime`, `Edits`, `MaxUploads`, `MaxSaves`, `MaxCrashes`,
`MaxFlips`, `MaxFetches`, `MaxAsks`, `MaxReloads`, `MaxEvents`; `Requests` bounds what is in
flight in `search` and `interval`. Symmetry is used in runs
without liveness (slots; the import handlers; updates of the interval). Deadlock is
not checked where a model may come to rest, because requests stop coming or a
bound is reached.

Fairness. Goroutines that can move do (weak); a case of a `select` that is ready
again and again is taken (strong), since Go picks among ready cases at random;
tickers tick, the server restarts the plugin, events and answers arrive. Requests
need not come; `StaleFlagsHeal` is about an administrator who tries again, and says
so in its premise (`Retried`). In `search` goroutines run, answers and avatars
arrive and the plugin is restarted, while a service may fail each time: every failure ends
a request with the plugin, so that the loader stops all the same. Not so if Chroma
neither answers nor fails: its calls have no timeout (`chroma.go:33`, 125, 138), and that
they return is assumed. In `status` a countdown asks again when it reaches zero, unless
it has stopped.
Nothing is assumed of a context being done.

### Where the code and what it says differ

1. `SingleSync`: `syncPosts.go:412` "set syncing to true so no other sync can
   start" (flag read at 398, raised at 413).
2. `EnabledFetches`: `plugin.json:37` "If enabled, the plugin will fetch new
   messages every 'fetch interval'" (send without alternative at 361).
3. `DeletedGone`: `syncPosts.go:697` "Deletes posts that have been deleted from
   mattermost from chroma database" (array shifted under the range loop, 713, 731).
4. `OnlyThisExport`: `plugin.json:53` "choose the channels that will be imported"
   (directory read at `http.go:374`, never emptied).

## 4. The proofs

`SyncEngineProofs` shows, for any set of slots and any bounds:

* `TypeCorrect`, the type invariant.
* From `OwnInv`, `FlagsOwned`, `TickerOwned` and `ChannelsClosedOnce` under any
  interleaving: not that a flag or the ticker comes down, which a wedged session
  prevents, but that nobody else forgets it. The properties are not inductive alone: that the flag is owned
  depends on which control points a session with a closed channel can be at,
  and that the ticker is owned on the session between raising the flag and
  creating the ticker; `OwnInv` adds what each control point implies.
* From `SerialInv`, under the assumption `Serial`, `SessionsExclusive`,
  `TickerStaysUp` and `FlagsTruthful`. The strengthening says that at most one
  handler is busy, that it is busy only while no session starts or ends, and
  that a nil ticker at `launch` means no session.

`BrokerProofs` shows `BusInvariant`, `TypeCorrect` and `NoClosedSend` from it, and
`BrokerImplementsPubSub`: initial states map to initial states and each step to
a step of `PubSub` or a stutter, for any clients, forwarders and messages. The
invariant says who has received what while a broadcast is under way (`todo`).

`PostFilterProofs` is about a loop over a list of any length, so it needs an
induction over data. The library's induction theorems take a predicate as a
parameter, which the provers cannot instantiate; a set in its place can be, and the
least element of a set of numbers comes from the library's theorem that `<` is
well-founded (`Least`, from it `UpTo`). `Recursion` then gives a recursive function
its solution, without which nothing is known of it. On this rest `FilteringRuns`
(whatever the deletions do to the array, it and what is kept hold posts of the list;
what is kept is live texts, what is deleted is deleted posts), `FilteringKeeps` (with
no deleted post nothing is lost) and `OneDeletion` (with one, the text right behind
it at most, and nothing panics).

`FetchPipelineProofs` shows, for any posts, channels and page size:

* `FailuresUndone` (of a fetch whose last Put is taken, whichever failed before) and
  `LastFetchedGrows`. A step of a fetch that ends it does
  either of two things, and what tells them apart is `last_fetched_at`; so both need
  `ClockInv`, which orders `last_fetched_at`, the start of the fetch under way and
  the clock strictly.
* `TypeCorrect`, from `DataInv`, which adds that a channel lists the posts written in
  it, each of them (`OrderInv`): without it what a page holds is not known to be posts
  that were written.
* `NothingLost`, the property the pipeline exists for, from `IntactInv`. While no post
  is deleted and the index not reset, each text that was written when the fetch
  started is settled, in a channel still to come, or in the current one among what was
  read or listed below the pages that were read (`Accounted`). That pages are counted
  from the top while users write does no harm because writing moves a listing down,
  never up (`ListingGrows`, by `AmongMore` and `AmongHead`); a post may be read twice,
  and the copies are of what it is, or of a post written since (`Copies`), which the
  next fetch brings. Where a channel begins, a text that is not in its listing was
  brought by an earlier fetch (`ChannelBegins`).
* What holds with deletions, from `KnownInv`: `OnlyTextsIndexed`, `DeletesOnlyDeleted`
  and `PanicsOnlyOverDeleted`. The errors of the filter are omissions and a panic,
  never a wrong document or a wrong deletion.

`SlackImportProofs` shows `TypeCorrect`, `OnlyWhatWasPicked`, `DoneIsStored` and
`OwnChannelsFound`, for any exports, selections and number of overlapping requests. What a file loop stores depends on
the specification it took from the shared map, that on the requests merged into
the map, and those on what the page makes of two dates: `PickedInv` says of each
of these places that the days it admits were picked, and `SpecOfMeant` that the
page's arithmetic with dates admits no day beyond them. For `DoneIsStored`,
`ProgressInv` says that a run nobody interfered with finds its own specifications
in the shared map and has stored what it was asked of the channels it has seen, but
for the files it has still to reach, and for torn ones. For `OwnChannelsFound`, the
part `OneListing` of `OneUploadInv` says that up to a second upload the page, the
memory and the requests know of one listing only, of which the memory has all or
nothing unless it is being decoded, or two decodes met; and `Started` that a loop over
the channels began because there were some.

`SearchFlowProofs` shows `TypeCorrect`, `NoDeletedShown`, `LoaderTold` and
`LatestShown`, for any documents and distances and any number of searches.
`SearchInv` adds that a hit deleted before its search is still to be looked up
(`LookUps`), and such a look-up only ends with the plugin; that a sidebar which
threw shows no loader, and only a request under way is an orphan (`Waiting`); and
that the request sent last carries the query sent last (`Newest`).

`FetchIntervalProofs` shows `TypeCorrect`, `StartsOrWrapped`, `TickerAgrees` and
`SavedIsShown`, for Durations of any width. First the arithmetic: what becomes of
seconds in a Duration and back, and that what the form sends, which may join an
hour answered by the server to a minute typed, wraps at most once, and then below zero
(`WrappedOnce`). `IntervalInv` then says that an accepted Duration is whole
seconds (`WholeSeconds`), that ticker and store differ only while an update is
between the two, and that whoever overlaps nobody has both to itself (`Agreeing`),
and follows the form's request, and the body of a GET that no save overtook, to the
store (`Followed`).

`StatusFeedProofs` shows `TypeCorrect`, whose part that is not a type counts the
calls asked and the answers on their way together, and the safety halves of
`StatusFollows` and `SwitchFollows`: `PageHasPublished` and `SwitchAgrees` say what
the page shows once nothing is on its way, and that something gets there is left to
TLC. `FeedInv` says that the last event on its way is what the poller remembers, and
that a view that was not misled knows what the poller remembers, or what it is
about to compare with that, or a flag it has still to read (`Knows`); an answer that a failing store made `false`
is one that misleads.

The assumptions are the named ASSUMEs of the modules: that bounds are numbers, there is
a channel (every Mattermost team has one) and each post is in one, names of different
kinds differ, documents are finitely many and no two are equally far from a query, and
what the form can send fits a Duration (`FormFits`).

Only model-checked: everything under fairness (`StopsOrWedges`, `StaleFlagsHeal`,
`OffersTaken`, `HangupEnds`, the liveness half of `LockStep`, the three of
`StatusFeed`, `LoaderEnds`, `ResultsAppear`), because the prover does not reach
ENABLED; and that the counterexamples exist.

## 5. Not modelled

The percentage of a fetch, the countdown's arithmetic and the progress events are
numbers the pages show and nothing else depends on. `getUserChannels` and
`getLLMResponse` are stubs: no search is restricted to channels. The order, score and
text of hits, and what the console's messages say and for how long, are left out.
The configuration and the plugin's frame are boilerplate without state; the
authentication middleware is not installed; the build tools do not run in the
plugin; profiles, logging and styles have no bearing on the properties.
Bolt, Chroma, the Mattermost API, the Go runtime, React and the browser are
external and modelled as section 2 says.

## 6. Plan

Order: first what runs unattended and shares state, then what a user triggers.

1. Done: `SyncEngine`, `Broker` over `PubSub`, `FetchPipeline` over `PostFilter`
   `SlackImport`, `StatusFeed`, `SearchFlow`,
   `FetchInterval`, the proofs of section 4.
2. `SyncService`: `SyncEngine` and `Broker` put together through the forwarder's
   hand-over, refining each of them; today each stands for the other by a step
   of its own (`Offer`, `Relay`).
3. The access label documents are stored with, and the property that it is that of the
   post's own channel, which storing again the posts of all channels (`syncPosts.go:292`)
   is likely to break: today the label is left out, as nothing else depends on it.
