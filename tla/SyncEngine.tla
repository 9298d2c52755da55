----------------------------- MODULE SyncEngine -----------------------------
(***************************************************************************)
(* The control of the post synchronisation: the HTTP handlers that start   *)
(* and stop it (Broker.ServeHTTP) or change its interval                   *)
(* (UpdateFetchInterval), the goroutine that runs StartSync / StartFetch / *)
(* StopSync (the syncer) and the goroutine that forwards its progress (the *)
(* forwarder).  They share, without any lock, the ticker and ctxCancel,    *)
(* and two flags in the bolt store, the only state a dead process leaves.  *)
(*                                                                         *)
(* A slot r stands for one HTTP request together with the session it may   *)
(* launch: handler hpc[r], syncer spc[r], forwarder fpc[r].  A slot is     *)
(* used again once all three have ended.  What a fetch does to the posts   *)
(* is in FetchPipeline, who receives what the forwarder relays in Broker.  *)
(***************************************************************************)
EXTENDS Naturals

CONSTANTS
    Slots,      \* requests in flight, and the sessions they launch
    NoSlot,     \* ctxCancel before any session was launched
    MaxPages,   \* bound: pages of posts one fetch reads
    Paths,      \* the requests that arrive: "start", "stop", "interval"
    Faults,     \* what may go wrong: "crash", "panic", "store"
    MaxFaults,  \* bound: how many times something goes wrong
    Serial      \* TRUE: a request arrives only when the plugin is steady

ASSUME SlotsAssumption == NoSlot \notin Slots
ASSUME BoundsAssumption == MaxPages \in Nat /\ MaxFaults \in Nat
ASSUME WorkloadAssumption == /\ Paths \subseteq {"start", "stop", "interval"}
                             /\ Faults \subseteq {"crash", "panic", "store"}
                             /\ Serial \in BOOLEAN

VARIABLES
    up,         \* the plugin process is alive
    flags,      \* the flags stored as true: "sync", "fetch"
    stale,      \* history: those no live session has vouched to lower
    ticker,     \* Sync.ticker: "nil", "running" or "stopped"
    tick,       \* a tick waits in the ticker's channel
    ctxCancel,  \* Broker.ctxCancel: the session it cancels
    cancelled,  \* sessions whose context is done
    closed,     \* sessions whose percentageChan is closed
    path, hpc,  \* the handler: its request path and control point
    spc,        \* the syncer's control point
    ran,        \* alreadyRun
    pages,      \* pages the current fetch has still to read
    fpc,        \* the forwarder's control point
    panicking,  \* sessions whose syncer unwinds a panic
    faults      \* faults left

store == <<flags, stale>>
shared == <<ticker, tick, ctxCancel>>
handler == <<path, hpc>>
syncer == <<spc, ran, pages, panicking>>
channels == <<cancelled, closed>>
vars == <<up, store, shared, channels, handler, syncer, fpc, faults>>

HandlerPoints == {"idle", "cancel", "stopTicker", "check", "launch",
                  "ivCheck", "ivReset", "ivPut"}
\* From claiming the fetch flag to the deferred stopFetch.
FetchPoints == {"fetching", "sendProgress", "sendDone",
                "stopFetchOk", "stopFetchErr"}
\* The loop of StartSync, the fetch it calls included.
LoopPoints == {"loop", "startFetch", "claimFetch"} \cup FetchPoints
\* After StartSync claimed the sync flag, up to the flag being lowered.
SyncPoints == {"newTicker", "exitSync"} \cup LoopPoints
SyncerPoints == SyncPoints \cup
                {"none", "start", "claimSync", "stopSync", "setTickerNil"}
ForwarderPoints == {"none", "select", "relay", "relayStop"}

Init == /\ up = TRUE
        /\ flags = {} /\ stale = {}
        /\ ticker = "nil" /\ tick = FALSE
        /\ ctxCancel = NoSlot
        /\ cancelled = {} /\ closed = {}
        /\ path = [r \in Slots |-> "none"]
        /\ hpc = [r \in Slots |-> "idle"]
        /\ spc = [r \in Slots |-> "none"]
        /\ ran = [r \in Slots |-> FALSE]
        /\ pages = [r \in Slots |-> 0]
        /\ fpc = [r \in Slots |-> "none"]
        /\ panicking = {}
        /\ faults = MaxFaults

-----------------------------------------------------------------------------
\* Process death and restart (external: the Mattermost server)

\* One of the kinds of fault the instance admits happens.
Fault(kind) == kind \in Faults /\ faults > 0 /\ faults' = faults - 1

\* An unrecovered panic or a kill: everything but the store is lost.
Volatile == /\ ticker' = "nil" /\ tick' = FALSE
            /\ ctxCancel' = NoSlot
            /\ cancelled' = {} /\ closed' = {}
            /\ path' = [r \in Slots |-> "none"]
            /\ hpc' = [r \in Slots |-> "idle"]
            /\ spc' = [r \in Slots |-> "none"]
            /\ ran' = [r \in Slots |-> FALSE]
            /\ pages' = [r \in Slots |-> 0]
            /\ fpc' = [r \in Slots |-> "none"]
            /\ panicking' = {}

Die == /\ up' = FALSE
       /\ stale' = flags
       /\ UNCHANGED flags
       /\ Volatile

Crash == up /\ Fault("crash") /\ Die

\* OnActivate: initializeStore leaves the flags a former process stored.
Restart == /\ ~up
           /\ up' = TRUE
           /\ UNCHANGED <<store, shared, channels, handler, syncer, fpc, faults>>

-----------------------------------------------------------------------------
\* The flags in the store

Raise(f) == flags' = flags \cup {f} /\ stale' = stale \ {f}

\* The writes that lower a flag, the failing ones included: setIsSync-
\* InProgress(false) and setIsFetchInProgress(false), result ignored.
Lowered(f) == flags' = flags \ {f} /\ stale' = stale \ {f} /\ UNCHANGED faults
LowerFails(f) == /\ Fault("store")
                 /\ stale' = stale \cup (flags \cap {f})
                 /\ UNCHANGED flags

\* Reading a flag: a failing read is taken for "false".
ReadsFalse(f) == \/ f \notin flags /\ UNCHANGED faults
                 \/ f \in flags /\ Fault("store")

-----------------------------------------------------------------------------
\* The handlers

\* No request is being handled, no session is starting up or ending.
Steady == \A r \in Slots : hpc[r] = "idle" /\ spc[r] \in {"none"} \cup LoopPoints

\* A forwarder that waits for a syncer that ended and that nobody can cancel
\* any more waits forever: its slot can be used again.
Leaked(r) == fpc[r] = "select" /\ ctxCancel # r /\ r \notin cancelled \cup closed

\* Where the handler of each request starts.
Entry == [start |-> "check", stop |-> "cancel", interval |-> "ivCheck"]

Begin(r, p) ==
    /\ up
    /\ hpc[r] = "idle" /\ spc[r] = "none" /\ (fpc[r] = "none" \/ Leaked(r))
    /\ Serial => Steady
    /\ path' = [path EXCEPT ![r] = p]
    /\ hpc' = [hpc EXCEPT ![r] = Entry[p]]
    /\ UNCHANGED <<up, store, shared, channels, syncer, fpc, faults>>

Goto(r, pc) == hpc' = [hpc EXCEPT ![r] = pc] /\ UNCHANGED path
Return(r) == /\ hpc' = [hpc EXCEPT ![r] = "idle"]
             /\ path' = [path EXCEPT ![r] = "none"]

\* b.ctxCancel(): a nil function panics before the first launch.
CtxCancel(r) ==
    /\ hpc[r] = "cancel"
    /\ \/ ctxCancel = NoSlot /\ Die /\ UNCHANGED faults
       \/ /\ ctxCancel # NoSlot
          /\ cancelled' = cancelled \cup {ctxCancel}
          /\ Goto(r, "stopTicker")
          /\ UNCHANGED <<up, store, shared, closed, syncer, fpc, faults>>

\* Mutant: the stop request lowers the flag itself.
StopTickerLowers(r) ==
    /\ hpc[r] = "stopTicker" /\ ticker # "nil"
    /\ ticker' = "stopped"
    /\ flags' = flags \ {"sync"} /\ stale' = stale \ {"sync"}
    /\ Goto(r, "check")
    /\ UNCHANGED <<up, tick, ctxCancel, channels, syncer, fpc, faults>>

\* Mutant: StopTicker sets the ticker to nil as well.
StopTickerNils(r) ==
    /\ hpc[r] = "stopTicker" /\ ticker # "nil"
    /\ ticker' = "nil"
    /\ Goto(r, "check")
    /\ UNCHANGED <<up, store, tick, ctxCancel, channels, syncer, fpc, faults>>

\* b.mmSync.StopTicker(): a nil ticker panics; a tick already sent stays.
StopTicker(r) ==
    /\ hpc[r] = "stopTicker"
    /\ \/ ticker = "nil" /\ Die /\ UNCHANGED faults
       \/ /\ ticker # "nil"
          /\ ticker' = "stopped"
          /\ Goto(r, "check")
          /\ UNCHANGED <<up, store, tick, ctxCancel, channels, syncer, fpc, faults>>

\* Mutant: the handler launches without looking at the ticker.
CheckTickerIgnored(r) ==
    /\ hpc[r] = "check"
    /\ Goto(r, "launch")
    /\ UNCHANGED <<up, store, shared, channels, syncer, fpc, faults>>

\* IsTickerNil, of a stop request too: it decides whether to launch.
CheckTicker(r) ==
    /\ hpc[r] = "check"
    /\ IF ticker = "nil" THEN Goto(r, "launch") ELSE Return(r)
    /\ UNCHANGED <<up, store, shared, channels, syncer, fpc, faults>>

Launch(r) ==
    /\ hpc[r] = "launch"
    /\ Return(r)
    /\ ctxCancel' = r
    /\ cancelled' = cancelled \ {r} /\ closed' = closed \ {r}
    /\ spc' = [spc EXCEPT ![r] = "start"]
    /\ ran' = [ran EXCEPT ![r] = FALSE]
    /\ fpc' = [fpc EXCEPT ![r] = "select"]
    /\ UNCHANGED <<up, store, ticker, tick, pages, panicking, faults>>

\* UpdateFetchInterval: the nil check, the Reset it guards, the Put.
IvCheck(r) ==
    /\ hpc[r] = "ivCheck"
    /\ Goto(r, IF ticker = "nil" THEN "ivPut" ELSE "ivReset")
    /\ UNCHANGED <<up, store, shared, channels, syncer, fpc, faults>>

IvReset(r) ==
    /\ hpc[r] = "ivReset"
    /\ \/ ticker = "nil" /\ Die /\ UNCHANGED faults
       \/ /\ ticker # "nil"
          /\ ticker' = "running"
          /\ Goto(r, "ivPut")
          /\ UNCHANGED <<up, store, tick, ctxCancel, channels, syncer, fpc, faults>>

IvPut(r) ==
    /\ hpc[r] = "ivPut"
    /\ Return(r)
    /\ UNCHANGED <<up, store, shared, channels, syncer, fpc, faults>>

Handle(r) == \/ CtxCancel(r) \/ StopTicker(r) \/ CheckTicker(r) \/ Launch(r)
             \/ IvCheck(r) \/ IvReset(r) \/ IvPut(r)

-----------------------------------------------------------------------------
\* The syncer: StartSync under a deferred StopSync

Step(r, pc) == spc' = [spc EXCEPT ![r] = pc]

\* A panic runs the deferred calls first: both flags are lowered.
Panic(r) == panicking' = panicking \cup {r} /\ Step(r, "exitSync")

\* Mutant: a refused StartSync returns without the deferred StopSync.
CheckSyncUndeferred(r) ==
    /\ spc[r] = "start"
    /\ \/ "sync" \in flags /\ Step(r, "none") /\ UNCHANGED faults
       \/ ReadsFalse("sync") /\ Step(r, "claimSync")
    /\ UNCHANGED <<up, store, shared, channels, handler, ran, pages, panicking, fpc>>

CheckSync(r) ==
    /\ spc[r] = "start"
    /\ \/ "sync" \in flags /\ Step(r, "stopSync") /\ UNCHANGED faults
       \/ ReadsFalse("sync") /\ Step(r, "claimSync")
    /\ UNCHANGED <<up, store, shared, channels, handler, ran, pages, panicking, fpc>>

\* setIsSyncInProgress(true); it or the interval read before it may fail.
ClaimSync(r) ==
    /\ spc[r] = "claimSync"
    /\ \/ Raise("sync") /\ Step(r, "newTicker") /\ UNCHANGED faults
       \/ Fault("store") /\ Step(r, "stopSync") /\ UNCHANGED store
    /\ UNCHANGED <<up, shared, channels, handler, ran, pages, panicking, fpc>>

NewTicker(r) ==
    /\ spc[r] = "newTicker"
    /\ ticker' = "running" /\ tick' = FALSE
    /\ Step(r, "loop")
    /\ UNCHANGED <<up, store, ctxCancel, channels, handler, ran, pages,
                   panicking, fpc, faults>>

\* The select: its operand sync.ticker.C panics when the ticker is nil.
LoopPanics(r) ==
    /\ spc[r] = "loop" /\ ticker = "nil"
    /\ Panic(r)
    /\ UNCHANGED <<up, store, shared, channels, handler, ran, pages, fpc, faults>>

\* Mutant: a break leaves the select, not the loop.
LoopInterruptedBreaks(r) ==
    /\ spc[r] = "loop" /\ ticker # "nil" /\ r \in cancelled
    /\ UNCHANGED vars

LoopInterrupted(r) ==
    /\ spc[r] = "loop" /\ ticker # "nil" /\ r \in cancelled
    /\ Step(r, "exitSync")
    /\ UNCHANGED <<up, store, shared, channels, handler, ran, pages,
                   panicking, fpc, faults>>

LoopTick(r) ==
    /\ spc[r] = "loop" /\ ticker # "nil" /\ tick
    /\ tick' = FALSE
    /\ Step(r, "startFetch")
    /\ UNCHANGED <<up, store, ticker, ctxCancel, channels, handler, ran, pages,
                   panicking, fpc, faults>>

\* time.After(0); later rounds only sleep, which changes nothing.
LoopImmediately(r) ==
    /\ spc[r] = "loop" /\ ticker # "nil" /\ ~ran[r]
    /\ ran' = [ran EXCEPT ![r] = TRUE]
    /\ Step(r, "startFetch")
    /\ UNCHANGED <<up, store, shared, channels, handler, pages, panicking,
                   fpc, faults>>

CheckFetch(r) ==
    /\ spc[r] = "startFetch"
    /\ \/ "fetch" \in flags /\ Step(r, "exitSync") /\ UNCHANGED faults
       \/ ReadsFalse("fetch") /\ Step(r, "claimFetch")
    /\ UNCHANGED <<up, store, shared, channels, handler, ran, pages, panicking, fpc>>

ClaimFetch(r) ==
    /\ spc[r] = "claimFetch"
    /\ \/ /\ Raise("fetch") /\ Step(r, "fetching") /\ UNCHANGED faults
          /\ \E n \in 0..MaxPages : pages' = [pages EXCEPT ![r] = n]
       \/ Fault("store") /\ Step(r, "exitSync") /\ UNCHANGED <<store, pages>>
    /\ UNCHANGED <<up, shared, channels, handler, ran, panicking, fpc>>

\* Reading or storing a page fails: an error return, or a panic below it.
FetchFails(r) ==
    /\ spc[r] = "fetching"
    /\ pages' = [pages EXCEPT ![r] = 0]
    /\ Step(r, "stopFetchErr")
    /\ \/ UNCHANGED <<panicking, faults>>
       \/ Fault("panic") /\ panicking' = panicking \cup {r}
    /\ UNCHANGED <<up, store, shared, channels, handler, ran, fpc>>

\* Mutant: the interrupted fetch closes the channel and does not return.
FetchPageGoesOn(r) ==
    /\ spc[r] = "fetching" /\ pages[r] > 0
    /\ pages' = [pages EXCEPT ![r] = @ - 1]
    /\ \/ UNCHANGED closed
       \/ r \in cancelled /\ closed' = closed \cup {r}
    /\ UNCHANGED <<up, store, shared, cancelled, handler, spc, ran, panicking,
                   fpc, faults>>

\* Mutant: a page is read after the last one.
FetchPageOnceMore(r) ==
    /\ spc[r] = "fetching"
    /\ pages' = [pages EXCEPT ![r] = @ - 1]
    /\ UNCHANGED <<up, store, shared, channels, handler, spc, ran, panicking,
                   fpc, faults>>

\* A page is stored.  Only when its channel has more is the context looked at.
FetchPage(r) ==
    /\ spc[r] = "fetching" /\ pages[r] > 0
    /\ \/ /\ pages' = [pages EXCEPT ![r] = @ - 1]
          /\ UNCHANGED <<spc, closed>>
       \/ /\ r \notin cancelled
          /\ pages' = [pages EXCEPT ![r] = @ - 1]
          /\ Step(r, "sendProgress")
          /\ UNCHANGED closed
       \/ /\ r \in cancelled
          /\ pages' = [pages EXCEPT ![r] = 0]
          /\ closed' = closed \cup {r}
          /\ Step(r, "stopFetchErr")
    /\ UNCHANGED <<up, store, shared, cancelled, handler, ran, panicking,
                   fpc, faults>>

FetchEnds(r) ==
    /\ spc[r] = "fetching" /\ pages[r] = 0
    /\ Step(r, "sendDone")
    /\ UNCHANGED <<up, store, shared, channels, handler, ran, pages,
                   panicking, fpc, faults>>

\* percentageChan is unbuffered: the send waits for the forwarder's select.
Send(r) ==
    /\ fpc[r] = "select"
    /\ \/ spc[r] = "sendProgress" /\ Step(r, "fetching")
       \/ spc[r] = "sendDone" /\ Step(r, "stopFetchOk")
    /\ fpc' = [fpc EXCEPT ![r] = "relay"]
    /\ UNCHANGED <<up, store, shared, channels, handler, ran, pages,
                   panicking, faults>>

\* Mutant: StartFetch does not defer stopFetch.
StopFetchForgotten(r) ==
    /\ spc[r] \in {"stopFetchOk", "stopFetchErr"}
    /\ Step(r, IF spc[r] = "stopFetchOk" THEN "loop" ELSE "exitSync")
    /\ UNCHANGED <<up, store, shared, channels, handler, ran, pages, panicking,
                   fpc, faults>>

\* The deferred stopFetch of StartFetch, of StartSync, then StopSync.
StopFetch(r) ==
    /\ spc[r] \in {"stopFetchOk", "stopFetchErr"}
    /\ \/ Lowered("fetch") \/ LowerFails("fetch")
    /\ Step(r, IF spc[r] = "stopFetchOk" THEN "loop" ELSE "exitSync")
    /\ UNCHANGED <<up, shared, channels, handler, ran, pages, panicking, fpc>>

ExitSync(r) ==
    /\ spc[r] = "exitSync"
    /\ \/ Lowered("fetch") \/ LowerFails("fetch")
    /\ Step(r, "stopSync")
    /\ UNCHANGED <<up, shared, channels, handler, ran, pages, panicking, fpc>>

\* The syncer's goroutine ends, or takes the process down with its panic.
End(r) == IF r \in panicking
          THEN up' = FALSE /\ Volatile
          ELSE /\ Step(r, "none")
               /\ ran' = [ran EXCEPT ![r] = FALSE]
               /\ UNCHANGED <<up, tick, ctxCancel, channels, handler, pages,
                              panicking, fpc>>

\* When the Put fails StopSync returns before it defers SetTickerNil.
StopSync(r) ==
    /\ spc[r] = "stopSync"
    /\ \/ /\ Lowered("sync")
          /\ Step(r, "setTickerNil")
          /\ UNCHANGED <<up, shared, channels, handler, ran, pages, panicking, fpc>>
       \/ /\ Fault("store") /\ UNCHANGED flags
          /\ stale' = IF r \in panicking THEN flags ELSE stale \cup (flags \cap {"sync"})
          /\ End(r)
          /\ r \notin panicking => UNCHANGED ticker

\* Mutant: SetTickerNil only stops the ticker.
SetTickerStopped(r) ==
    /\ spc[r] = "setTickerNil"
    /\ ticker' = IF ticker = "nil" THEN "nil" ELSE "stopped"
    /\ stale' = IF r \in panicking THEN flags ELSE stale
    /\ End(r)
    /\ UNCHANGED <<flags, faults>>

SetTickerNil(r) ==
    /\ spc[r] = "setTickerNil"
    /\ ticker' = "nil"
    /\ stale' = IF r \in panicking THEN flags ELSE stale
    /\ End(r)
    /\ UNCHANGED <<flags, faults>>

Sync(r) == \/ CheckSync(r) \/ ClaimSync(r) \/ NewTicker(r)
           \/ LoopPanics(r) \/ LoopInterrupted(r) \/ LoopTick(r) \/ LoopImmediately(r)
           \/ CheckFetch(r) \/ ClaimFetch(r)
           \/ FetchFails(r) \/ FetchPage(r) \/ FetchEnds(r) \/ Send(r)
           \/ StopFetch(r) \/ ExitSync(r) \/ StopSync(r) \/ SetTickerNil(r)

-----------------------------------------------------------------------------
\* The forwarder

ForwarderStops(r) ==
    /\ fpc[r] = "select" /\ r \in cancelled
    /\ fpc' = [fpc EXCEPT ![r] = "relayStop"]
    /\ UNCHANGED <<up, store, shared, channels, handler, syncer, faults>>

ForwarderCloses(r) ==
    /\ fpc[r] = "select" /\ r \in closed
    /\ fpc' = [fpc EXCEPT ![r] = "none"]
    /\ UNCHANGED <<up, store, shared, channels, handler, syncer, faults>>

\* The listener takes the message (Broker shows that it always does).
Relay(r) ==
    /\ fpc[r] \in {"relay", "relayStop"}
    /\ fpc' = [fpc EXCEPT ![r] = IF @ = "relay" THEN "select" ELSE "none"]
    /\ UNCHANGED <<up, store, shared, channels, handler, syncer, faults>>

Forward(r) == ForwarderStops(r) \/ ForwarderCloses(r) \/ Relay(r)

-----------------------------------------------------------------------------
\* The interval elapses (external: the Go runtime).
Tick == /\ ticker = "running" /\ ~tick
        /\ tick' = TRUE
        /\ UNCHANGED <<up, store, ticker, ctxCancel, channels, handler, syncer,
                       fpc, faults>>

Next == \/ \E r \in Slots : \/ \E p \in Paths : Begin(r, p)
                            \/ Handle(r) \/ Sync(r) \/ Forward(r)
        \/ Tick \/ Crash \/ Restart

Spec == Init /\ [][Next]_vars

\* Goroutines and the ticker are scheduled; the server restarts a plugin.
Progress ==
    /\ WF_vars(Tick) /\ WF_vars(Restart)
    /\ \A r \in Slots : WF_vars(Handle(r)) /\ WF_vars(Sync(r)) /\ WF_vars(Forward(r))

\* select picks a ready case at random: one ready again and again is taken.
Selects == \A r \in Slots : SF_vars(LoopInterrupted(r)) /\ SF_vars(ForwarderStops(r))

FairSpec == Spec /\ Progress /\ Selects

-----------------------------------------------------------------------------
VolatileTypeOK == /\ ticker \in {"nil", "running", "stopped"}
                  /\ tick \in BOOLEAN
                  /\ ctxCancel \in Slots \cup {NoSlot}
                  /\ cancelled \subseteq Slots /\ closed \subseteq Slots
                  /\ path \in [Slots -> Paths \cup {"none"}]
                  /\ hpc \in [Slots -> HandlerPoints]
                  /\ spc \in [Slots -> SyncerPoints]
                  /\ ran \in [Slots -> BOOLEAN]
                  /\ pages \in [Slots -> 0..MaxPages]
                  /\ fpc \in [Slots -> ForwarderPoints]
                  /\ panicking \subseteq Slots

FlagsTypeOK == flags \subseteq {"sync", "fetch"} /\ stale \subseteq flags

TypeOK == up \in BOOLEAN /\ faults \in 0..MaxFaults /\ FlagsTypeOK /\ VolatileTypeOK

\* A syncer blocked for good: it sends to a forwarder that has returned.
Wedged(r) == spc[r] \in {"sendProgress", "sendDone"} /\ fpc[r] = "none"

\* A session stands at one of these points and is not stuck there.
UnderWay(points) == \E r \in Slots : spc[r] \in points /\ ~Wedged(r)
SomeWedged == \E r \in Slots : Wedged(r)

\* Nobody forgets a raised flag, however the sessions interleave and whichever
\* of them raised it: a session is under way between the raising and the
\* lowering (the deferred stopFetch, StopSync).  Three things only leave a flag
\* up without one: a dead process and a failed write (stale), and a session
\* that is wedged on percentageChan, which never comes to its deferred calls.
OwnedFlags ==
    /\ "sync" \in flags \ stale => UnderWay(SyncPoints \cup {"stopSync"}) \/ SomeWedged
    /\ "fetch" \in flags \ stale => UnderWay(FetchPoints) \/ SomeWedged

\* While the store takes its writes, the ticker is not left behind by sessions
\* that ended: the handlers take a non-nil ticker for a running sync, and a
\* session is under way before its SetTickerNil, or is wedged on percentageChan.
OwnedTicker ==
    "store" \notin Faults /\ ticker # "nil" =>
        UnderWay((SyncPoints \cup {"stopSync", "setTickerNil"}) \ {"newTicker"}) \/ SomeWedged

\* percentageChan is closed only by the fetch that gives up on it: nothing is
\* sent on it, and no fetch is started with it, afterwards.
ChannelDiscipline ==
    \A r \in closed : spc[r] \in {"none", "stopFetchErr", "exitSync", "stopSync", "setTickerNil"}

-----------------------------------------------------------------------------
\* The properties that need requests one at a time (Serial)

\* "so no other sync can start" (StartSync): sessions never overlap, the one
\* a stop request launches and the one that is refused included.
Exclusive ==
    Serial => \A r, s \in Slots : spc[r] # "none" /\ spc[s] # "none" => r = s

\* No handler or ending session sets the ticker to nil under a running one:
\* the select of StartSync never meets a nil ticker.
TickerStays == Serial => \A r \in Slots : spc[r] = "loop" => ticker # "nil"

\* The stored flags, which the console shows, are raised for as long as the
\* session or the fetch they tell of runs: no ending session lowers them.
FlagsTell ==
    Serial => \A r \in Slots :
        /\ spc[r] \in SyncPoints => "sync" \in flags
        /\ spc[r] \in FetchPoints => "fetch" \in flags

-----------------------------------------------------------------------------
\* Liveness

\* A cancelled session ends; the one way it does not is to be wedged.
StopsOrWedges ==
    \A r \in Slots : r \in cancelled ~> (spc[r] = "none" \/ Wedged(r))

\* An administrator starts the sync again and again, and in the end no stop
\* request comes between (one that finds ctxCancel nil ends the process).
Retried ==
    /\ SF_vars(\E r \in Slots : Begin(r, "start"))
    /\ <>[](\A r \in Slots : path[r] # "stop")

\* Flags left by a dead process do not lock the sync out for ever: start
\* requests, one refused for each flag, lower them.
StaleFlagsHeal == Retried => (stale # {} ~> stale = {})

-----------------------------------------------------------------------------
\* What the comments and the help text say, and the code does not do

\* syncPosts.go:412 "set syncing to true so no other sync can start"
SingleSync == \A r, s \in Slots :
    spc[r] \in SyncPoints /\ spc[s] \in SyncPoints => r = s

\* plugin.json:37 "If enabled, the plugin will fetch new messages every
\* 'fetch interval'": while the sync is shown as enabled fetches go on.
EnabledFetches == []<>("sync" \notin flags \/ \E r \in Slots : spc[r] = "startFetch")
=============================================================================
