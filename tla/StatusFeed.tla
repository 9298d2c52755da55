----------------------------- MODULE StatusFeed -----------------------------
(***************************************************************************)
(* How the settings page learns what the synchroniser does: the poller of  *)
(* OnActivate (server/activate_hooks.go) reads the two flags of the store, *)
(* one after the other, and publishes a websocket event when they differ   *)
(* from what it read before; the reducer keeps the last event; the two     *)
(* components of the page, ToggleSyncSetting and                           *)
(* TimeLeftUntilNextFetchSetting, take it from there, ask the handlers of  *)
(* http.go for the flags when they are mounted, and for last_fetched_at.   *)
(*                                                                         *)
(* The flags are raised and lowered by the synchroniser (SyncEngine): here *)
(* they change at any time.  The page handles one event or answer at a     *)
(* time, with the effects it triggers.                                     *)
(***************************************************************************)
EXTENDS Naturals, Sequences, FiniteSets

CONSTANTS MaxFlips,    \* bound: changes of the flags
          MaxFetches,  \* bound: values of last_fetched_at
          MaxFaults,   \* bound: crashes and failures
          MaxAsks,     \* bound: syncWithServer calls in flight
          MaxReloads   \* bound: times the page is opened again

ASSUME BoundsAssumption ==
    /\ MaxFlips \in Nat /\ MaxFetches \in Nat /\ MaxFaults \in Nat
    /\ MaxAsks \in Nat \ {0} /\ MaxReloads \in Nat

Views == {"toggle", "timer"}
Status == [sync : BOOLEAN, fetch : BOOLEAN]
NoStatus == [sync |-> FALSE, fetch |-> FALSE]

VARIABLES
    flags,      \* is_sync_in_progress and is_fetch_in_progress in the store
    last,       \* last_fetched_at, by the number of fetches that set it
    poller,     \* "sync", "fetch": the flag it reads next
    read,       \* isSyncInProgress of the poller, while it reads the other
    previous,   \* previousIsSyncInProgress, previousIsFetchInProgress
    wire,       \* events published and not yet at the page
    status,     \* the reducer's syncStatus
    isSync,     \* isSyncInProgress of each view
    isFetch,    \* isFetchInProgress of the timer
    get,        \* the GET each view sends when it is mounted
    lastShown,  \* lastFetchedAt of the timer
    asked,      \* syncWithServer calls not yet served
    replies,    \* answers of last_fetched_at on their way
    stopped,    \* the timer's interval is cleared, and none follows it
    faults, flips, reloads,
    crashed,    \* history: the plugin's process ended once
    fresh,      \* history: views, not misled, that were answered since the
                \*   poller last read the flag
    misled      \* history: views whose request failed, was answered without
                \*   the store or overtaken by an event, whose answer the
                \*   poller never saw, as the flag changed before it read it,
                \*   or that were open when the plugin's process ended

server == <<flags, last>>
polling == <<poller, read, previous>>
views == <<status, isSync, isFetch>>
asking == <<asked, replies, stopped>>
bounds == <<faults, flips, reloads>>
history == <<crashed, fresh, misled>>
vars == <<server, polling, wire, views, get, lastShown, asking, bounds, history>>

Unasked == [pc |-> "none", value |-> FALSE]
Sent    == [pc |-> "sent", value |-> FALSE]

---------------------------------------------------------------------------
(* A plugin just activated, which finds the flags as initializeStore sets  *)
(* them, or as a process that died in a fetch left them; and a page opened *)
(* before.                                                                 *)
Interrupted == [sync |-> TRUE, fetch |-> TRUE]

Init ==
    /\ flags \in {NoStatus, Interrupted} /\ last = 0
    /\ poller = "sync" /\ read = FALSE /\ previous = NoStatus
    /\ wire = << >>
    /\ status = NoStatus
    /\ isSync = [v \in Views |-> FALSE] /\ isFetch = FALSE
    /\ get = [v \in Views |-> Unasked]
    /\ lastShown = 0 /\ asked = 0 /\ replies = {} /\ stopped = FALSE
    /\ faults = 0 /\ flips = 0 /\ reloads = 0
    /\ crashed = FALSE /\ fresh = {} /\ misled = {}

---------------------------------------------------------------------------
(* The synchroniser: SetIsSyncInProgress, SetIsFetchInProgress, and        *)
(* setLastFetchedAt, which a fetch calls before it lowers its flag.        *)

Flip ==
    /\ flips < MaxFlips
    /\ flips' = flips + 1
    /\ \/ /\ flags' = [flags EXCEPT !.sync = ~ @]
          /\ misled' = misled \cup fresh /\ fresh' = {}
       \/ /\ flags' = [flags EXCEPT !.fetch = ~ @]
          /\ UNCHANGED <<fresh, misled>>
    /\ UNCHANGED <<last, polling, wire, views, get, lastShown, asking,
                   faults, reloads, crashed>>

FetchEnds ==
    /\ flags.fetch
    /\ last < MaxFetches
    /\ last' = last + 1
    /\ UNCHANGED <<flags, polling, wire, views, get, lastShown, asking,
                   bounds, history>>

---------------------------------------------------------------------------
(* The poller.                                                             *)

PollSync ==
    /\ poller = "sync"
    /\ read' = flags.sync
    /\ poller' = "fetch"
    /\ fresh' = {}
    /\ UNCHANGED <<server, previous, wire, views, get, lastShown, asking,
                   bounds, crashed, misled>>

(* Mutant: both flags must have changed. *)
ChangedBoth(new) == new.sync # previous.sync /\ new.fetch # previous.fetch

Changed(new) == new.sync # previous.sync \/ new.fetch # previous.fetch

(* The flag of the fetches reads as f: an event, if a flag has changed. *)
Publish(f) ==
    /\ poller = "fetch"
    /\ LET new == [sync |-> read, fetch |-> f] IN
         IF Changed(new)
         THEN previous' = new /\ wire' = Append(wire, new)
         ELSE UNCHANGED <<previous, wire>>
    /\ read' = FALSE
    /\ poller' = "sync"
    /\ UNCHANGED <<server, views, get, lastShown, asking, flips, reloads, history>>

PollFetch == Publish(flags.fetch) /\ UNCHANGED faults

(* The store fails: the getters take that for a flag that is down. *)
PollFails ==
    /\ faults < MaxFaults
    /\ faults' = faults + 1
    /\ \/ /\ poller = "sync"
          /\ read' = FALSE
          /\ poller' = "fetch"
          /\ UNCHANGED <<server, previous, wire, views, get, lastShown, asking,
                         flips, reloads, history>>
       \/ Publish(FALSE)

---------------------------------------------------------------------------
(* The page.  SetTimer is the timer's two flags after an update, and the   *)
(* effect that calls syncWithServer when one of them changes.              *)

MayAsk(s, f) == s \/ ~ f
Room == asked + Cardinality(replies) < MaxAsks

Ask(changed, s, f) ==
    asked' = IF changed /\ MayAsk(s, f) /\ Room THEN asked + 1 ELSE asked

SetTimer(s, f) ==
    /\ isSync' = [isSync EXCEPT !["timer"] = s]
    /\ isFetch' = f
    /\ Ask(s # isSync["timer"] \/ f # isFetch, s, f)

(* The event reaches the reducer.  Its status is a new object, so that the *)
(* effects on syncStatus of both views run even if it says what is known.  *)
HearStatus ==
    /\ wire # << >>
    /\ wire' = Tail(wire)
    /\ status' = Head(wire)
    /\ LET new == Head(wire) IN
         /\ isSync' = [v \in Views |-> new.sync]
         /\ isFetch' = new.fetch
         /\ Ask(new.sync # isSync["timer"] \/ new.fetch # isFetch,
                new.sync, new.fetch)
    /\ LET overtaken == {v \in Views : get[v].pc = "answered"} IN
         misled' = misled \cup overtaken /\ fresh' = fresh \ overtaken
    /\ UNCHANGED <<server, polling, get, lastShown, replies, stopped, bounds,
                   crashed>>

(* handleIsSyncInProgress: the flag is read, the answer is on its way. *)
ServeFlag(v) ==
    /\ get[v].pc = "sent"
    /\ get' = [get EXCEPT ![v] = [pc |-> "answered", value |-> flags.sync]]
    /\ fresh' = fresh \cup ({v} \ misled)
    /\ UNCHANGED <<server, polling, wire, views, lastShown, asking, bounds,
                   crashed, misled>>

(* The store fails: the answer is false all the same, with status 200. *)
ServeFlagFails(v) ==
    /\ get[v].pc = "sent"
    /\ faults < MaxFaults
    /\ faults' = faults + 1
    /\ get' = [get EXCEPT ![v] = [pc |-> "answered", value |-> FALSE]]
    /\ IF flags.sync
       THEN misled' = misled \cup {v} /\ fresh' = fresh \ {v}
       ELSE fresh' = fresh \cup ({v} \ misled) /\ UNCHANGED misled
    /\ UNCHANGED <<server, polling, wire, views, lastShown, asking, flips,
                   reloads, crashed>>

(* Mutant: the answer is read, and forgotten. *)
HearFlagIgnored(v) ==
    /\ get[v].pc = "answered"
    /\ get' = [get EXCEPT ![v] = Unasked]
    /\ UNCHANGED <<server, polling, wire, views, lastShown, asking, bounds,
                   history>>

HearFlag(v) ==
    /\ get[v].pc = "answered"
    /\ get' = [get EXCEPT ![v] = Unasked]
    /\ IF v = "toggle"
       THEN /\ isSync' = [isSync EXCEPT !["toggle"] = get[v].value]
            /\ UNCHANGED <<isFetch, asked>>
       ELSE SetTimer(get[v].value, isFetch)
    /\ UNCHANGED <<server, polling, wire, status, lastShown, replies, stopped,
                   bounds, history>>

(* The request fails.  Only then does the timer use the answer to its      *)
(* second request, is_fetch_in_progress, if that one succeeds.             *)
GetFails(v) ==
    /\ get[v].pc # "none"
    /\ faults < MaxFaults
    /\ faults' = faults + 1
    /\ get' = [get EXCEPT ![v] = Unasked]
    /\ misled' = misled \cup {v} /\ fresh' = fresh \ {v}
    /\ \/ /\ v = "timer"
          /\ SetTimer(isSync["timer"], flags.fetch)
       \/ UNCHANGED <<isSync, isFetch, asked>>
    /\ UNCHANGED <<server, polling, wire, status, lastShown, replies, stopped,
                   flips, reloads, crashed>>

(* Mutant: an answer does not end its request. *)
ServeLastKept ==
    /\ asked > 0
    /\ replies' = replies \cup {last}
    /\ UNCHANGED <<server, polling, wire, views, get, lastShown, asked, stopped,
                   bounds, history>>

(* syncWithServer: last_fetched_at is read. *)
ServeLast ==
    /\ asked > 0
    /\ asked' = asked - 1
    /\ replies' = replies \cup {last}
    /\ UNCHANGED <<server, polling, wire, views, get, lastShown, stopped, bounds,
                   history>>

(* Its answer arrives.  A counter that stopped counts again if countDown   *)
(* changes with lastFetchedAt or fetchInterval.                            *)
HearLast ==
    /\ \E at \in replies :
         /\ lastShown' = at
         /\ replies' = replies \ {at}
    /\ stopped' \in {stopped, FALSE}
    /\ UNCHANGED <<server, polling, wire, views, get, asked, bounds, history>>

(* A call fails, perhaps only in its second request, for fetch_interval.   *)
(* An error that is not JSON makes syncWithServer throw; if the counter    *)
(* made the call, it does not come to setCountDown, and as its interval is *)
(* cleared nothing counts any more.  Which call it was is left open.       *)
AskFails ==
    /\ faults < MaxFaults
    /\ faults' = faults + 1
    /\ stopped' \in {stopped, TRUE}
    /\ \/ /\ asked > 0
          /\ asked' = asked - 1
          /\ UNCHANGED <<replies, lastShown>>
       \/ /\ \E at \in replies :
               /\ replies' = replies \ {at}
               /\ lastShown' \in {lastShown, at}
          /\ UNCHANGED asked
    /\ UNCHANGED <<server, polling, wire, views, get, flips, reloads, history>>

(* Mutant: a counter that has run out stays there. *)
CountedDownSilent == FALSE /\ UNCHANGED vars

(* The counter has run out: ask again. *)
CountedDown ==
    /\ ~ stopped
    /\ MayAsk(isSync["timer"], isFetch)
    /\ Room
    /\ asked' = asked + 1
    /\ UNCHANGED <<server, polling, wire, views, get, lastShown, replies, stopped,
                   bounds, history>>

(* The page is loaded again: the reducer and the components start afresh,  *)
(* and answers on their way are lost.                                      *)
Reload ==
    /\ reloads < MaxReloads
    /\ reloads' = reloads + 1
    /\ status' = NoStatus
    /\ isSync' = [v \in Views |-> FALSE] /\ isFetch' = FALSE
    /\ get' = [v \in Views |-> Sent]
    /\ lastShown' = 0 /\ asked' = 1 /\ replies' = {} /\ stopped' = FALSE
    /\ wire' = << >>
    /\ fresh' = {} /\ misled' = {}
    /\ UNCHANGED <<server, polling, faults, flips, crashed>>

---------------------------------------------------------------------------
(* The plugin's process ends and is started again: OnActivate starts a new *)
(* poller, which knows nothing of what the old one published.  Requests    *)
(* not yet answered fail.                                                  *)
Crash ==
    /\ faults < MaxFaults
    /\ faults' = faults + 1
    /\ poller' = "sync" /\ read' = FALSE /\ previous' = NoStatus
    /\ get' = [v \in Views |-> IF get[v].pc = "sent" THEN Unasked ELSE get[v]]
    /\ asked' = 0
    /\ stopped' \in {stopped, stopped \/ asked > 0}
    /\ crashed' = TRUE /\ fresh' = {} /\ misled' = Views
    /\ UNCHANGED <<server, wire, views, lastShown, replies, flips, reloads>>

Next ==
    \/ Flip \/ FetchEnds
    \/ PollSync \/ PollFetch \/ PollFails
    \/ HearStatus
    \/ ServeLast \/ HearLast \/ AskFails \/ CountedDown \/ Reload
    \/ \E v \in Views :
          ServeFlag(v) \/ ServeFlagFails(v) \/ HearFlag(v) \/ GetFails(v)
    \/ Crash

(* The poller sleeps a second and goes on; requests are served, answers    *)
(* and events arrive, and the page's interval timer runs.                  *)
Fairness ==
    /\ WF_vars(PollSync \/ PollFetch)
    /\ WF_vars(HearStatus)
    /\ WF_vars(\E v \in Views : ServeFlag(v) \/ HearFlag(v))
    /\ WF_vars(ServeLast \/ HearLast) /\ WF_vars(CountedDown)

Spec == Init /\ [][Next]_vars /\ Fairness

---------------------------------------------------------------------------
TypeOK ==
    /\ flags \in Status /\ last \in 0 .. MaxFetches
    /\ poller \in {"sync", "fetch"}
    /\ read \in BOOLEAN /\ previous \in Status
    /\ wire \in Seq(Status) /\ status \in Status
    /\ isSync \in [Views -> BOOLEAN] /\ isFetch \in BOOLEAN
    /\ get \in [Views -> [pc : {"none", "sent", "answered"}, value : BOOLEAN]]
    /\ lastShown \in 0 .. MaxFetches
    /\ asked \in 0 .. MaxAsks /\ replies \subseteq 0 .. MaxFetches
    /\ asked + Cardinality(replies) <= MaxAsks
    /\ stopped \in BOOLEAN
    /\ faults \in 0 .. MaxFaults /\ flips \in 0 .. MaxFlips
    /\ reloads \in 0 .. MaxReloads /\ crashed \in BOOLEAN
    /\ fresh \subseteq Views /\ misled \subseteq Views

(* The page never falls for good behind the flags, although the poller     *)
(* reads them one after the other, misses changes and takes a failure of   *)
(* the store for a change: with no crash and no reload, what it knows ends *)
(* up as what the store says.                                              *)
StatusFollows == <>[](~ crashed /\ reloads = 0 => status = flags)

(* The switch ends up where the flag is also in a page opened while a      *)
(* session runs, when the poller has nothing to publish, unless the page   *)
(* was misled: its own request failed, or was answered without the store,  *)
(* or by an answer that an event overtook, the flag changed back before    *)
(* the poller saw what the page was answered, or the plugin died meanwhile.*)
SwitchFollows == <>[](\A v \in Views \ misled : isSync[v] = flags.sync)

(* Whichever answers were late or lost, a timer that counts ends up        *)
(* counting from the last fetch there was.  A timer whose own call failed  *)
(* may stop for good (see AskFails): of that one nothing is promised.      *)
TimerFollows ==
    <>[](MayAsk(isSync["timer"], isFetch) /\ ~ stopped
            => lastShown = last)
=============================================================================
