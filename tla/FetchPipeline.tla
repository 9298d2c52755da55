---------------------------- MODULE FetchPipeline ----------------------------
(***************************************************************************)
(* What a fetch does to the data: StartFetch reads the posts of every      *)
(* channel page by page from the Mattermost server, whose users write,     *)
(* edit and delete them meanwhile, filters all it has read so far          *)
(* (PostFilter) and upserts it to chroma, keeping total_fetched_posts and  *)
(* last_fetched_at in the store.  One fetch runs at a time: who may start  *)
(* one, and what cancels it, is in SyncEngine.                             *)
(*                                                                         *)
(* A post is known by its id; the text it has is known by its update time. *)
(***************************************************************************)
EXTENDS PostFilter, FiniteSets

CONSTANTS
    Posts,     \* post ids
    Text,      \* those that are neither system messages nor empty
    Channels,  \* the channels, in the order GetAllChannels returns them
    Home,      \* the channel each post is in, an index of Channels
    PageSize,  \* per_page: 10 in the code
    Edits,     \* bound: the posts users edit
    MaxTime    \* bound: the clock, in milliseconds

ASSUME ChannelsAssumption == Len(Channels) \in Nat \ {0}
ASSUME PostsAssumption == Text \subseteq Posts /\ Home \in [Posts -> 1..Len(Channels)]
ASSUME PagesAssumption == PageSize \in Nat \ {0} /\ MaxTime \in Nat \ {0}

VARIABLES
    now,      \* the clock
    order,    \* per channel: its posts, newest first
    at,       \* per post: when it was last written; 0: not yet
    gone,     \* deleted posts
    index,    \* chroma: the text stored, known by its time; 0: none
    handle,   \* the collection the plugin holds still exists
    last,     \* last_fetched_at; 0: never
    total,    \* total_fetched_posts
    pc,       \* "idle", "page", "store", "done" or "down"
    start,    \* startSyncTime
    since,    \* the since parameter; 0: not set
    before,   \* previousTotalFetchedPosts
    loaded,   \* loadedPosts
    channel,  \* position in Channels
    page,     \* the page parameter
    more,     \* PreviousPostId of the page just read is not empty
    posts,    \* all posts read so far
    intact,   \* history: no post was deleted, no index reset
    closed    \* history: the store took the Put the last fetch ended with

server == <<order, at, gone>>
chroma == <<index, handle>>
store == <<last, total>>
local == <<start, since, before, loaded, channel, page, more, posts>>
history == <<intact, closed>>
vars == <<now, server, chroma, store, pc, local, history>>

Init == /\ now = 1
        /\ order = [c \in 1..Len(Channels) |-> <<>>]
        /\ at = [p \in Posts |-> 0] /\ gone = {}
        /\ index = [p \in Posts |-> 0] /\ handle = TRUE
        /\ last = 0 /\ total = 0
        /\ pc = "idle" /\ intact = TRUE /\ closed = TRUE
        /\ start = 0 /\ since = 0 /\ before = 0 /\ loaded = 0
        /\ channel = 1 /\ page = 0 /\ more = FALSE /\ posts = <<>>

-----------------------------------------------------------------------------
\* The Mattermost server (external)

Live(p) == at[p] > 0 /\ p \notin gone

Create(p) == /\ at[p] = 0
             /\ at' = [at EXCEPT ![p] = now]
             /\ order' = [order EXCEPT ![Home[p]] = <<p>> \o @]
             /\ UNCHANGED <<now, gone, chroma, store, pc, local, history>>

Edit(p) == /\ p \in Edits /\ Live(p) /\ at[p] < now
           /\ at' = [at EXCEPT ![p] = now]
           /\ UNCHANGED <<now, order, gone, chroma, store, pc, local, history>>

Delete(p) == /\ Live(p) /\ at[p] < now
             /\ at' = [at EXCEPT ![p] = now]
             /\ gone' = gone \cup {p}
             /\ intact' = FALSE
             /\ UNCHANGED <<now, order, chroma, store, pc, local, closed>>

TimePasses == /\ now < MaxTime
              /\ now' = now + 1
              /\ UNCHANGED <<server, chroma, store, pc, local, history>>

\* Those of ids that are among the first posts of a list, in its order.
Among(list, ids) ==
    LET first[i \in 0..Len(list)] ==
            IF i = 0 THEN <<>>
            ELSE IF list[i] \in ids THEN Append(first[i - 1], list[i]) ELSE first[i - 1]
    IN  first

\* A request without since lists the posts there are, one with it those
\* written or deleted after that time.
Matching == {p \in Posts : IF since = 0 THEN p \notin gone ELSE at[p] > since}
Listed(c) == Among(order[c], Matching)[Len(order[c])]

\* One page of them, as the request finds it.
PageOf(c) == LET all == Listed(c)
                 last1 == (page + 1) * PageSize
                 ids == SubSeq(all, page * PageSize + 1,
                               IF last1 < Len(all) THEN last1 ELSE Len(all))
             IN  [posts |-> [i \in DOMAIN ids |->
                              [id |-> ids[i], at |-> at[ids[i]], gone |-> ids[i] \in gone]],
                  more |-> Len(all) > last1]

-----------------------------------------------------------------------------
\* StartFetch

\* What a fetch starts its loops with.
Fresh == loaded' = 0 /\ channel' = 1 /\ page' = 0 /\ more' = FALSE /\ posts' = <<>>

\* Up to the loop over the channels.  No post is written in the millisecond
\* a fetch starts, after it started: the clock moves on.
StartFetch ==
    /\ pc = "idle" /\ now < MaxTime
    /\ now' = now + 1
    /\ start' = now
    /\ since' = IF last # 0 /\ total # 0 THEN last ELSE 0
    /\ before' = total
    /\ Fresh
    /\ pc' = "page"
    /\ closed' = TRUE
    /\ UNCHANGED <<server, chroma, store, intact>>

Forget == start' = 0 /\ since' = 0 /\ before' = 0 /\ Fresh

\* Mutant: an error return that leaves the running total in the store.
GiveUpDirty == pc' = "idle" /\ UNCHANGED store /\ closed' = TRUE /\ Forget

\* Every error return: the total is put back, last_fetched_at not touched.  The
\* error of the Put is ignored: if it fails, the running total stays.
GiveUp == /\ pc' = "idle" /\ Forget
          /\ \/ total' = before /\ closed' = TRUE
             \/ total # before /\ UNCHANGED total /\ closed' = FALSE
          /\ UNCHANGED last

\* Mutant: the end of the list of channels is not looked at.
NextChannelUnchecked == channel' = channel + 1 /\ page' = 0 /\ pc' = "page"

\* The next channel, or the end of the loop.
NextChannel == IF channel < Len(Channels)
               THEN channel' = channel + 1 /\ page' = 0 /\ pc' = "page"
               ELSE pc' = "done" /\ UNCHANGED <<channel, page>>

ReadPage ==
    /\ pc = "page"
    /\ LET res == PageOf(channel) IN
       \/ /\ res.posts = <<>>
          /\ NextChannel
          /\ UNCHANGED <<start, since, before, loaded, more, posts>>
       \/ /\ res.posts # <<>>
          /\ posts' = posts \o res.posts
          /\ more' = res.more
          /\ pc' = "store"
          /\ UNCHANGED <<start, since, before, loaded, channel, page>>
    /\ UNCHANGED <<now, server, chroma, store, history>>

\* FetchPostsForPage returns an error.
ReadFails == /\ pc = "page"
             /\ GiveUp
             /\ UNCHANGED <<now, server, chroma, intact>>

\* deleteFromChroma.
Deleted(old, ids) == [p \in Posts |-> IF p \in ids THEN 0 ELSE old[p]]
Removed(ids) == index' = Deleted(index, ids)

\* upsertPostsToChroma: of the copies of one post the last is stored.
Upserted(old, kept) ==
    [p \in Posts |->
        LET copies == {i \in DOMAIN kept : kept[i].id = p} IN
        IF copies = {} THEN old[p]
        ELSE kept[CHOOSE i \in copies : \A j \in copies : j <= i].at]

Stored(res) == index' = Upserted(Deleted(index, res.deleted), res.kept)

\* Chroma takes the calls of deleteAndFilterPost and upsertPostsToChroma, as
\* long as its collection is there, or there is nothing to call it for.
Accepted(res) == res.ok /\ (handle \/ (res.deleted = {} /\ res.kept = <<>>))

\* A page is stored, with all that was read before it.  The error of the Put of
\* the running total is ignored.
StorePage ==
    /\ pc = "store"
    /\ LET res == Filtering(posts, Text)[Len(posts)] IN
       /\ Accepted(res)
       /\ Stored(res)
       /\ loaded' = IF res.kept = <<>> THEN loaded ELSE Len(res.kept)
       /\ total' \in {total, before + loaded'}
       /\ posts' = res.array
    /\ IF more
       THEN page' = page + 1 /\ pc' = "page" /\ UNCHANGED channel
       ELSE NextChannel
    /\ UNCHANGED <<now, server, handle, last, start, since, before, more, history>>

\* As StorePage, but the context is done when it is looked at.
Interrupted ==
    /\ pc = "store" /\ more
    /\ LET res == Filtering(posts, Text)[Len(posts)] IN
       Accepted(res) /\ Stored(res)
    /\ GiveUp
    /\ UNCHANGED <<now, server, handle, intact>>

\* Chroma refuses a delete, after those before it, or the upsert: whatever it
\* is called for when the collection is gone.
StoreFails ==
    /\ pc = "store"
    /\ LET after == Filtering(posts, Text) IN
       \E i \in 0..Len(posts) :
           /\ after[i].ok /\ (handle \/ after[i].deleted = {})
           /\ IF i < Len(posts) THEN after[i].array[i + 1].gone ELSE after[i].kept # <<>>
           /\ Removed(after[i].deleted)
    /\ GiveUp
    /\ UNCHANGED <<now, server, handle, intact>>

\* A slice bound of removePost is out of range: the process goes down.
StorePanics ==
    /\ pc = "store" /\ handle
    /\ LET res == Filtering(posts, Text)[Len(posts)] IN
       ~res.ok /\ Removed(res.deleted)
    /\ pc' = "down" /\ Forget
    /\ UNCHANGED <<now, server, handle, store, history>>

\* Mutant: the time the fetch ended, not the time it started.
FinishNow ==
    /\ pc = "done"
    /\ last' = now /\ closed' = TRUE
    /\ pc' = "idle" /\ Forget
    /\ UNCHANGED <<now, server, chroma, total, intact>>

\* setLastFetchedAt, the last thing a fetch does: its error too is ignored.
Finish ==
    /\ pc = "done"
    /\ \/ last' = start /\ closed' = TRUE
       \/ UNCHANGED last /\ closed' = FALSE
    /\ pc' = "idle" /\ Forget
    /\ UNCHANGED <<now, server, chroma, total, intact>>

-----------------------------------------------------------------------------
\* The process ends (external), with its fetch or without one.
Crash == /\ pc # "down"
         /\ pc' = "down" /\ Forget
         /\ UNCHANGED <<now, server, chroma, store, history>>

\* GetSyncInstance finds or creates the collection; the store keeps its values.
Restart == /\ pc = "down"
           /\ pc' = "idle" /\ handle' = TRUE
           /\ UNCHANGED <<now, server, index, store, local, history>>

\* handleReset: chroma loses the collection the plugin goes on using; the
\* store is not touched.
ResetVectorStore == /\ pc # "down"
                    /\ index' = [p \in Posts |-> 0]
                    /\ handle' = FALSE
                    /\ intact' = FALSE
                    /\ UNCHANGED <<now, server, store, pc, local, closed>>

Next == \/ \E p \in Posts : Create(p) \/ Edit(p) \/ Delete(p)
        \/ TimePasses
        \/ StartFetch \/ ReadPage \/ ReadFails
        \/ StorePage \/ Interrupted \/ StoreFails \/ StorePanics \/ Finish
        \/ Crash \/ Restart \/ ResetVectorStore

Spec == Init /\ [][Next]_vars

-----------------------------------------------------------------------------
TypeOK == /\ now \in 1..MaxTime
          /\ order \in [1..Len(Channels) -> Seq(Posts)]
          /\ at \in [Posts -> 0..MaxTime] /\ gone \subseteq Posts
          /\ index \in [Posts -> 0..MaxTime] /\ handle \in BOOLEAN
          /\ last \in 0..MaxTime /\ total \in Nat
          /\ pc \in {"idle", "page", "store", "done", "down"}
          /\ start \in 0..MaxTime /\ since \in 0..MaxTime
          /\ before \in Nat /\ loaded \in Nat
          /\ channel \in 1..Len(Channels) /\ page \in Nat /\ more \in BOOLEAN
          /\ posts \in Seq([id : Posts, at : 1..MaxTime, gone : BOOLEAN])
          /\ intact \in BOOLEAN /\ closed \in BOOLEAN

\* No text is lost: what was written up to last_fetched_at is in the index as
\* it was last written, whatever fetches failed, were interrupted or died on
\* the way and whatever was written while pages were read (deletions apart:
\* they move the pages, and deleteAndFilterPost loses posts to them).
Complete == intact => \A p \in Text : at[p] > 0 /\ at[p] <= last => index[p] = at[p]

\* A fetch that returns an error leaves the store as the fetch found it, if the
\* store takes the Put with which it returns, whichever Puts before it failed.
FailureUndone ==
    [][pc \notin {"idle", "down"} /\ pc' = "idle" /\ last' = last /\ closed'
          => total' = before]_vars

\* syncPosts.go:697 "Deletes posts that have been deleted from mattermost from
\* chroma database": a fetch of what changed since the last one, when it comes
\* to its end, has done so with what was deleted before it started.
DeletedGone ==
    pc = "done" /\ since # 0 =>
        \A p \in gone : since < at[p] /\ at[p] <= start => index[p] = 0
=============================================================================
