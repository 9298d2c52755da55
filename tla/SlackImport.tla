---------------------------- MODULE SlackImport ----------------------------
(***************************************************************************)
(* The import of a Slack export: the two handlers of server/http.go        *)
(* (handleUploadSlackZip, handleUploadStoreSlackData), the extraction in   *)
(* server/slack.go and the settings page that calls them                   *)
(* (UploadSlackExportFileSetting.tsx).                                     *)
(*                                                                         *)
(* The handlers run in goroutines of their own and share, without a lock,  *)
(* slackClient.Channels, slackClient.FilteredChannels and the directory    *)
(* extracted_slack_data, which nothing empties.  The page lets the admin   *)
(* press Save again while an import runs, or upload another export.        *)
(*                                                                         *)
(* A file of the export holds the messages of one channel on one day.  Its *)
(* messages are abstracted to the export it came from, or to Torn when the *)
(* file was cut short and cannot be decoded.  A time is counted in half    *)
(* days: day d starts at Midnight(d), and a channel may have been created  *)
(* at noon.  A channel's id and its name are the same here, and a decode   *)
(* that is under way fills in a channel at a time.                         *)
(***************************************************************************)
EXTENDS Naturals

CONSTANTS Channels,     \* channel ids
          LastDay,      \* the days are 1 .. LastDay, today the last
          Created,      \* Created[c]: the time the channel was created
          Exports,      \* the zip files an admin may upload, and in each
          ListedIn,     \*   the channels channels.json lists,
          FoldersIn,    \*   the folders, one per channel,
          FilesIn,      \*   the files in them: <<channel, day>>
          Choices,      \* what the admin may pick for a checked channel
          Requests,     \* handlers of store_data that may run at a time
          MaxUploads, MaxSaves, MaxCrashes,     \* bounds of the model,
          MaxEvents,    \* and of the three together
          NoListing, Torn

Days == 1 .. LastDay
Midnight(d) == 2 * d
Now == Midnight(LastDay) + 1

ASSUME ImportAssumption ==
    /\ LastDay \in Nat \ {0}
    /\ Created \in [Channels -> 0 .. Now]
    /\ NoListing \notin Exports \cup Channels
    /\ Torn \notin Exports \cup {NoListing}
    /\ ListedIn \in [Exports -> (SUBSET Channels) \ {{}}]
    /\ FoldersIn \in [Exports -> SUBSET Channels]
    /\ \A e \in Exports : FilesIn[e] \subseteq FoldersIn[e] \X Days
    /\ Choices \subseteq [start : 0 .. LastDay, end : 0 .. LastDay]

ASSUME BoundsAssumption ==
    MaxUploads \in Nat /\ MaxSaves \in Nat /\ MaxCrashes \in Nat /\ MaxEvents \in Nat

VARIABLES
    disk,       \* files of extracted_slack_data: <<channel, day, export>>,
                \*   or <<channel, day, Torn>>
    folders,    \* its channel folders
    listed,     \* the export its channels.json came from, Torn, or NoListing
    store,      \* the slack collection: files whose messages were upserted
    known,      \* slackClient.Channels
    filtered,   \* slackClient.FilteredChannels: channel -> specification
    unread,     \* uploads extracted, their channels.json not yet read
    reading,    \* reading[e]: uploads that decode e's into slackClient.Channels
    muddled,    \* decodes overlapped since the last that began alone
    import,     \* import[r]: one run of handleUploadStoreSlackData
    shown,      \* the page's unfilteredChannels
    table,      \* the export they were read from, or NoListing
    done,       \* the page's slackDataStoreDone
    doneSent,   \* on_done events on their way to the page
    picked,     \* history: <<channel, day, export>> of the selections saved
    uploads, saves, crashes

server == <<known, reading, muddled, filtered, unread, import>>
files  == <<disk, folders, listed>>
page   == <<shown, table, done>>
vars   == <<files, server, page, store, doneSent, picked,
            uploads, saves, crashes>>

---------------------------------------------------------------------------
(* What the page sends.  A selection is two dates, of which either may be  *)
(* missing (0); NoChoice, which is not a selection, stands for an          *)
(* unchecked channel.                                                      *)

NoChoice == [start |-> LastDay + 1, end |-> 0]

None         == [kind |-> "none", from |-> 0, to |-> 0]
All          == [kind |-> "all", from |-> 0, to |-> Now]
Dates(f, t)  == [kind |-> "dates", from |-> f, to |-> t]
Unreadable   == [kind |-> "unreadable", from |-> 0, to |-> 0]

Specs == {None, All, Unreadable} \cup {Dates(f, t) : f, t \in 0 .. Now}

(* A map from channels to specifications, as the page sends it. *)
Selections == UNION {[S -> Specs] : S \in SUBSET Channels}
Nothing    == [c \in {} |-> None]

(* saveSlackData.  With a start date only, the end date is Date.now() / 1000, *)
(* which has a fraction unless the clock stands on a whole second.            *)
SpecOf(c, choice, whole) ==
    CASE choice = NoChoice -> None
      [] choice # NoChoice /\ choice.start # 0 /\ choice.end # 0 ->
            Dates(Midnight(choice.start), Midnight(choice.end))
      [] choice # NoChoice /\ choice.start # 0 /\ choice.end = 0 ->
            IF whole THEN Dates(Midnight(choice.start), Now) ELSE Unreadable
      [] choice # NoChoice /\ choice.start = 0 /\ choice.end # 0 ->
            Dates(Created[c], Midnight(choice.end))
      [] OTHER -> All

(* The days the admin means by a selection: help_text of the setting. *)
Meant(choice) ==
    IF choice = NoChoice THEN {}
    ELSE {d \in Days : /\ choice.start <= d
                       /\ choice.end = 0 \/ d <= choice.end}

(* Mutant: files before the start date are stored too. *)
InRangeTo(spec, d) == Midnight(d) <= spec.to

(* The files whose date is neither before the start nor after the end.     *)
InRange(spec, d) == spec.from <= Midnight(d) /\ Midnight(d) <= spec.to

---------------------------------------------------------------------------
(* alone: since the handler began no upload came, no request with other    *)
(* choices, and it passed over no file that it could not open or read.     *)
Idle == [pc |-> "idle", body |-> Nothing, keys |-> {}, seen |-> {},
         export |-> NoListing, channel |-> NoListing, days |-> {},
         spec |-> None, alone |-> TRUE]

Running(r) == import[r].pc \notin {"idle", "sent"}
FolderDays(c) == {d \in Days : \E f \in disk : f[1] = c /\ f[2] = d}

Init ==
    /\ disk = {} /\ folders = {} /\ listed = NoListing
    /\ store = {}
    /\ known = {} /\ reading = [e \in Exports |-> 0] /\ muddled = FALSE
    /\ filtered = Nothing /\ unread = 0
    /\ import = [r \in Requests |-> Idle]
    /\ shown = {} /\ table = NoListing /\ done = FALSE /\ doneSent = 0
    /\ picked = {}
    /\ uploads = 0 /\ saves = 0 /\ crashes = 0

---------------------------------------------------------------------------
(* The bound on what happens from outside, taken together. *)
Room == uploads + saves + crashes < MaxEvents

(* handleUploadSlackZip: the archive is extracted over what is there ...   *)

(* part whole, and one more file perhaps cut short. *)
Extracted(e, part, torn) ==
    /\ disk' = {f \in disk : <<f[1], f[2]>> \notin part \cup torn}
                    \cup {<<p[1], p[2], e>> : p \in part}
                    \cup {<<p[1], p[2], Torn>> : p \in torn}
    /\ import' = [r \in Requests |-> IF Running(r)
                                     THEN [import[r] EXCEPT !.alone = FALSE]
                                     ELSE import[r]]

Unzip(e) ==
    /\ uploads < MaxUploads /\ Room
    /\ Extracted(e, FilesIn[e], {})
    /\ folders' = folders \cup FoldersIn[e]
    /\ listed' = e
    /\ unread' = unread + 1
    /\ uploads' = uploads + 1
    /\ UNCHANGED <<store, known, reading, muddled, filtered, page, doneSent,
                   picked, saves, crashes>>

(* ... an error on the way leaves what was extracted, the file it came on  *)
(* truncated, and ends the request.                                        *)
UnzipFails(e) ==
    /\ uploads < MaxUploads /\ Room
    /\ \E part \in SUBSET FilesIn[e] :
         \E torn \in {{}} \cup {{p} : p \in FilesIn[e] \ part} :
           /\ Extracted(e, part, torn)
           /\ folders' = folders \cup {p[1] : p \in part \cup torn}
           /\ listed' \in {listed, e} \cup (IF torn = {} THEN {Torn} ELSE {})
    /\ uploads' = uploads + 1
    /\ UNCHANGED <<store, known, reading, muddled, filtered, unread, page,
                   doneSent, picked, saves, crashes>>

(* The decode of a channels.json, which writes into slackClient.Channels   *)
(* itself: Decoded, the exports whose decode is under way.  What overlaps  *)
(* with one may find any of the channels before and of those it writes.    *)
Decoded == {e \in Exports : reading[e] > 0}
           \cup {import[r].export : r \in {q \in Requests : import[q].pc = "decoding"}}
Mixable == known \cup UNION {ListedIn[e] : e \in Decoded}

BeginsDecode == muddled' = (Decoded # {})

(* What is in memory after a decode: what the file lists, or a mixture. *)
EndsDecode(e) ==
    known' \in IF muddled THEN (SUBSET Mixable) \ {{}} ELSE {ListedIn[e]}

(* ... then readExtractedData opens the listing; it is decoded only when   *)
(* the whole of it is valid,                                               *)
OpenListing ==
    /\ unread > 0 /\ listed \in Exports
    /\ unread' = unread - 1
    /\ reading' = [reading EXCEPT ![listed] = @ + 1]
    /\ BeginsDecode
    /\ UNCHANGED <<files, store, known, filtered, import, page, doneSent,
                   picked, uploads, saves, crashes>>

ReadFails ==
    /\ unread > 0
    /\ unread' = unread - 1
    /\ UNCHANGED <<files, store, known, reading, muddled, filtered, import,
                   page, doneSent, picked, uploads, saves, crashes>>

(* ... and the channels go back to the page, unless the zip file cannot be *)
(* deleted once they are read.                                             *)
ReadListing(e) ==
    /\ reading[e] > 0
    /\ reading' = [reading EXCEPT ![e] = @ - 1]
    /\ EndsDecode(e)
    /\ \/ shown' = known' /\ table' = e
       \/ UNCHANGED <<shown, table>>
    /\ UNCHANGED <<files, store, muddled, filtered, unread, import, done,
                   doneSent, picked, uploads, saves, crashes>>

---------------------------------------------------------------------------
(* The page.                                                               *)

(* The Save button: it stays enabled while an earlier request runs. *)
Save(r) ==
    /\ import[r] = Idle
    /\ saves < MaxSaves /\ Room
    /\ \E choice \in [shown -> Choices \cup {NoChoice}], whole \in SUBSET shown :
         /\ \E c \in DOMAIN choice : choice[c] # NoChoice      \* noneChecked
         /\ LET body == [c \in DOMAIN choice |-> SpecOf(c, choice[c], c \in whole)]
            IN import' = [import EXCEPT ![r] = [Idle EXCEPT !.pc = "sent",
                                                            !.body = body]]
         /\ picked' = picked \cup
                UNION {{<<c, d, table>> : d \in Meant(choice[c])} : c \in DOMAIN choice}
    /\ saves' = saves + 1
    /\ UNCHANGED <<files, store, known, reading, muddled, filtered, unread, page,
                   doneSent, uploads, crashes>>

(* on_done: the effect of the page runs when the stored value changes, and *)
(* nothing sets it back to false.                                          *)
HearDone ==
    /\ doneSent > 0
    /\ doneSent' = doneSent - 1
    /\ done' = TRUE
    /\ IF done THEN UNCHANGED <<shown, table>> ELSE shown' = {} /\ table' = NoListing
    /\ UNCHANGED <<files, server, store, picked, uploads, saves, crashes>>

(* The admin leaves the page, or reloads it. *)
Leave ==
    /\ shown' = {} /\ table' = NoListing
    /\ done' \in {done, FALSE}
    /\ UNCHANGED <<files, server, store, doneSent, picked, uploads, saves,
                   crashes>>

---------------------------------------------------------------------------
(* handleUploadStoreSlackData.                                             *)

Answer(r) == import' = [import EXCEPT ![r] = Idle]

Goes(r, changed) ==
    import' = [import EXCEPT ![r] = changed]

(* json.Unmarshal into the map that is there keeps the keys of earlier     *)
(* requests.                                                               *)
Merged(body) == [c \in DOMAIN body \cup DOMAIN filtered |->
                   IF c \in DOMAIN body THEN body[c] ELSE filtered[c]]

(* The request is read, and the runs under way have its choices, too.      *)
Merge(r) ==
    /\ import[r].pc = "sent"
    /\ filtered' = Merged(import[r].body)
    /\ import' = [q \in Requests |->
         CASE q = r -> [import[r] EXCEPT !.pc = "merged"]
           [] q # r /\ Running(q) /\ import[q].body # import[r].body ->
                [import[q] EXCEPT !.alone = FALSE]
           [] OTHER -> import[q]]
    /\ UNCHANGED <<files, store, known, reading, muddled, unread, page,
                   doneSent, picked, uploads, saves, crashes>>

(* The loop over the map starts. *)
Loops(r) == Goes(r, [import[r] EXCEPT !.pc = "channels", !.export = NoListing,
                                      !.keys = DOMAIN filtered])

(* The channels are read from the disk when none are in memory.            *)
NeverReads   == FALSE      \* Mutant: the channels are only read on upload.
ReadsListing == known = {}

Checking(r) ==
    /\ import[r].pc = "merged"
    /\ UNCHANGED <<files, store, known, reading, filtered, unread, page,
                   doneSent, picked, uploads, saves, crashes>>

(* There are some in memory, the first of a decode under way perhaps. *)
HasChannels(r) ==
    /\ Checking(r)
    /\ ~ ReadsListing \/ Decoded # {}
    /\ Loops(r)
    /\ UNCHANGED muddled

(* There is none, but a listing: the page saves what an upload has listed, *)
(* and nothing removes a file.                                             *)
Begin(r) ==
    /\ Checking(r)
    /\ ReadsListing /\ listed \in Exports
    /\ Goes(r, [import[r] EXCEPT !.pc = "decoding", !.export = listed])
    /\ BeginsDecode

(* Nothing is there, or it cannot be opened or decoded: 500. *)
BeginFails(r) ==
    /\ Checking(r)
    /\ ReadsListing
    /\ Answer(r)
    /\ UNCHANGED muddled

Decodes(r) ==
    /\ import[r].pc = "decoding"
    /\ EndsDecode(import[r].export)
    /\ Loops(r)
    /\ UNCHANGED <<files, store, reading, muddled, filtered, unread, page,
                   doneSent, picked, uploads, saves, crashes>>

(* The next key of the map, in any order, with the value it has now. *)
Visiting(r, c) ==
    /\ import[r].pc = "channels"
    /\ c \in DOMAIN filtered \ import[r].seen
    /\ UNCHANGED <<files, store, known, reading, muddled, filtered, unread, page,
                   doneSent, picked, uploads, saves, crashes>>

(* !found: the handler returns; the page is told nothing. *)
Abandon(r, c) ==
    /\ Visiting(r, c)
    /\ c \notin known \/ Decoded # {}
    /\ Answer(r)

(* The dates cannot be read or are in the wrong order (400), or the        *)
(* channel has no folder (500).                                            *)
Refuse(r, c) ==
    /\ Visiting(r, c)
    /\ c \in Mixable
    /\ LET spec == filtered[c] IN
         /\ spec.kind # "none"
         /\ \/ spec.kind = "unreadable"
            \/ spec.from > spec.to
            \/ c \notin folders
    /\ Answer(r)

Skip(r, c) ==
    /\ Visiting(r, c)
    /\ c \in Mixable
    /\ \/ filtered[c].kind = "none"
       \/ /\ filtered[c].kind \in {"all", "dates"}
          /\ filtered[c].from <= filtered[c].to
          /\ c \in folders
          /\ FolderDays(c) = {}
    /\ Goes(r, [import[r] EXCEPT !.seen = @ \cup {c}])

Enter(r, c) ==
    /\ Visiting(r, c)
    /\ c \in Mixable
    /\ filtered[c].kind \in {"all", "dates"}
    /\ filtered[c].from <= filtered[c].to
    /\ c \in folders
    /\ FolderDays(c) # {}
    /\ Goes(r, [import[r] EXCEPT !.pc = "files", !.seen = @ \cup {c},
                                 !.channel = c, !.days = FolderDays(c),
                                 !.spec = filtered[c]])

(* Mutant: the loop over the files is not left after the last one. *)
FileDoneStays(r, d) ==
    Goes(r, [import[r] EXCEPT !.days = @ \ {d}])

(* The next file of the channel, in the order the directory lists them. *)
AfterFile(run, d) ==
    IF run.days = {d}
    THEN [run EXCEPT !.days = {}, !.pc = "channels", !.channel = NoListing, !.spec = None]
    ELSE [run EXCEPT !.days = @ \ {d}]

FileDone(r, d) == Goes(r, AfterFile(import[r], d))

(* What can be decoded of a channel and day. *)
Stored(c, d) == {f \in disk : f[1] = c /\ f[2] = d /\ f[3] # Torn}

(* Mutant: the first file out of range ends the channel. *)
StoreFileBreaks(r, d) ==
    /\ import[r].pc = "files"
    /\ d \in import[r].days
    /\ IF InRange(import[r].spec, d)
       THEN /\ store' = store \cup Stored(import[r].channel, d)
            /\ FileDone(r, d)
       ELSE /\ UNCHANGED store
            /\ Goes(r, [import[r] EXCEPT !.days = {}, !.pc = "channels"])
    /\ UNCHANGED <<files, known, reading, muddled, filtered, unread, page,
                   doneSent, picked, uploads, saves, crashes>>

StoreFile(r, d) ==
    /\ import[r].pc = "files"
    /\ d \in import[r].days
    /\ store' = IF InRange(import[r].spec, d)
                THEN store \cup Stored(import[r].channel, d) ELSE store
    /\ FileDone(r, d)
    /\ UNCHANGED <<files, known, reading, muddled, filtered, unread, page,
                   doneSent, picked, uploads, saves, crashes>>

(* A file that cannot be opened or read is passed over like one without    *)
(* messages: the error of extractJsonContentFromFile is not looked at.     *)
PassOver(r, d) ==
    /\ import[r].pc = "files"
    /\ d \in import[r].days
    /\ InRange(import[r].spec, d)
    /\ Goes(r, [AfterFile(import[r], d) EXCEPT !.alone = FALSE])
    /\ UNCHANGED <<files, store, known, reading, muddled, filtered, unread, page,
                   doneSent, picked, uploads, saves, crashes>>

(* The loop ends: every key it started with was visited. *)
Done(r) ==
    /\ import[r].pc = "channels"
    /\ import[r].keys \subseteq import[r].seen
    /\ doneSent' = doneSent + 1
    /\ Answer(r)
    /\ UNCHANGED <<files, store, known, reading, muddled, filtered, unread, page,
                   picked, uploads, saves, crashes>>

---------------------------------------------------------------------------
(* The process ends, and Mattermost starts it again: the memory of the     *)
(* plugin is lost, the directory and the collection are not.               *)

Dies ==
    /\ crashes < MaxCrashes /\ Room
    /\ crashes' = crashes + 1
    /\ known' = {} /\ reading' = [e \in Exports |-> 0] /\ muddled' = FALSE
    /\ filtered' = Nothing /\ unread' = 0
    /\ import' = [r \in Requests |-> Idle]
    /\ UNCHANGED <<files, store, page, doneSent, picked, uploads, saves>>

Crash == Dies

(* log.Fatalf on a failed upsert. *)
UpsertFails(r, d) ==
    /\ import[r].pc = "files"
    /\ d \in import[r].days
    /\ InRange(import[r].spec, d)
    /\ Dies

(* "fatal error: concurrent map writes", or "map iteration and map write": *)
(* the map is read for the log, too, before the channels are looked at.    *)
MapRace(r, q) ==
    /\ q # r
    /\ import[r].pc = "sent" /\ import[q].pc \in {"sent", "merged", "channels"}
    /\ Dies

---------------------------------------------------------------------------
Handler(r) ==
    \/ Merge(r) \/ HasChannels(r) \/ Begin(r) \/ BeginFails(r) \/ Decodes(r)
    \/ Done(r)
    \/ \E c \in Channels : Abandon(r, c) \/ Refuse(r, c) \/ Skip(r, c) \/ Enter(r, c)
    \/ \E d \in Days : StoreFile(r, d) \/ PassOver(r, d)

Next ==
    \/ \E e \in Exports : Unzip(e) \/ UnzipFails(e) \/ ReadListing(e)
    \/ OpenListing \/ ReadFails
    \/ HearDone \/ Leave
    \/ \E r \in Requests : Save(r) \/ Handler(r)
    \/ \E r \in Requests, d \in Days : UpsertFails(r, d)
    \/ \E r, q \in Requests : MapRace(r, q)
    \/ Crash

Spec == Init /\ [][Next]_vars

---------------------------------------------------------------------------
ImportType ==
    [pc : {"idle", "sent", "merged", "decoding", "channels", "files"},
     body : Selections,
     keys : SUBSET Channels, seen : SUBSET Channels,
     export : Exports \cup {NoListing},
     channel : Channels \cup {NoListing}, days : SUBSET Days, spec : Specs,
     alone : BOOLEAN]

(* A channel has at most one file for a day, and a folder.                 *)
FilesType ==
    /\ disk \subseteq Channels \X Days \X (Exports \cup {Torn})
    /\ \A f, g \in disk : f[1] = g[1] /\ f[2] = g[2] => f = g
    /\ folders \subseteq Channels /\ \A f \in disk : f[1] \in folders
    /\ listed \in Exports \cup {NoListing, Torn}

(* A handler that walks the files of a channel has some left; one that     *)
(* decodes has an export's listing.                                        *)
ImportsType ==
    /\ import \in [Requests -> ImportType]
    /\ \A r \in Requests :
         /\ import[r].pc = "files" <=> import[r].days # {}
         /\ import[r].pc = "decoding" => import[r].export \in Exports

RestType ==
    /\ store \subseteq Channels \X Days \X Exports
    /\ known \subseteq Channels
    /\ reading \in [Exports -> Nat] /\ muddled \in BOOLEAN
    /\ filtered \in Selections
    /\ unread \in Nat
    /\ shown \subseteq Channels
    /\ table \in Exports \cup {NoListing} /\ (shown # {} => table \in Exports)
    /\ done \in BOOLEAN /\ doneSent \in Nat
    /\ picked \subseteq Channels \X Days \X Exports
    /\ uploads \in 0 .. MaxUploads /\ saves \in 0 .. MaxSaves
    /\ crashes \in 0 .. MaxCrashes

TypeOK == FilesType /\ ImportsType /\ RestType

(* plugin.json:53 "choose the channels that will be imported": no message  *)
(* is imported of a channel and a day that no saved selection covered,     *)
(* whatever specifications the shared map mixes.                           *)
OnlyPicked == \A f \in store : \E p \in picked : f[1] = p[1] /\ f[2] = p[2]

(* on_done tells the page of an import that is complete: every file that   *)
(* can be decoded of the channels and times the request gave is in the     *)
(* collection, unless another upload or another request with other choices *)
(* came in between, or a file could not be opened or read.  A truncated    *)
(* file is no part of it, and neither is what the page's computation of    *)
(* the times left out.                                                     *)
Owed(r) == {f \in disk : /\ f[1] \in DOMAIN import[r].body
                         /\ import[r].body[f[1]].kind \in {"all", "dates"}
                         /\ InRange(import[r].body[f[1]], f[2])
                         /\ f[3] # Torn}

DoneMeansStored ==
    [][\A r \in Requests :
         doneSent' > doneSent /\ import'[r] # import[r] /\ import[r].alone
            => Owed(r) \subseteq store]_vars

(* A request is dropped without a word, neither error nor on_done, over a  *)
(* channel it named itself only after a second upload, or when handlers    *)
(* meet that find no channels in memory: while one decodes the listing, or *)
(* after two of them decoded it at the same time.  No single request is,   *)
(* after any restart, and no two that overlap otherwise.                   *)
DroppedOverOthers ==
    [][\A r \in Requests, c \in Channels :
         Abandon(r, c) /\ uploads <= 1 /\ Decoded = {} /\ ~ muddled
            => c \notin DOMAIN import[r].body]_vars

(* plugin.json:53 "choose the channels that will be imported": what is     *)
(* imported belongs to the export the channels were chosen from.           *)
OnlyThisExport == store \subseteq picked
=============================================================================
