---------------------------- MODULE FetchInterval ----------------------------
(***************************************************************************)
(* The fetch interval: the form of SyncIntervalSetting.tsx, the handler    *)
(* handleFetchInterval (server/http.go), UpdateFetchInterval and the part  *)
(* of StartSync that reads the interval and makes the ticker (syncPosts).  *)
(*                                                                         *)
(* The interval is a number of seconds in the store and in a request, a    *)
(* time.Duration of 64 bits in the ticker, hours and minutes in the form.  *)
(* Updates run concurrently with each other and with the session, without  *)
(* a lock; one session runs at a time here (SyncEngine has the others).    *)
(***************************************************************************)
EXTENDS Integers

CONSTANTS
    Unit,       \* nanoseconds in a second
    Half,       \* 2^63: a Duration lies in -Half .. Half - 1
    Default,    \* the interval initializeStore stores
    Hours, Minutes,   \* what the two inputs take
    Typed,      \* seconds that clients other than the form ask for
    Requests,   \* bound: updates handled at a time
    NoRequest,
    Faults      \* TRUE: the store may fail, the process may be killed

ASSUME UnitAssumption == Unit \in Nat \ {0} /\ Half \in Nat /\ Default \in Nat \ {0}
                         /\ Default * Unit < Half
ASSUME InputAssumption == Hours \subseteq 0..23 /\ Minutes \subseteq 0..59 /\ Typed \subseteq Int
ASSUME FormFits == ((23 * 60 + 59) * 60) * Unit < Half
ASSUME RequestsAssumption ==
    NoRequest \notin Requests /\ "session" \notin Requests /\ Faults \in BOOLEAN

VARIABLES
    up,         \* the plugin process is alive
    stored,     \* fetch_interval in the store, in seconds
    period,     \* the ticker's period as a Duration; 0: the ticker is nil
    session,    \* the session: "none", "read", "run"
    interval,   \* the fetchInterval it read
    hpc,        \* hpc[r]: where update r is
    dur,        \* dur[r]: its newInterval
    form,       \* the form's syncInterval: hour and minute
    get,        \* its GET: "none", "sent", or "body" when its JSON is awaited
    answer,     \* the seconds in that JSON
    mine,       \* its POST that is not answered
    late,       \* history: the form was saved while the JSON was awaited
    filled,     \* history: it shows what a GET answered that was not late
    sent,       \* history: what it showed when it was saved last
    last,       \* history: what it saved last, when nobody updated since
    wrapped,    \* history: an accepted Duration was not the seconds asked
    mixed,      \* history: updates and session that overlapped another
    apart       \* history: the last to set ticker or store was one of them, or failed

ticking == <<period, session, interval>>
updates == <<hpc, dur>>
page == <<form, get, answer, mine, late, filled, sent, last>>
history == <<wrapped, mixed, apart>>
vars == <<up, stored, ticking, updates, page, history>>

NoForm == [hour |-> 0, minute |-> 0]

Init ==
    /\ up = TRUE /\ stored = Default
    /\ period = 0 /\ session = "none" /\ interval = 0
    /\ hpc = [r \in Requests |-> "idle"] /\ dur = [r \in Requests |-> 0]
    /\ form = NoForm /\ get = "sent" /\ answer = 0 /\ mine = NoRequest
    /\ late = FALSE /\ filled = FALSE /\ sent = NoForm /\ last = NoForm
    /\ wrapped = FALSE /\ mixed = {} /\ apart = FALSE

-----------------------------------------------------------------------------
\* time.Duration(n) * time.Second, in 64 bits.
Wrapped(n) == ((n * Unit + Half) % (2 * Half)) - Half

\* int(d.Seconds()) of a positive Duration.
Seconds(d) == d \div Unit

\* Who is in the middle of reading or setting the interval.
Handled == {"check", "reset", "put"}
Busy == {r \in Requests : hpc[r] \in Handled}
            \cup (IF session = "read" THEN {"session"} ELSE {})

\* One more joins them.
Joins(a) == mixed' = (mixed \ {a}) \cup (IF Busy = {} THEN {} ELSE Busy \cup {a})

\* A panic or a kill: handlers, session and ticker are gone, the store stays.
Die ==
    /\ up' = FALSE
    /\ period' = 0 /\ session' = "none" /\ interval' = 0
    /\ hpc' = [r \in Requests |-> IF hpc[r] \in Handled THEN "refused" ELSE hpc[r]]
    /\ dur' = [r \in Requests |-> 0]
    /\ UNCHANGED <<stored, page, history>>

Crash == Faults /\ up /\ Die

Restart == /\ ~up
           /\ up' = TRUE
           /\ UNCHANGED <<stored, ticking, updates, page, history>>

-----------------------------------------------------------------------------
\* The session: StartSync

ReadInterval ==
    /\ up /\ session = "none"
    /\ session' = "read" /\ interval' = stored
    /\ Joins("session")
    /\ UNCHANGED <<up, stored, period, updates, page, wrapped, apart>>

\* NewTicker panics on an interval that is not positive.
NewTicker ==
    /\ session = "read"
    /\ \/ interval <= 0 /\ Die
       \/ /\ interval > 0
          /\ period' = interval * Unit
          /\ session' = "run"
          /\ apart' = ("session" \in mixed)
          /\ UNCHANGED <<up, stored, interval, updates, page, wrapped, mixed>>

\* StopSync and its SetTickerNil.
SessionEnds ==
    /\ session = "run"
    /\ session' = "none" /\ period' = 0 /\ interval' = 0
    /\ UNCHANGED <<up, stored, updates, page, history>>

-----------------------------------------------------------------------------
\* The handler of an update, and UpdateFetchInterval

\* handleFetchInterval: the multiplication is not checked.
Post(r, n) ==
    /\ hpc[r] = "idle"
    /\ hpc' = [hpc EXCEPT ![r] = IF up THEN "check" ELSE "refused"]
    /\ dur' = [dur EXCEPT ![r] = IF up THEN Wrapped(n) ELSE 0]
    /\ wrapped' = (wrapped \/ (Wrapped(n) > 0 /\ Wrapped(n) # n * Unit))
    /\ IF up THEN Joins(r) ELSE UNCHANGED mixed

\* A client other than the form.
PostOther(r, n) ==
    /\ Post(r, n)
    /\ sent' = NoForm /\ last' = NoForm
    /\ UNCHANGED <<up, stored, ticking, form, get, answer, mine, late, filled, apart>>

Step(r, pc) == hpc' = [hpc EXCEPT ![r] = pc] /\ UNCHANGED dur
Finish(r, pc) == hpc' = [hpc EXCEPT ![r] = pc] /\ dur' = [dur EXCEPT ![r] = 0]

\* UpdateFetchInterval after its check: a ticker, if there is one, is reset first.
Goes(r) == Step(r, IF period = 0 THEN "put" ELSE "reset")

\* Mutant: any interval is taken.
CheckTakesAny(r) ==
    /\ hpc[r] = "check"
    /\ Goes(r)
    /\ UNCHANGED <<up, stored, ticking, page, history>>

\* Mutant: an interval of zero is taken.
CheckTakesZero(r) ==
    /\ hpc[r] = "check"
    /\ IF dur[r] < 0 THEN Finish(r, "refused") ELSE Goes(r)
    /\ UNCHANGED <<up, stored, ticking, page, history>>

\* The interval must be positive.
Check(r) ==
    /\ hpc[r] = "check"
    /\ IF dur[r] <= 0 THEN Finish(r, "refused") ELSE Goes(r)
    /\ UNCHANGED <<up, stored, ticking, page, history>>

\* Mutant: the ticker of a running session keeps its period.
ResetTickerNot(r) ==
    /\ hpc[r] = "reset"
    /\ Step(r, "put")
    /\ UNCHANGED <<up, stored, ticking, page, history>>

\* The session may have set the ticker to nil since: the Reset panics.
ResetTicker(r) ==
    /\ hpc[r] = "reset"
    /\ \/ period = 0 /\ Die
       \/ /\ period # 0
          /\ period' = dur[r]
          /\ Step(r, "put")
          /\ UNCHANGED <<up, stored, session, interval, page, history>>

\* setFetchInterval; when it fails the ticker keeps what it was reset to.
Put(r) ==
    /\ hpc[r] = "put"
    /\ \/ stored' = Seconds(dur[r]) /\ Finish(r, "ok") /\ apart' = (r \in mixed)
       \/ Faults /\ UNCHANGED stored /\ Finish(r, "refused") /\ apart' = TRUE
    /\ UNCHANGED <<up, ticking, page, wrapped, mixed>>

Update(r) == Check(r) \/ ResetTicker(r) \/ Put(r)

\* The other client takes its answer.
Answered(r) ==
    /\ hpc[r] \in {"ok", "refused"} /\ r # mine
    /\ Step(r, "idle")
    /\ UNCHANGED <<up, stored, ticking, page, history>>

-----------------------------------------------------------------------------
\* The form

\* What the form makes of the seconds answered.
FormOf(s) == [hour |-> s \div 3600, minute |-> (s % 3600) \div 60]

Loading == get = "sent" \/ mine # NoRequest

\* The page is opened, or opened again: a POST it waits for goes on.
Open ==
    /\ form' = NoForm /\ get' = "sent" /\ answer' = 0 /\ mine' = NoRequest
    /\ late' = FALSE /\ filled' = FALSE /\ sent' = NoForm
    /\ UNCHANGED <<up, stored, ticking, updates, last, history>>

\* The response is there: loading ends, its body is still to be read.
GetAnswered ==
    /\ get = "sent" /\ up
    /\ get' = "body" /\ answer' = stored
    /\ UNCHANGED <<up, stored, ticking, updates, form, mine, late, filled, sent,
                   last, history>>

GetEnds == get' = "none" /\ answer' = 0 /\ late' = FALSE

\* The body overwrites what was typed, and saved, meanwhile.
GetShown ==
    /\ get = "body"
    /\ GetEnds
    /\ form' = FormOf(answer) /\ filled' = ~late
    /\ UNCHANGED <<up, stored, ticking, updates, mine, sent, last, history>>

GetFails ==
    /\ get # "none" /\ (~up \/ Faults)
    /\ GetEnds
    /\ UNCHANGED <<up, stored, ticking, updates, form, mine, filled, sent, last, history>>

\* handleSyncIntervalHourChange, handleSyncIntervalMinuteChange.
Edit ==
    /\ \/ \E h \in Hours : form' = [form EXCEPT !.hour = h]
       \/ \E m \in Minutes : form' = [form EXCEPT !.minute = m]
    /\ filled' = FALSE
    /\ UNCHANGED <<up, stored, ticking, updates, get, answer, mine, late, sent, last, history>>

\* Mutant: the hours are not counted in minutes.
SecondsOfMinutes(f) == (f.hour + f.minute) * 60

\* handleSyncIntervalSubmit.
SecondsOf(f) == (f.hour * 60 + f.minute) * 60

Save(r) ==
    /\ ~Loading /\ form # NoForm
    /\ Post(r, SecondsOf(form))
    /\ mine' = r
    /\ sent' = IF Busy \ {"session"} = {} THEN form ELSE NoForm
    /\ last' = NoForm /\ late' = (get = "body")
    /\ UNCHANGED <<up, stored, ticking, form, get, answer, filled, apart>>

SaveAnswered ==
    /\ mine # NoRequest /\ hpc[mine] \in {"ok", "refused"}
    /\ last' = IF hpc[mine] = "ok" THEN sent ELSE NoForm
    /\ mine' = NoRequest /\ sent' = NoForm
    /\ Step(mine, "idle")
    /\ UNCHANGED <<up, stored, ticking, form, get, answer, late, filled, history>>

-----------------------------------------------------------------------------
Next ==
    \/ Crash \/ Restart \/ ReadInterval \/ NewTicker \/ SessionEnds
    \/ \E r \in Requests : \/ \E n \in Typed : PostOther(r, n)
                           \/ Update(r) \/ Answered(r) \/ Save(r)
    \/ Open \/ GetAnswered \/ GetShown \/ GetFails \/ Edit \/ SaveAnswered

Spec == Init /\ [][Next]_vars

-----------------------------------------------------------------------------
Duration == -Half .. (Half - 1)
Form == [hour : Nat, minute : 0..59]

TypeOK ==
    /\ up \in BOOLEAN /\ stored \in Nat
    /\ period \in Duration /\ period >= 0
    /\ session \in {"none", "read", "run"} /\ interval \in Nat
    /\ hpc \in [Requests -> {"idle", "ok", "refused"} \cup Handled]
    /\ dur \in [Requests -> Duration]
    /\ form \in Form /\ get \in {"none", "sent", "body"} /\ answer \in Nat
    /\ mine \in Requests \cup {NoRequest}
    /\ late \in BOOLEAN /\ filled \in BOOLEAN /\ sent \in Form /\ last \in Form
    /\ wrapped \in BOOLEAN /\ mixed \subseteq Requests \cup {"session"} /\ apart \in BOOLEAN

\* No session dies in NewTicker, and none will: the interval stored is
\* positive, unless a request so large was taken that its Duration wrapped
\* (http.go:175), which may leave less than a second.
StartsUnlessWrapped == wrapped \/ (stored > 0 /\ (session = "read" => interval > 0))

\* The ticker has the interval that is stored, whenever the last update or
\* start ran by itself and succeeded: what failed or overlapped may leave
\* them apart, and the next one alone brings them together.
TickerAsStored ==
    ~apart /\ period # 0 /\ Busy = {} => stored = Seconds(period)

\* What a GET brings is what the form saved last, the same page or an earlier
\* one, whatever was saved, killed and reloaded on the way: a POST that failed
\* or that the page no longer waits for is not taken for saved, and seconds,
\* hours and minutes translate into each other.  Not so for a GET whose body
\* the page still awaits when it is saved: Save is enabled by then, and the old
\* body replaces what was saved (SyncIntervalSetting.tsx:47-58).
ShowsSaved == filled /\ last # NoForm => form = last
=============================================================================
