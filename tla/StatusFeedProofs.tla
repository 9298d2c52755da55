-------------------------- MODULE StatusFeedProofs --------------------------
(***************************************************************************)
(* Proofs about StatusFeed, for any bounds.  First its types; what is not  *)
(* a type is that no more than MaxAsks calls of syncWithServer are in      *)
(* flight: asked and on their way back are counted together, and move from *)
(* one to the other.  Then what the page knows: FeedInv follows what was   *)
(* published to the page, and what a page was answered to the poller.      *)
(***************************************************************************)
EXTENDS StatusFeed, FiniteSetTheorems, TLAPS

Gets == [pc : {"none", "sent", "answered"}, value : BOOLEAN]

LEMMA Typed ==
    /\ NoStatus \in Status /\ Interrupted \in Status
    /\ Unasked \in Gets /\ Sent \in Gets
    /\ "timer" \in Views /\ "toggle" \in Views
  BY DEF NoStatus, Interrupted, Status, Unasked, Sent, Gets, Views

\* Answers on their way are finitely many.
LEMMA RepliesFinite ==
    ASSUME NEW R, R \subseteq 0 .. MaxFetches
    PROVE  IsFiniteSet(R) /\ Cardinality(R) \in Nat
<1>1. IsFiniteSet(0 .. MaxFetches)
  BY FS_Interval, BoundsAssumption
<1> QED
  BY <1>1, FS_Subset, FS_CardinalityType

\* A call more is made only when there is room for its answer.
LEMMA AskKeeps ==
    ASSUME TypeOK, NEW c \in BOOLEAN, NEW s \in BOOLEAN, NEW f \in BOOLEAN,
           Ask(c, s, f)
    PROVE  asked' \in 0 .. MaxAsks /\ asked' + Cardinality(replies) <= MaxAsks
<1>1. Cardinality(replies) \in Nat
  BY RepliesFinite DEF TypeOK
<1> QED
  BY <1>1, BoundsAssumption, SMT DEF TypeOK, Ask, Room

\* An answer that is read is on its way, and no longer asked for.
LEMMA ServeKeeps == TypeOK /\ ServeLast => TypeOK'
<1> SUFFICES ASSUME TypeOK, ServeLast PROVE TypeOK'
  OBVIOUS
<1>1. IsFiniteSet(replies) /\ Cardinality(replies) \in Nat
  BY RepliesFinite DEF TypeOK
<1>2. replies' = replies \cup {last} /\ last \in 0 .. MaxFetches
  BY DEF ServeLast, TypeOK
<1>3. Cardinality(replies') <= Cardinality(replies) + 1
  BY <1>1, <1>2, FS_AddElement, SMT
<1>4. Cardinality(replies') \in Nat
  BY <1>2, RepliesFinite DEF TypeOK
<1>5. asked' \in 0 .. MaxAsks /\ asked' + Cardinality(replies') <= MaxAsks
  BY <1>1, <1>3, <1>4, BoundsAssumption, SMT DEF ServeLast, TypeOK
<1> QED
  BY <1>2, <1>5 DEF ServeLast, TypeOK, server, polling, views, bounds, history

LEMMA HearLastKeeps == TypeOK /\ HearLast => TypeOK'
<1> SUFFICES ASSUME TypeOK, HearLast PROVE TypeOK'
  OBVIOUS
<1>1. PICK at \in replies : lastShown' = at /\ replies' = replies \ {at}
  BY DEF HearLast
<1>2. IsFiniteSet(replies) /\ Cardinality(replies) \in Nat
  BY RepliesFinite DEF TypeOK
<1>3. Cardinality(replies') = Cardinality(replies) - 1
  BY <1>1, <1>2, FS_RemoveElement
<1>4. asked + Cardinality(replies') <= MaxAsks
  BY <1>2, <1>3, BoundsAssumption, SMT DEF TypeOK
<1> QED
  BY <1>1, <1>4 DEF HearLast, TypeOK, server, polling, views, bounds, history

\* A call that fails is no longer in flight.
LEMMA AskFailsKeeps == TypeOK /\ AskFails => TypeOK'
<1> SUFFICES ASSUME TypeOK, AskFails PROVE TypeOK'
  OBVIOUS
<1>1. IsFiniteSet(replies) /\ Cardinality(replies) \in Nat
  BY RepliesFinite DEF TypeOK
<1>2. faults' \in 0 .. MaxFaults
  BY BoundsAssumption, SMT DEF AskFails, TypeOK
<1>3. stopped' \in BOOLEAN
  BY Zenon DEF AskFails, TypeOK
<1>4. CASE asked > 0 /\ asked' = asked - 1 /\ UNCHANGED <<replies, lastShown>>
  <2>1. asked' \in 0 .. MaxAsks /\ asked' + Cardinality(replies) <= MaxAsks
    BY <1>1, <1>4, BoundsAssumption, SMT DEF TypeOK
  <2> QED
    BY <1>2, <1>3, <1>4, <2>1 DEF AskFails, TypeOK, server, polling, views, history
<1>5. ASSUME NEW at \in replies, replies' = replies \ {at},
             lastShown' \in {lastShown, at}, UNCHANGED asked
      PROVE  TypeOK'
  <2>1. Cardinality(replies') = Cardinality(replies) - 1
    BY <1>1, <1>5, FS_RemoveElement
  <2>2. asked + Cardinality(replies') <= MaxAsks
    BY <1>1, <2>1, BoundsAssumption, SMT DEF TypeOK
  <2>3. replies' \subseteq 0 .. MaxFetches /\ lastShown' \in 0 .. MaxFetches
    BY <1>5 DEF TypeOK
  <2> QED
    BY <1>2, <1>3, <1>5, <2>2, <2>3 DEF AskFails, TypeOK, server, polling, views, history
<1> QED
  BY <1>4, <1>5 DEF AskFails

LEMMA ReloadKeeps == TypeOK /\ Reload => TypeOK'
<1> SUFFICES ASSUME TypeOK, Reload PROVE TypeOK'
  OBVIOUS
<1>1. 1 \in 0 .. MaxAsks /\ 0 \in 0 .. MaxFetches /\ 1 + Cardinality({}) <= MaxAsks
  BY FS_EmptySet, BoundsAssumption, SMT
<1>2. reloads' \in 0 .. MaxReloads
  BY BoundsAssumption, SMT DEF Reload, TypeOK
<1>3. wire' \in Seq(Status)
  BY DEF Reload
<1> QED
  BY <1>1, <1>2, <1>3, Typed DEF Reload, TypeOK, Gets, server, polling

-----------------------------------------------------------------------------
\* The poller remembers what it publishes.
LEMMA PublishKeeps ==
    ASSUME TypeOK, NEW f \in BOOLEAN, Publish(f), faults' \in 0 .. MaxFaults
    PROVE  TypeOK'
<1> DEFINE new == [sync |-> read, fetch |-> f]
<1>1. new \in Status
  BY DEF TypeOK, Status
<1>2. previous' \in Status /\ wire' \in Seq(Status)
  <2>1. \/ previous' = new /\ wire' = Append(wire, new)
        \/ UNCHANGED <<previous, wire>>
    BY DEF Publish
  <2> HIDE DEF new
  <2>2. Append(wire, new) \in Seq(Status)
    BY <1>1, SMT DEF TypeOK
  <2> QED
    BY <1>1, <2>1, <2>2 DEF TypeOK
<1> QED
  BY <1>2 DEF TypeOK, Publish, server, views, asking, history

\* The server and the poller.
LEMMA ServerKeeps ==
    ASSUME TypeOK, Flip \/ FetchEnds \/ PollSync \/ PollFetch \/ PollFails
    PROVE  TypeOK'
<1> USE DEF TypeOK, polling, views, asking
<1>1. CASE Flip
  <2>1. flips' \in 0 .. MaxFlips
    BY <1>1, BoundsAssumption, SMT DEF Flip
  <2>2. flags' \in Status
    BY <1>1 DEF Flip, Status
  <2> QED
    BY <1>1, <2>1, <2>2 DEF Flip
<1>2. CASE FetchEnds
  <2>1. last' \in 0 .. MaxFetches
    BY <1>2, BoundsAssumption, SMT DEF FetchEnds
  <2> QED
    BY <1>2, <2>1 DEF FetchEnds, bounds, history
<1>3. CASE PollSync
  BY <1>3 DEF PollSync, Status, server, bounds
<1>4. CASE PollFetch
  BY <1>4, PublishKeeps DEF PollFetch, Status
<1>5. CASE PollFails
  <2>1. faults' \in 0 .. MaxFaults
    BY <1>5, BoundsAssumption, SMT DEF PollFails
  <2> QED
    BY <1>5, <2>1, PublishKeeps DEF PollFails, server, history
<1> QED
  BY <1>1, <1>2, <1>3, <1>4, <1>5

\* The page: what it hears, and what it asks.
LEMMA HearStatusKeeps == TypeOK /\ HearStatus => TypeOK'
<1> SUFFICES ASSUME TypeOK, HearStatus PROVE TypeOK'
  OBVIOUS
<1>1. Head(wire) \in Status /\ Tail(wire) \in Seq(Status)
  BY DEF HearStatus, TypeOK
<1>2. Head(wire).sync \in BOOLEAN /\ Head(wire).fetch \in BOOLEAN
  BY <1>1 DEF Status
<1>3. asked' \in 0 .. MaxAsks /\ asked' + Cardinality(replies) <= MaxAsks
  BY <1>2, AskKeeps DEF HearStatus
<1> QED
  BY <1>1, <1>2, <1>3 DEF HearStatus, TypeOK, server, polling, bounds

\* The timer's two flags, and the call they make.
LEMMA SetTimerKeeps ==
    ASSUME TypeOK, NEW s \in BOOLEAN, NEW f \in BOOLEAN, SetTimer(s, f)
    PROVE  /\ isSync' \in [Views -> BOOLEAN] /\ isFetch' \in BOOLEAN
           /\ asked' \in 0 .. MaxAsks /\ asked' + Cardinality(replies) <= MaxAsks
  BY AskKeeps DEF SetTimer, TypeOK

LEMMA ViewKeeps ==
    ASSUME TypeOK, NEW v \in Views,
           ServeFlag(v) \/ ServeFlagFails(v) \/ HearFlag(v) \/ GetFails(v)
    PROVE  TypeOK'
<1>1. get[v].value \in BOOLEAN /\ flags.sync \in BOOLEAN /\ flags.fetch \in BOOLEAN
      /\ isSync["timer"] \in BOOLEAN
  BY Typed DEF TypeOK, Status
<1>2. CASE ServeFlag(v)
  <2>1. get' \in [Views -> Gets]
    BY <1>1, <1>2 DEF ServeFlag, TypeOK, Gets
  <2> QED
    BY <1>2, <2>1 DEF ServeFlag, TypeOK, Gets, server, polling, views, asking, bounds
<1>3. CASE HearFlag(v)
  <2>1. get' \in [Views -> Gets]
    BY <1>3, Typed DEF HearFlag, TypeOK, Gets
  <2>2. /\ isSync' \in [Views -> BOOLEAN] /\ isFetch' \in BOOLEAN
        /\ asked' \in 0 .. MaxAsks /\ asked' + Cardinality(replies) <= MaxAsks
    <3>1. CASE v = "toggle"
      BY <1>1, <1>3, <3>1 DEF HearFlag, TypeOK
    <3>2. CASE v # "toggle"
      BY <1>1, <1>3, <3>2, SetTimerKeeps DEF HearFlag, TypeOK
    <3> QED
      BY <3>1, <3>2
  <2> QED
    BY <1>3, <2>1, <2>2 DEF HearFlag, TypeOK, Gets, server, polling, bounds, history
<1>4. CASE GetFails(v)
  <2>1. get' \in [Views -> Gets]
    BY <1>4, Typed DEF GetFails, TypeOK, Gets
  <2>2. /\ isSync' \in [Views -> BOOLEAN] /\ isFetch' \in BOOLEAN
        /\ asked' \in 0 .. MaxAsks /\ asked' + Cardinality(replies) <= MaxAsks
    BY <1>1, <1>4, SetTimerKeeps DEF GetFails, TypeOK
  <2>3. faults' \in 0 .. MaxFaults
    BY <1>4, BoundsAssumption, SMT DEF GetFails, TypeOK
  <2> QED
    BY <1>4, <2>1, <2>2, <2>3 DEF GetFails, TypeOK, Gets, server, polling
<1>5. CASE ServeFlagFails(v)
  <2>1. get' \in [Views -> Gets]
    BY <1>1, <1>5 DEF ServeFlagFails, TypeOK, Gets
  <2>2. faults' \in 0 .. MaxFaults
    BY <1>5, BoundsAssumption, SMT DEF ServeFlagFails, TypeOK
  <2>3. fresh' \subseteq Views /\ misled' \subseteq Views
    BY <1>5 DEF ServeFlagFails, TypeOK
  <2> QED
    BY <1>5, <2>1, <2>2, <2>3 DEF ServeFlagFails, TypeOK, Gets, server, polling, views,
                                  asking
<1> QED
  BY <1>2, <1>3, <1>4, <1>5

LEMMA CountedDownKeeps == TypeOK /\ CountedDown => TypeOK'
<1> SUFFICES ASSUME TypeOK, CountedDown PROVE TypeOK'
  OBVIOUS
<1>1. Cardinality(replies) \in Nat
  BY RepliesFinite DEF TypeOK
<1>2. asked' \in 0 .. MaxAsks /\ asked' + Cardinality(replies) <= MaxAsks
  BY <1>1, BoundsAssumption, SMT DEF CountedDown, Room, TypeOK
<1> QED
  BY <1>2 DEF CountedDown, TypeOK, server, polling, views, bounds, history

LEMMA CrashKeeps == TypeOK /\ Crash => TypeOK'
<1> SUFFICES ASSUME TypeOK, Crash PROVE TypeOK'
  OBVIOUS
<1>1. Cardinality(replies) \in Nat
  BY RepliesFinite DEF TypeOK
<1>2. asked' \in 0 .. MaxAsks /\ asked' + Cardinality(replies) <= MaxAsks
  BY <1>1, BoundsAssumption, SMT DEF Crash, TypeOK
<1>3. faults' \in 0 .. MaxFaults
  BY BoundsAssumption, SMT DEF Crash, TypeOK
<1>4. get' \in [Views -> Gets]
  BY Typed DEF Crash, TypeOK, Gets
<1> QED
  BY <1>2, <1>3, <1>4, Typed DEF Crash, TypeOK, Gets, server, views

LEMMA FeedStep == TypeOK /\ [Next]_vars => TypeOK'
<1> SUFFICES ASSUME TypeOK, [Next]_vars PROVE TypeOK'
  OBVIOUS
<1>1. CASE Flip \/ FetchEnds \/ PollSync \/ PollFetch \/ PollFails
  BY <1>1, ServerKeeps
<1>2. CASE HearStatus \/ ServeLast \/ HearLast \/ AskFails \/ CountedDown \/ Reload \/ Crash
  BY <1>2, HearStatusKeeps, ServeKeeps, HearLastKeeps, AskFailsKeeps, CountedDownKeeps,
     ReloadKeeps, CrashKeeps
<1>3. ASSUME NEW v \in Views,
             ServeFlag(v) \/ ServeFlagFails(v) \/ HearFlag(v) \/ GetFails(v)
      PROVE  TypeOK'
  BY <1>3, ViewKeeps
<1>4. CASE UNCHANGED vars
  BY <1>4 DEF vars, server, polling, views, asking, bounds, history, TypeOK
<1> QED
  BY <1>1, <1>2, <1>3, <1>4 DEF Next

LEMMA FeedInit == Init => TypeOK
<1> SUFFICES ASSUME Init PROVE TypeOK
  OBVIOUS
<1>1. 0 + Cardinality({}) <= MaxAsks /\ 0 \in 0 .. MaxAsks /\ 0 \in 0 .. MaxFetches
      /\ 0 \in 0 .. MaxFaults /\ 0 \in 0 .. MaxFlips /\ 0 \in 0 .. MaxReloads
  BY FS_EmptySet, BoundsAssumption, SMT
<1>2. flags \in Status
  BY Typed DEF Init
<1>3. wire \in Seq(Status)
  BY DEF Init
<1> QED
  BY <1>1, <1>2, <1>3, Typed DEF Init, TypeOK, Gets

\* Every variable of the status feed keeps its type, whatever fails or is
\* reloaded, and the page has at most MaxAsks calls of syncWithServer in
\* flight (TimeLeftUntilNextFetchSetting.tsx:82).
THEOREM TypeCorrect == Spec => []TypeOK
  BY FeedInit, FeedStep, PTL DEF Spec

-----------------------------------------------------------------------------
\* What the page knows

\* What view v holds, or is about to: the answer to its own request.
Told(v) == IF get[v].pc = "answered" THEN get[v].value ELSE isSync[v]

\* A page told x of the flag needs no event, gets one, or the poller is still
\* to read what it was told.
Knows(v, x) == \/ x = previous.sync
               \/ poller = "fetch" /\ x = read
               \/ v \in fresh /\ x = flags.sync

\* After a crash no page open then knows anything: the poller has forgotten what
\* it published, and events of before may still arrive.
Lost == crashed /\ misled = Views

FeedInv == /\ ~ Lost /\ wire # << >> => wire[Len(wire)] = previous
           /\ ~ crashed /\ wire = << >> /\ reloads = 0 => status = previous
           /\ wire = << >> => \A v \in Views \ misled :
                                  get[v].pc # "sent" => Knows(v, Told(v))

\* Steps that neither publish, nor deliver, nor change what views hold.
LEMMA HearsKept ==
    ASSUME FeedInv, UNCHANGED <<wire, status, isSync, get>>, crashed' = crashed,
           misled \subseteq misled', misled' \subseteq Views, previous' = previous,
           reloads' = reloads,
           \A v \in Views \ misled' : Knows(v, Told(v)) => Knows(v, Told(v))'
    PROVE  FeedInv'
<1>1. Lost => Lost'
  BY DEF Lost
<1> QED
  BY <1>1 DEF FeedInv

\* When the last event arrives, the page knows what was published last.
LEMMA HearsEvent == TypeOK /\ FeedInv /\ HearStatus => FeedInv'
<1> SUFFICES ASSUME TypeOK, FeedInv, HearStatus PROVE FeedInv'
  OBVIOUS
<1> DEFINE overtaken == {v \in Views : get[v].pc = "answered"}
<1>1. /\ wire \in Seq(Status) /\ wire # << >> /\ crashed' = crashed
      /\ wire' = Tail(wire) /\ status' = Head(wire) /\ previous' = previous
      /\ isSync' = [v \in Views |-> Head(wire).sync] /\ get' = get
      /\ misled' = misled \cup overtaken
  BY DEF TypeOK, HearStatus, polling
<1>2. Len(wire) \in Nat /\ Len(wire) > 0 /\ Len(Tail(wire)) = Len(wire) - 1
      /\ Tail(wire) \in Seq(Status)
      /\ \A i \in 1 .. Len(Tail(wire)) : Tail(wire)[i] = wire[i + 1]
  BY <1>1
<1>3. CASE Lost
  <2>1. Lost'
    BY <1>1, <1>3 DEF Lost
  <2> QED
    BY <2>1 DEF FeedInv, Lost
<1>4. CASE ~ Lost /\ wire' = << >>
  <2>1. Len(wire) = 1 /\ Head(wire) = previous
    <3>1. Tail(wire) = << >> /\ Len(<< >>) = 0
      BY <1>1, <1>4, Zenon
    <3>2. Len(wire) \in Nat /\ 0 = Len(wire) - 1
      BY <1>2, <3>1, Zenon
    <3>3. Head(wire) = wire[1]
      BY <1>1
    <3>4. Len(wire) = 1
      BY <3>2
    <3>5. wire[Len(wire)] = previous
      BY <1>1, <1>4 DEF FeedInv
    <3> QED
      BY <3>3, <3>4, <3>5
  <2>2. ASSUME NEW v \in Views \ misled', get'[v].pc # "sent" PROVE Knows(v, Told(v))'
    <3>1. get'[v].pc # "answered" /\ isSync'[v] = previous.sync
      BY <1>1, <2>1, <2>2
    <3> QED
      BY <1>1, <3>1 DEF Knows, Told
  <2> QED
    BY <1>1, <1>4, <2>1, <2>2 DEF FeedInv
<1>5. CASE ~ Lost /\ wire' # << >>
  <2>1. Len(Tail(wire)) > 0
    BY <1>1, <1>2, <1>5
  <2>2. wire[Len(wire)] = previous
    BY <1>1, <1>5 DEF FeedInv
  <2>3. wire'[Len(wire')] = previous
    BY <1>1, <1>2, <2>1, <2>2
  <2> QED
    BY <1>1, <1>5, <2>3 DEF FeedInv
<1> QED
  BY <1>3, <1>4, <1>5

\* The poller's second read, whatever it gives: what it publishes is what it
\* remembers.
LEMMA HearsPoll ==
    ASSUME TypeOK, FeedInv, NEW f \in BOOLEAN, Publish(f)
    PROVE  FeedInv'
<1> DEFINE new == [sync |-> read, fetch |-> f]
<1>1. /\ poller = "fetch" /\ UNCHANGED <<status, isSync, get, flags, reloads>>
      /\ UNCHANGED history /\ wire \in Seq(Status) /\ new \in Status
  BY DEF Publish, TypeOK, Status, server, views
<1>2. CASE Changed(new) /\ previous' = new /\ wire' = Append(wire, new)
  <2> HIDE DEF new
  <2>1. Len(wire') = Len(wire) + 1 /\ wire'[Len(wire')] = new /\ Len(wire') > 0
    BY <1>1, <1>2
  <2>2. wire' # << >>
    BY <2>1
  <2> QED
    BY <1>2, <2>1, <2>2 DEF FeedInv
<1>3. CASE ~ Changed(new) /\ UNCHANGED <<previous, wire>>
  <2>1. read = previous.sync
    BY <1>3 DEF Changed
  <2>2. \A v \in Views : Knows(v, Told(v)) => Knows(v, Told(v))'
    BY <1>1, <1>3, <2>1 DEF Knows, Told, history
  <2>3. misled \subseteq Views /\ UNCHANGED <<crashed, misled>>
    BY <1>1 DEF history, TypeOK
  <2> QED
    BY <1>1, <1>3, <2>2, <2>3, HearsKept
<1> QED
  BY <1>2, <1>3 DEF Publish

\* A view's own request.
LEMMA HearsView ==
    ASSUME TypeOK, FeedInv, NEW v \in Views,
           ServeFlag(v) \/ ServeFlagFails(v) \/ HearFlag(v) \/ GetFails(v)
    PROVE  FeedInv'
<1>1. /\ UNCHANGED <<flags, poller, read, previous, wire, status, reloads, crashed>>
      /\ get \in [Views -> Gets] /\ isSync \in [Views -> BOOLEAN]
      /\ misled \subseteq misled' /\ misled' \subseteq Views
      /\ fresh \ {v} \subseteq fresh' /\ (fresh \subseteq fresh' \/ v \in misled')
  BY DEF ServeFlag, ServeFlagFails, HearFlag, GetFails, TypeOK, Gets, server, polling,
         views, bounds, history
<1>2. ASSUME NEW u \in Views \ misled', get'[u].pc # "sent", wire = << >>
      PROVE  Knows(u, Told(u))'
  <2>0. u \in fresh => u \in fresh'
    BY <1>1, <1>2
  <2>1. ASSUME get[u].pc # "sent", Told(u)' = Told(u) PROVE Knows(u, Told(u))'
    <3>1. Knows(u, Told(u))
      BY <1>1, <1>2, <2>1 DEF FeedInv
    <3> QED
      BY <1>1, <2>0, <2>1, <3>1 DEF Knows
  <2>2. CASE u # v
    <3>1. ASSUME ServeFlag(v) \/ ServeFlagFails(v)
          PROVE  get'[u] = get[u] /\ isSync'[u] = isSync[u]
      BY <1>1, <2>2, <3>1 DEF ServeFlag, ServeFlagFails, views
    <3>2. ASSUME HearFlag(v) PROVE get'[u] = get[u] /\ isSync'[u] = isSync[u]
      BY <1>1, <2>2, <3>2 DEF HearFlag, SetTimer, Views
    <3>3. ASSUME GetFails(v) PROVE get'[u] = get[u] /\ isSync'[u] = isSync[u]
      BY <1>1, <2>2, <3>3 DEF GetFails, SetTimer, Views
    <3>4. get'[u] = get[u] /\ isSync'[u] = isSync[u]
      BY <3>1, <3>2, <3>3
    <3> QED
      BY <1>2, <2>1, <3>4 DEF Told
  <2>3. CASE u = v /\ (ServeFlag(v) \/ ServeFlagFails(v))
    <3>1. /\ get'[u] = [pc |-> "answered", value |-> flags.sync] /\ u \in fresh'
      <4>1. CASE ServeFlag(v)
        BY <1>1, <1>2, <2>3, <4>1 DEF ServeFlag
      <4>2. CASE ServeFlagFails(v)
        <5>1. flags.sync = FALSE
          BY <1>2, <2>3, <4>2 DEF ServeFlagFails, TypeOK, Status
        <5> QED
          BY <1>1, <1>2, <2>3, <4>2, <5>1 DEF ServeFlagFails
      <4> QED
        BY <2>3, <4>1, <4>2
    <3> QED
      BY <1>1, <3>1 DEF Told, Knows
  <2>4. CASE u = v /\ HearFlag(v)
    <3>1. /\ get[v].pc = "answered" /\ get'[v].pc = "none"
          /\ isSync'[v] = get[v].value
      BY <1>1, <2>4 DEF HearFlag, SetTimer, Unasked, Views
    <3> QED
      BY <2>1, <2>4, <3>1 DEF Told
  <2>5. CASE u = v /\ GetFails(v)
    BY <1>2, <2>5 DEF GetFails
  <2> QED
    BY <2>2, <2>3, <2>4, <2>5
<1>3. Lost => Lost'
  BY <1>1 DEF Lost
<1> QED
  BY <1>1, <1>2, <1>3 DEF FeedInv

LEMMA HearsInit == Init => FeedInv
<1> SUFFICES ASSUME Init PROVE FeedInv
  OBVIOUS
<1>1. previous = NoStatus /\ status = NoStatus /\ wire = << >>
  BY DEF Init
<1>2. \A v \in Views : Told(v) = previous.sync
  BY DEF Init, Told, NoStatus, Unasked
<1> QED
  BY <1>1, <1>2 DEF FeedInv, Knows

LEMMA HearsStep == TypeOK /\ FeedInv /\ [Next]_vars => FeedInv'
<1> SUFFICES ASSUME TypeOK, FeedInv, [Next]_vars PROVE FeedInv'
  OBVIOUS
<1> USE DEF server, polling, views, asking, bounds, history
<1>0. misled \subseteq Views /\ misled' \subseteq Views
  BY FeedStep DEF TypeOK
<1>1. CASE Flip
  <2>1. /\ misled \subseteq misled' /\ UNCHANGED <<poller, read, previous, isSync, get>>
        /\ \/ misled' = misled \cup fresh
           \/ flags'.sync = flags.sync /\ fresh' = fresh
    BY <1>1 DEF Flip, TypeOK, Status
  <2>2. \A v \in Views \ misled' : Knows(v, Told(v)) => Knows(v, Told(v))'
    BY <2>1 DEF Knows, Told
  <2> QED
    BY <1>0, <1>1, <2>1, <2>2, HearsKept DEF Flip
<1>2. CASE PollSync
  <2>1. \A v \in Views : Knows(v, Told(v)) => Knows(v, Told(v))'
    BY <1>2 DEF PollSync, Knows, Told
  <2> QED
    BY <1>0, <1>2, <2>1, HearsKept DEF PollSync
<1>3. CASE PollFails
  <2>1. CASE Publish(FALSE)
    BY <2>1, HearsPoll
  <2>2. CASE poller = "sync" /\ UNCHANGED <<flags, previous, wire, views, get, reloads, history>>
    <3>1. \A v \in Views : Knows(v, Told(v)) => Knows(v, Told(v))'
      BY <1>3, <2>2 DEF PollFails, Knows, Told
    <3> QED
      BY <1>0, <2>2, <3>1, HearsKept
  <2> QED
    BY <1>3, <2>1, <2>2 DEF PollFails
<1>4. CASE PollFetch
  BY <1>4, HearsPoll DEF PollFetch, TypeOK, Status
<1>5. CASE HearStatus
  BY <1>5, HearsEvent
<1>6. CASE FetchEnds \/ ServeLast \/ HearLast \/ AskFails \/ CountedDown \/ UNCHANGED vars
  <2>1. /\ UNCHANGED <<flags, polling, wire, status, isSync, get, reloads, history>>
    BY <1>6 DEF FetchEnds, ServeLast, HearLast, AskFails, CountedDown, vars
  <2>2. \A v \in Views : Knows(v, Told(v)) => Knows(v, Told(v))'
    BY <2>1 DEF Knows, Told
  <2> QED
    BY <1>0, <2>1, <2>2, HearsKept
<1>7. CASE Reload
  <2>1. wire' = << >> /\ reloads' # 0 /\ get' = [v \in Views |-> Sent]
    BY <1>7 DEF Reload, TypeOK
  <2> QED
    BY <2>1 DEF FeedInv, Sent
<1>8. CASE Crash
  BY <1>8 DEF Crash, FeedInv, Lost
<1>9. ASSUME NEW v \in Views,
             ServeFlag(v) \/ ServeFlagFails(v) \/ HearFlag(v) \/ GetFails(v)
      PROVE  FeedInv'
  BY <1>9, HearsView
<1> QED
  BY <1>1, <1>2, <1>3, <1>4, <1>5, <1>6, <1>7, <1>8, <1>9 DEF Next

THEOREM FeedInvariant == Spec => []FeedInv
  BY FeedInit, FeedStep, HearsInit, HearsStep, PTL DEF Spec

\* An open page is never behind what was published: when no event is on its way
\* it holds the status the poller remembers, which the poller compares with
\* (activate_hooks.go), so that nothing stays unpublished because of it.
THEOREM PageHasPublished ==
    Spec => [](~ crashed /\ reloads = 0 /\ wire = << >> => status = previous)
<1>1. FeedInv => (~ crashed /\ reloads = 0 /\ wire = << >> => status = previous)
  BY DEF FeedInv
<1> QED
  BY <1>1, FeedInvariant, PTL

\* The switch of any page, opened when it may be, is where the flag is as soon as
\* the poller has read the flag as it is and nothing is on its way, unless the
\* page was misled (StatusFeed says how, a read of the store that fails among the
\* ways): it is never left there waiting for an event that the poller has no
\* reason to publish.
THEOREM SwitchAgrees ==
    Spec => [](wire = << >> /\ previous.sync = flags.sync
               /\ (poller = "fetch" => read = flags.sync)
                   => \A v \in Views \ misled : get[v].pc = "none" => isSync[v] = flags.sync)
<1>1. FeedInv => (wire = << >> /\ previous.sync = flags.sync
                  /\ (poller = "fetch" => read = flags.sync)
                      => \A v \in Views \ misled : get[v].pc = "none" => isSync[v] = flags.sync)
  BY DEF FeedInv, Knows, Told
<1> QED
  BY <1>1, FeedInvariant, PTL
=============================================================================
