-------------------------- MODULE SyncEngineProofs --------------------------
(***************************************************************************)
(* Proofs about SyncEngine, for any number of requests and of pages and    *)
(* for every mix of requests and faults.  Two inductive invariants carry   *)
(* them:                                                                   *)
(*   OwnInv      holds whatever the interleaving: whose a raised flag and  *)
(*               a non-nil ticker are, and what may use a channel;         *)
(*   SerialInv   holds when requests come one at a time: sessions do not   *)
(*               overlap because a request that waits for the check of the *)
(*               ticker sees it non-nil until the last session is gone.    *)
(***************************************************************************)
EXTENDS SyncEngine, TLAPS

-----------------------------------------------------------------------------
\* Types

\* A process that dies starts again from well typed variables (Die, Volatile).
LEMMA VolatileType == Volatile => VolatileTypeOK'
<1> SUFFICES ASSUME Volatile PROVE VolatileTypeOK'
  OBVIOUS
<1> USE DEF Volatile
<1>1. /\ ticker' \in {"nil", "running", "stopped"} /\ tick' \in BOOLEAN
      /\ ctxCancel' \in Slots \cup {NoSlot}
      /\ cancelled' \subseteq Slots /\ closed' \subseteq Slots /\ panicking' \subseteq Slots
  OBVIOUS
<1>2. path' \in [Slots -> Paths \cup {"none"}]
  OBVIOUS
<1>3. hpc' \in [Slots -> HandlerPoints]
  BY DEF HandlerPoints
<1>4. spc' \in [Slots -> SyncerPoints]
  BY DEF SyncerPoints
<1>5. ran' \in [Slots -> BOOLEAN]
  OBVIOUS
<1>6. pages' \in [Slots -> 0..MaxPages]
  BY BoundsAssumption
<1>7. fpc' \in [Slots -> ForwarderPoints]
  BY DEF ForwarderPoints
<1>8. QED
  BY <1>1, <1>2, <1>3, <1>4, <1>5, <1>6, <1>7 DEF VolatileTypeOK

\* Writing a flag (setIsSyncInProgress, setIsFetchInProgress) keeps stale within flags.
LEMMA RaiseType == ASSUME FlagsTypeOK, NEW f \in {"sync", "fetch"}, Raise(f)
                   PROVE  FlagsTypeOK'
  BY DEF FlagsTypeOK, Raise

\* So does lowering one, and a write that fails.
LEMMA LowerType == ASSUME FlagsTypeOK, NEW f \in {"sync", "fetch"},
                          Lowered(f) \/ LowerFails(f)
                   PROVE  FlagsTypeOK'
  BY DEF FlagsTypeOK, Lowered, LowerFails

\* Death leaves the stored flags as they are.
LEMMA DieType == FlagsTypeOK /\ Die => FlagsTypeOK'
  BY DEF FlagsTypeOK, Die

\* A fault uses up one of MaxFaults.
LEMMA FaultType == ASSUME NEW kind, faults \in 0..MaxFaults, Fault(kind)
                   PROVE  faults' \in 0..MaxFaults
  BY BoundsAssumption DEF Fault

\* Each action keeps the types: one step per action of the engine.
LEMMA TypeStep == TypeOK /\ [Next]_vars => TypeOK'
<1> SUFFICES ASSUME TypeOK, [Next]_vars PROVE TypeOK'
  OBVIOUS
<1> USE SlotsAssumption, BoundsAssumption, WorkloadAssumption
    DEF TypeOK, VolatileTypeOK, Step, store, shared, handler, syncer, channels,
        HandlerPoints, SyncerPoints, SyncPoints, LoopPoints, FetchPoints,
      ForwarderPoints
<1>1. ASSUME NEW r \in Slots, NEW p \in Paths, Begin(r, p) PROVE TypeOK'
  BY <1>1 DEF Begin, Entry, FlagsTypeOK
<1>2. ASSUME NEW r \in Slots, CtxCancel(r) PROVE TypeOK'
  <2>1. CASE Die /\ UNCHANGED faults
    BY <2>1, VolatileType, DieType DEF Die
  <2>2. CASE ~(Die /\ UNCHANGED faults)
    BY <1>2, <2>2 DEF CtxCancel, Goto, FlagsTypeOK
  <2>3. QED
    BY <2>1, <2>2
<1>3. ASSUME NEW r \in Slots, StopTicker(r) PROVE TypeOK'
  <2>1. CASE Die /\ UNCHANGED faults
    BY <2>1, VolatileType, DieType DEF Die
  <2>2. CASE ~(Die /\ UNCHANGED faults)
    BY <1>3, <2>2 DEF StopTicker, Goto, FlagsTypeOK
  <2>3. QED
    BY <2>1, <2>2
<1>4. ASSUME NEW r \in Slots, CheckTicker(r) PROVE TypeOK'
  BY <1>4 DEF CheckTicker, Goto, Return, FlagsTypeOK
<1>5. ASSUME NEW r \in Slots, Launch(r) PROVE TypeOK'
  BY <1>5 DEF Launch, Return, FlagsTypeOK
<1>6. ASSUME NEW r \in Slots, IvCheck(r) PROVE TypeOK'
  BY <1>6 DEF IvCheck, Goto, FlagsTypeOK
<1>7. ASSUME NEW r \in Slots, IvReset(r) PROVE TypeOK'
  <2>1. CASE Die /\ UNCHANGED faults
    BY <2>1, VolatileType, DieType DEF Die
  <2>2. CASE ~(Die /\ UNCHANGED faults)
    BY <1>7, <2>2 DEF IvReset, Goto, FlagsTypeOK
  <2>3. QED
    BY <2>1, <2>2
<1>8. ASSUME NEW r \in Slots, IvPut(r) PROVE TypeOK'
  BY <1>8 DEF IvPut, Return, FlagsTypeOK
<1>9. ASSUME NEW r \in Slots, CheckSync(r) PROVE TypeOK'
  BY <1>9 DEF CheckSync, ReadsFalse, Fault, FlagsTypeOK
<1>10. ASSUME NEW r \in Slots, ClaimSync(r) PROVE TypeOK'
  <2>1. FlagsTypeOK'
    BY <1>10, RaiseType DEF ClaimSync, FlagsTypeOK
  <2>2. faults' \in 0..MaxFaults
    BY <1>10, FaultType DEF ClaimSync
  <2>3. VolatileTypeOK' /\ up' \in BOOLEAN
    BY <1>10 DEF ClaimSync
  <2>4. QED
    BY <2>1, <2>2, <2>3
<1>11. ASSUME NEW r \in Slots, NewTicker(r) PROVE TypeOK'
  BY <1>11 DEF NewTicker, FlagsTypeOK
<1>12. ASSUME NEW r \in Slots, LoopPanics(r) PROVE TypeOK'
  BY <1>12 DEF LoopPanics, Panic, FlagsTypeOK
<1>13. ASSUME NEW r \in Slots, LoopInterrupted(r) PROVE TypeOK'
  BY <1>13 DEF LoopInterrupted, FlagsTypeOK
<1>14. ASSUME NEW r \in Slots, LoopTick(r) PROVE TypeOK'
  BY <1>14 DEF LoopTick, FlagsTypeOK
<1>15. ASSUME NEW r \in Slots, LoopImmediately(r) PROVE TypeOK'
  BY <1>15 DEF LoopImmediately, FlagsTypeOK
<1>16. ASSUME NEW r \in Slots, CheckFetch(r) PROVE TypeOK'
  BY <1>16 DEF CheckFetch, ReadsFalse, Fault, FlagsTypeOK
<1>17. ASSUME NEW r \in Slots, ClaimFetch(r) PROVE TypeOK'
  <2>1. FlagsTypeOK'
    BY <1>17, RaiseType DEF ClaimFetch, FlagsTypeOK
  <2>2. faults' \in 0..MaxFaults
    BY <1>17, FaultType DEF ClaimFetch
  <2>3. VolatileTypeOK' /\ up' \in BOOLEAN
    BY <1>17 DEF ClaimFetch
  <2>4. QED
    BY <2>1, <2>2, <2>3
<1>18. ASSUME NEW r \in Slots, FetchFails(r) PROVE TypeOK'
  BY <1>18 DEF FetchFails, Fault, FlagsTypeOK
<1>19. ASSUME NEW r \in Slots, FetchPage(r) PROVE TypeOK'
  BY <1>19 DEF FetchPage, FlagsTypeOK
<1>20. ASSUME NEW r \in Slots, FetchEnds(r) PROVE TypeOK'
  BY <1>20 DEF FetchEnds, FlagsTypeOK
<1>21. ASSUME NEW r \in Slots, Send(r) PROVE TypeOK'
  BY <1>21 DEF Send, FlagsTypeOK
<1>22. ASSUME NEW r \in Slots, StopFetch(r) PROVE TypeOK'
  <2>1. FlagsTypeOK'
    BY <1>22, LowerType DEF StopFetch
  <2>2. faults' \in 0..MaxFaults
    BY <1>22, FaultType DEF StopFetch, Lowered, LowerFails
  <2>3. VolatileTypeOK' /\ up' \in BOOLEAN
    BY <1>22 DEF StopFetch
  <2>4. QED
    BY <2>1, <2>2, <2>3
<1>23. ASSUME NEW r \in Slots, ExitSync(r) PROVE TypeOK'
  <2>1. FlagsTypeOK'
    BY <1>23, LowerType DEF ExitSync
  <2>2. faults' \in 0..MaxFaults
    BY <1>23, FaultType DEF ExitSync, Lowered, LowerFails
  <2>3. VolatileTypeOK' /\ up' \in BOOLEAN
    BY <1>23 DEF ExitSync
  <2>4. QED
    BY <2>1, <2>2, <2>3
<1>24. ASSUME NEW r \in Slots, StopSync(r) PROVE TypeOK'
  <2>1. FlagsTypeOK'
    BY <1>24, LowerType DEF StopSync, FlagsTypeOK
  <2>2. faults' \in 0..MaxFaults
    BY <1>24, FaultType DEF StopSync, Lowered
  <2>3. VolatileTypeOK' /\ up' \in BOOLEAN
    BY <1>24, VolatileType DEF StopSync, End
  <2>4. QED
    BY <2>1, <2>2, <2>3
<1>25. ASSUME NEW r \in Slots, SetTickerNil(r) PROVE TypeOK'
  <2>1. FlagsTypeOK'
    BY <1>25 DEF SetTickerNil, FlagsTypeOK
  <2>2. VolatileTypeOK' /\ up' \in BOOLEAN
    BY <1>25, VolatileType DEF SetTickerNil, End
  <2>3. QED
    BY <1>25, <2>1, <2>2 DEF SetTickerNil
<1>26. ASSUME NEW r \in Slots, ForwarderStops(r) PROVE TypeOK'
  BY <1>26 DEF ForwarderStops, FlagsTypeOK
<1>27. ASSUME NEW r \in Slots, ForwarderCloses(r) PROVE TypeOK'
  BY <1>27 DEF ForwarderCloses, FlagsTypeOK
<1>28. ASSUME NEW r \in Slots, Relay(r) PROVE TypeOK'
  BY <1>28 DEF Relay, FlagsTypeOK
<1>29. CASE Tick
  BY <1>29 DEF Tick, FlagsTypeOK
<1>30. CASE Crash
  BY <1>30, VolatileType, DieType, FaultType DEF Crash, Die
<1>31. CASE Restart
  BY <1>31 DEF Restart, FlagsTypeOK
<1>32. CASE UNCHANGED vars
  BY <1>32 DEF vars, FlagsTypeOK
<1>33. QED
  BY <1>1, <1>2, <1>3, <1>4, <1>5, <1>6, <1>7, <1>8, <1>9, <1>10, <1>11,
      <1>12, <1>13, <1>14, <1>15, <1>16, <1>17, <1>18, <1>19, <1>20, <1>21,
      <1>22, <1>23, <1>24, <1>25, <1>26, <1>27, <1>28, <1>29, <1>30, <1>31,
      <1>32 DEF Next, Handle, Sync, Forward

\* Every variable keeps its type: nothing in the sync leaves its range.
THEOREM TypeCorrect == Spec => []TypeOK
<1>1. Init => TypeOK
  <2> SUFFICES ASSUME Init PROVE TypeOK
    OBVIOUS
  <2> USE SlotsAssumption, BoundsAssumption DEF Init
  <2>1. FlagsTypeOK /\ up \in BOOLEAN /\ faults \in 0..MaxFaults
    BY DEF FlagsTypeOK
  <2>2. /\ ticker \in {"nil", "running", "stopped"} /\ tick \in BOOLEAN
        /\ ctxCancel \in Slots \cup {NoSlot}
        /\ cancelled \subseteq Slots /\ closed \subseteq Slots /\ panicking \subseteq Slots
    OBVIOUS
  <2>3. path \in [Slots -> Paths \cup {"none"}] /\ hpc \in [Slots -> HandlerPoints]
    BY DEF HandlerPoints
  <2>4. spc \in [Slots -> SyncerPoints] /\ fpc \in [Slots -> ForwarderPoints]
    BY DEF SyncerPoints, ForwarderPoints
  <2>5. ran \in [Slots -> BOOLEAN] /\ pages \in [Slots -> 0..MaxPages]
    OBVIOUS
  <2>6. QED
    BY <2>1, <2>2, <2>3, <2>4, <2>5 DEF TypeOK, VolatileTypeOK
<1>2. TypeOK /\ [Next]_vars => TypeOK'
  BY TypeStep
<1>3. QED
  BY <1>1, <1>2, PTL DEF Spec

-----------------------------------------------------------------------------
\* Who owns the flags, the ticker and the channels

\* A slot launches its session with the last step of its handler.
HandlerFirst == \A r \in Slots : hpc[r] # "idle" => spc[r] = "none"

\* A raised flag has a session between the raising and the lowering ...
FlagsHeld ==
    /\ "sync" \in flags \ stale => \E r \in Slots : spc[r] \in SyncPoints \cup {"stopSync"}
    /\ "fetch" \in flags \ stale => \E r \in Slots : spc[r] \in FetchPoints

\* ... and a non-nil ticker one before its SetTickerNil, wedged or not.
TickerHeld ==
    "store" \notin Faults /\ ticker # "nil" =>
        \E r \in Slots : spc[r] \in (SyncPoints \cup {"stopSync", "setTickerNil"}) \ {"newTicker"}

OwnInv == HandlerFirst /\ FlagsHeld /\ TickerHeld /\ ChannelDiscipline

\* Each action keeps the owners of the flags, the ticker and the channels.
LEMMA OwnStep == TypeOK /\ OwnInv /\ [Next]_vars => OwnInv'
<1> SUFFICES ASSUME TypeOK /\ OwnInv, [Next]_vars PROVE OwnInv'
  OBVIOUS
<1> USE DEF TypeOK, VolatileTypeOK, HandlerFirst, FlagsHeld, TickerHeld,
      ChannelDiscipline, OwnInv, Step, store, shared, handler, syncer,
      channels, HandlerPoints, SyncerPoints, SyncPoints, LoopPoints,
      FetchPoints, ForwarderPoints
<1>1. ASSUME NEW r \in Slots, NEW p \in Paths, Begin(r, p) PROVE OwnInv'
  BY <1>1, WorkloadAssumption DEF Begin, Entry, Steady
<1>2. ASSUME NEW r \in Slots, CtxCancel(r) PROVE OwnInv'
  BY <1>2 DEF CtxCancel, Goto, Die, Volatile
<1>3. ASSUME NEW r \in Slots, StopTicker(r) PROVE OwnInv'
  BY <1>3 DEF StopTicker, Goto, Die, Volatile
<1>4. ASSUME NEW r \in Slots, CheckTicker(r) PROVE OwnInv'
  BY <1>4 DEF CheckTicker, Goto, Return
<1>5. ASSUME NEW r \in Slots, Launch(r) PROVE OwnInv'
  BY <1>5 DEF Launch, Return
<1>6. ASSUME NEW r \in Slots, IvCheck(r) PROVE OwnInv'
  BY <1>6 DEF IvCheck, Goto
<1>7. ASSUME NEW r \in Slots, IvReset(r) PROVE OwnInv'
  BY <1>7 DEF IvReset, Goto, Die, Volatile
<1>8. ASSUME NEW r \in Slots, IvPut(r) PROVE OwnInv'
  BY <1>8 DEF IvPut, Return
<1>9. ASSUME NEW r \in Slots, CheckSync(r) PROVE OwnInv'
  BY <1>9 DEF CheckSync, ReadsFalse, Fault
<1>10. ASSUME NEW r \in Slots, ClaimSync(r) PROVE OwnInv'
  BY <1>10 DEF ClaimSync, Raise, Fault
<1>11. ASSUME NEW r \in Slots, NewTicker(r) PROVE OwnInv'
  BY <1>11 DEF NewTicker
<1>12. ASSUME NEW r \in Slots, LoopPanics(r) PROVE OwnInv'
  BY <1>12 DEF LoopPanics, Panic
<1>13. ASSUME NEW r \in Slots, LoopInterrupted(r) PROVE OwnInv'
  BY <1>13 DEF LoopInterrupted
<1>14. ASSUME NEW r \in Slots, LoopTick(r) PROVE OwnInv'
  BY <1>14 DEF LoopTick
<1>15. ASSUME NEW r \in Slots, LoopImmediately(r) PROVE OwnInv'
  BY <1>15 DEF LoopImmediately
<1>16. ASSUME NEW r \in Slots, CheckFetch(r) PROVE OwnInv'
  BY <1>16 DEF CheckFetch, ReadsFalse, Fault
<1>17. ASSUME NEW r \in Slots, ClaimFetch(r) PROVE OwnInv'
  BY <1>17 DEF ClaimFetch, Raise, Fault
<1>18. ASSUME NEW r \in Slots, FetchFails(r) PROVE OwnInv'
  BY <1>18 DEF FetchFails, Fault
<1>19. ASSUME NEW r \in Slots, FetchPage(r) PROVE OwnInv'
  BY <1>19 DEF FetchPage
<1>20. ASSUME NEW r \in Slots, FetchEnds(r) PROVE OwnInv'
  BY <1>20 DEF FetchEnds
<1>21. ASSUME NEW r \in Slots, Send(r) PROVE OwnInv'
  BY <1>21 DEF Send
<1>22. ASSUME NEW r \in Slots, StopFetch(r) PROVE OwnInv'
  BY <1>22 DEF StopFetch, Lowered, LowerFails, Fault
<1>23. ASSUME NEW r \in Slots, ExitSync(r) PROVE OwnInv'
  BY <1>23 DEF ExitSync, Lowered, LowerFails, Fault
<1>24. ASSUME NEW r \in Slots, StopSync(r) PROVE OwnInv'
  BY <1>24 DEF StopSync, Lowered, Fault, End, Volatile
<1>25. ASSUME NEW r \in Slots, SetTickerNil(r) PROVE OwnInv'
  BY <1>25 DEF SetTickerNil, End, Volatile
<1>26. ASSUME NEW r \in Slots, ForwarderStops(r) PROVE OwnInv'
  BY <1>26 DEF ForwarderStops
<1>27. ASSUME NEW r \in Slots, ForwarderCloses(r) PROVE OwnInv'
  BY <1>27 DEF ForwarderCloses
<1>28. ASSUME NEW r \in Slots, Relay(r) PROVE OwnInv'
  BY <1>28 DEF Relay
<1>29. CASE Tick
  BY <1>29 DEF Tick
<1>30. CASE Crash
  BY <1>30 DEF Crash, Fault, Die, Volatile
<1>31. CASE Restart
  BY <1>31 DEF Restart
<1>32. CASE UNCHANGED vars
  BY <1>32 DEF vars
<1>33. QED
  BY <1>1, <1>2, <1>3, <1>4, <1>5, <1>6, <1>7, <1>8, <1>9, <1>10, <1>11,
      <1>12, <1>13, <1>14, <1>15, <1>16, <1>17, <1>18, <1>19, <1>20, <1>21,
      <1>22, <1>23, <1>24, <1>25, <1>26, <1>27, <1>28, <1>29, <1>30, <1>31,
      <1>32 DEF Next, Handle, Sync, Forward

\* OwnInv is invariant, without any assumption on the requests.
THEOREM OwnInvariant == Spec => [](TypeOK /\ OwnInv)
<1>1. Init => OwnInv
  BY DEF Init, OwnInv, HandlerFirst, FlagsHeld, TickerHeld, ChannelDiscipline
<1>2. TypeOK /\ OwnInv /\ [Next]_vars => OwnInv'
  BY OwnStep
<1>3. QED
  BY <1>1, <1>2, TypeCorrect, PTL DEF Spec

\* A raised flag without a session under way to lower it was left by a dead
\* process or a failed write, or a session is wedged on percentageChan.
THEOREM FlagsOwned == Spec => []OwnedFlags
<1>1. FlagsHeld => OwnedFlags
  BY DEF FlagsHeld, OwnedFlags, UnderWay, SomeWedged
<1>2. QED
  BY <1>1, OwnInvariant, PTL DEF OwnInv

\* While the store takes its writes, a non-nil ticker has a session under way
\* before its SetTickerNil, or a session is wedged on percentageChan.
THEOREM TickerOwned == Spec => []OwnedTicker
<1>1. TickerHeld => OwnedTicker
  BY DEF TickerHeld, OwnedTicker, UnderWay, SomeWedged
<1>2. QED
  BY <1>1, OwnInvariant, PTL DEF OwnInv

\* Nothing is sent on a percentageChan after its fetch closed it.
THEOREM ChannelsClosedOnce == Spec => []ChannelDiscipline
  BY OwnInvariant, PTL DEF OwnInv

-----------------------------------------------------------------------------
\* Requests one at a time

\* At most one handler is at work ...
OneHandler ==
    Serial => \A r, s \in Slots : hpc[r] # "idle" /\ hpc[s] # "idle" => r = s

\* ... and while a session is alive it cannot find the ticker nil.
HandlerWaits ==
    Serial => \A r, s \in Slots :
        hpc[r] # "idle" /\ spc[s] # "none" =>
            /\ hpc[r] # "launch" /\ ticker # "nil"
            /\ spc[s] \notin {"start", "claimSync", "newTicker"}

\* Nobody sets the ticker to nil under the loop of StartSync.
TickerKept ==
    Serial => \A r \in Slots : spc[r] \in LoopPoints => ticker # "nil"

SerialInv == OneHandler /\ HandlerWaits /\ TickerKept /\ Exclusive /\ FlagsTell

\* Each action keeps sessions apart when requests come one at a time.
LEMMA SerialStep == TypeOK /\ HandlerFirst /\ SerialInv /\ [Next]_vars => SerialInv'
<1> SUFFICES ASSUME TypeOK /\ HandlerFirst /\ SerialInv,
      [Next]_vars PROVE SerialInv'
  OBVIOUS
<1> USE DEF TypeOK, VolatileTypeOK, HandlerFirst, SerialInv, OneHandler,
      HandlerWaits, TickerKept, Exclusive, FlagsTell, Step, store, shared,
      handler, syncer, channels, HandlerPoints, SyncerPoints, SyncPoints,
      LoopPoints, FetchPoints, ForwarderPoints
<1>1. ASSUME NEW r \in Slots, NEW p \in Paths, Begin(r, p) PROVE SerialInv'
  BY <1>1, WorkloadAssumption DEF Begin, Entry, Steady
<1>2. ASSUME NEW r \in Slots, CtxCancel(r) PROVE SerialInv'
  BY <1>2 DEF CtxCancel, Goto, Die, Volatile
<1>3. ASSUME NEW r \in Slots, StopTicker(r) PROVE SerialInv'
  BY <1>3 DEF StopTicker, Goto, Die, Volatile
<1>4. ASSUME NEW r \in Slots, CheckTicker(r) PROVE SerialInv'
  BY <1>4 DEF CheckTicker, Goto, Return
<1>5. ASSUME NEW r \in Slots, Launch(r) PROVE SerialInv'
  BY <1>5 DEF Launch, Return
<1>6. ASSUME NEW r \in Slots, IvCheck(r) PROVE SerialInv'
  BY <1>6 DEF IvCheck, Goto
<1>7. ASSUME NEW r \in Slots, IvReset(r) PROVE SerialInv'
  BY <1>7 DEF IvReset, Goto, Die, Volatile
<1>8. ASSUME NEW r \in Slots, IvPut(r) PROVE SerialInv'
  BY <1>8 DEF IvPut, Return
<1>9. ASSUME NEW r \in Slots, CheckSync(r) PROVE SerialInv'
  BY <1>9 DEF CheckSync, ReadsFalse, Fault
<1>10. ASSUME NEW r \in Slots, ClaimSync(r) PROVE SerialInv'
  BY <1>10 DEF ClaimSync, Raise, Fault
<1>11. ASSUME NEW r \in Slots, NewTicker(r) PROVE SerialInv'
  BY <1>11 DEF NewTicker
<1>12. ASSUME NEW r \in Slots, LoopPanics(r) PROVE SerialInv'
  BY <1>12 DEF LoopPanics, Panic
<1>13. ASSUME NEW r \in Slots, LoopInterrupted(r) PROVE SerialInv'
  BY <1>13 DEF LoopInterrupted
<1>14. ASSUME NEW r \in Slots, LoopTick(r) PROVE SerialInv'
  BY <1>14 DEF LoopTick
<1>15. ASSUME NEW r \in Slots, LoopImmediately(r) PROVE SerialInv'
  BY <1>15 DEF LoopImmediately
<1>16. ASSUME NEW r \in Slots, CheckFetch(r) PROVE SerialInv'
  BY <1>16 DEF CheckFetch, ReadsFalse, Fault
<1>17. ASSUME NEW r \in Slots, ClaimFetch(r) PROVE SerialInv'
  BY <1>17 DEF ClaimFetch, Raise, Fault
<1>18. ASSUME NEW r \in Slots, FetchFails(r) PROVE SerialInv'
  BY <1>18 DEF FetchFails, Fault
<1>19. ASSUME NEW r \in Slots, FetchPage(r) PROVE SerialInv'
  BY <1>19 DEF FetchPage
<1>20. ASSUME NEW r \in Slots, FetchEnds(r) PROVE SerialInv'
  BY <1>20 DEF FetchEnds
<1>21. ASSUME NEW r \in Slots, Send(r) PROVE SerialInv'
  BY <1>21 DEF Send
<1>22. ASSUME NEW r \in Slots, StopFetch(r) PROVE SerialInv'
  BY <1>22 DEF StopFetch, Lowered, LowerFails, Fault
<1>23. ASSUME NEW r \in Slots, ExitSync(r) PROVE SerialInv'
  BY <1>23 DEF ExitSync, Lowered, LowerFails, Fault
<1>24. ASSUME NEW r \in Slots, StopSync(r) PROVE SerialInv'
  BY <1>24 DEF StopSync, Lowered, Fault, End, Volatile
<1>25. ASSUME NEW r \in Slots, SetTickerNil(r) PROVE SerialInv'
  BY <1>25 DEF SetTickerNil, End, Volatile
<1>26. ASSUME NEW r \in Slots, ForwarderStops(r) PROVE SerialInv'
  BY <1>26 DEF ForwarderStops
<1>27. ASSUME NEW r \in Slots, ForwarderCloses(r) PROVE SerialInv'
  BY <1>27 DEF ForwarderCloses
<1>28. ASSUME NEW r \in Slots, Relay(r) PROVE SerialInv'
  BY <1>28 DEF Relay
<1>29. CASE Tick
  BY <1>29 DEF Tick
<1>30. CASE Crash
  BY <1>30 DEF Crash, Fault, Die, Volatile
<1>31. CASE Restart
  BY <1>31 DEF Restart
<1>32. CASE UNCHANGED vars
  BY <1>32 DEF vars
<1>33. QED
  BY <1>1, <1>2, <1>3, <1>4, <1>5, <1>6, <1>7, <1>8, <1>9, <1>10, <1>11,
      <1>12, <1>13, <1>14, <1>15, <1>16, <1>17, <1>18, <1>19, <1>20, <1>21,
      <1>22, <1>23, <1>24, <1>25, <1>26, <1>27, <1>28, <1>29, <1>30, <1>31,
      <1>32 DEF Next, Handle, Sync, Forward

\* SerialInv is invariant: requests one at a time keep the sessions apart.
THEOREM SerialInvariant == Spec => []SerialInv
<1>1. Init => SerialInv
  BY DEF Init, SerialInv, OneHandler, HandlerWaits, TickerKept, Exclusive,
         FlagsTell, SyncPoints, LoopPoints, FetchPoints
<1>2. TypeOK /\ HandlerFirst /\ SerialInv /\ [Next]_vars => SerialInv'
  BY SerialStep
<1>3. Spec => []HandlerFirst
  BY OwnInvariant, PTL DEF OwnInv
<1>4. QED
  BY <1>1, <1>2, <1>3, TypeCorrect, PTL DEF Spec

\* Sessions do not overlap when requests come one at a time.
THEOREM SessionsExclusive == Spec => []Exclusive
  BY SerialInvariant, PTL DEF SerialInv

\* The select of StartSync never meets a nil ticker then.
THEOREM TickerStaysUp == Spec => []TickerStays
<1>1. TickerKept => TickerStays
  BY DEF TickerKept, TickerStays, LoopPoints
<1>2. QED
  BY <1>1, SerialInvariant, PTL DEF SerialInv

\* And the stored flags tell what runs.
THEOREM FlagsTruthful == Spec => []FlagsTell
  BY SerialInvariant, PTL DEF SerialInv
=============================================================================
