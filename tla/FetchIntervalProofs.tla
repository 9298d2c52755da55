------------------------- MODULE FetchIntervalProofs -------------------------
(***************************************************************************)
(* Proofs about FetchInterval, for Durations of any width, a second of any *)
(* length and any number of updates at a time.  First the arithmetic, then *)
(* one invariant whose parts say what each property rests on.              *)
(***************************************************************************)
EXTENDS FetchInterval, TLAPS

-----------------------------------------------------------------------------
\* A Duration has a sign: zero lies strictly inside its range.
LEMMA HalfPositive == Unit \in Nat \ {0} /\ Half \in Nat \ {0}
  BY UnitAssumption, SMT

LEMMA ZeroDuration == 0 \in Duration /\ 0 >= 0
  BY HalfPositive, SMT DEF Duration

\* Any number of seconds becomes some Duration.
LEMMA WrappedIsDuration ==
    ASSUME NEW n \in Int
    PROVE  Wrapped(n) \in Duration
<1>1. n * Unit + Half \in Int /\ 2 * Half \in Nat \ {0}
  BY HalfPositive, SMT
<1>2. (n * Unit + Half) % (2 * Half) \in 0 .. (2 * Half - 1)
  BY <1>1, SMT
<1> QED
  BY <1>2, HalfPositive, SMT DEF Wrapped, Duration

\* What the form sends overflows to a negative Duration if it overflows.
LEMMA WrappedOnce ==
    ASSUME NEW n \in Nat, n * Unit < 2 * Half
    PROVE  Wrapped(n) > 0 => Wrapped(n) = n * Unit
<1> DEFINE x == n * Unit
<1>1. x \in Nat
  BY HalfPositive, SMT
<1>2. CASE x < Half
  <2>1. x + Half \in 0 .. (2 * Half - 1)
    BY <1>1, <1>2, HalfPositive, SMT
  <2>2. (x + Half) % (2 * Half) = x + Half
    BY <2>1, HalfPositive, SMT
  <2> QED
    BY <2>2, <1>1, HalfPositive, SMT DEF Wrapped
<1>3. CASE x >= Half
  <2>1. (x + Half) - 2 * Half \in 0 .. (Half - 1)
    BY <1>1, <1>3, HalfPositive, SMT
  <2>2. (x + Half) % (2 * Half) = (x + Half) - 2 * Half
    BY <2>1, <1>1, HalfPositive, SMT
  <2> QED
    BY <2>1, <2>2, <1>1, HalfPositive, SMT DEF Wrapped
<1> QED
  BY <1>1, <1>2, <1>3, HalfPositive, SMT

\* The seconds of a Duration fit it.
LEMMA SecondsFit ==
    ASSUME NEW d \in Nat
    PROVE  Seconds(d) \in Nat /\ Seconds(d) * Unit <= d
  BY HalfPositive, SMT DEF Seconds

\* Seconds made a Duration are as many seconds again.
LEMMA SecondsBack ==
    ASSUME NEW n \in Nat
    PROVE  Seconds(n * Unit) = n
  BY HalfPositive, SMT DEF Seconds

\* Hours and minutes made seconds are the same hours and minutes again.
LEMMA FormBack ==
    ASSUME NEW f \in Form
    PROVE  SecondsOf(f) \in Nat /\ FormOf(SecondsOf(f)) = f
  BY SMT DEF Form, FormOf, SecondsOf

LEMMA FormTyped ==
    ASSUME NEW s \in Nat
    PROVE  FormOf(s) \in Form /\ FormOf(s).hour * 3600 <= s
  BY SMT DEF Form, FormOf

-----------------------------------------------------------------------------
\* Intervals that were stored can be made a Duration.
Fits == stored * Unit < Half /\ interval * Unit < Half /\ answer * Unit < Half

\* Unless one wrapped, a positive Duration is a whole number of seconds.
WholeSeconds ==
    /\ ~wrapped => \A r \in Requests : dur[r] > 0 =>
                       \E n \in Nat \ {0} : dur[r] = n * Unit
    /\ \A r \in Requests : hpc[r] \in {"reset", "put"} => dur[r] > 0
    /\ \A r \in Requests : hpc[r] \notin Handled => dur[r] = 0

\* Ticker and store agree but while an update is between the two, which then
\* has set the ticker; who overlaps nobody has the interval to itself.
Agreeing ==
    /\ \A a \in Busy \ mixed : Busy = {a}
    /\ \A r \in Requests \ mixed : hpc[r] = "put" => period \in {0, dur[r]}
    /\ session = "read" /\ "session" \notin mixed => interval = stored
    /\ session # "run" => period = 0
    /\ ~apart /\ period # 0 /\ (\A r \in Requests : hpc[r] # "put")
           => stored = Seconds(period)

\* The form's POST is followed to the store, and what it saved to the form.
Followed ==
    /\ (form.hour * 3600) * Unit < Half
    /\ mine # NoRequest => get # "sent" /\ hpc[mine] # "idle" /\ (get = "body" => late)
    /\ last # NoForm => /\ \A r \in Requests : hpc[r] \notin Handled
                        /\ sent = NoForm
                        /\ stored = SecondsOf(last)
                        /\ filled => form = last
                        /\ get = "body" /\ ~late => answer = SecondsOf(last)
    /\ sent # NoForm => /\ mine # NoRequest
                        /\ \A r \in Requests \ {mine} : hpc[r] \notin Handled
                        /\ filled => form = sent
                        /\ hpc[mine] \in Handled /\ dur[mine] > 0
                               => dur[mine] = SecondsOf(sent) * Unit
                        /\ hpc[mine] = "ok" => stored = SecondsOf(sent)

IntervalInv ==
    TypeOK /\ Fits /\ WholeSeconds /\ StartsUnlessWrapped /\ Agreeing /\ Followed

-----------------------------------------------------------------------------
\* Every step keeps the types, and the intervals within a Duration.

LEMMA InitInv == Init => IntervalInv
<1> SUFFICES ASSUME Init PROVE IntervalInv
  OBVIOUS
<1>1. TypeOK
  <2>1. NoForm \in Form
    BY SMT DEF NoForm, Form
  <2>2. stored \in Nat
    BY UnitAssumption DEF Init
  <2> QED
    BY <2>1, <2>2, ZeroDuration DEF Init, TypeOK
<1>2. Fits /\ WholeSeconds /\ StartsUnlessWrapped
  BY UnitAssumption, HalfPositive, SMT
     DEF Init, Fits, WholeSeconds, StartsUnlessWrapped, Handled
<1>3. Agreeing
  BY SMT DEF Init, Agreeing, Busy, Handled
<1>4. Followed
  BY HalfPositive, SMT DEF Init, Followed, NoForm, Handled
<1> QED
  BY <1>1, <1>2, <1>3, <1>4 DEF IntervalInv

LEMMA DieStep == IntervalInv /\ Die => IntervalInv'
<1> SUFFICES ASSUME IntervalInv, Die PROVE IntervalInv'
  OBVIOUS
<1> USE DEF IntervalInv, Die, page, history, Handled
<1>1. TypeOK'
  <2>1. hpc' \in [Requests -> {"idle", "ok", "refused"} \cup Handled]
    BY DEF TypeOK
  <2>2. dur' \in [Requests -> Duration] /\ period' \in Duration /\ period' >= 0
    BY ZeroDuration DEF TypeOK
  <2> QED
    BY <2>1, <2>2 DEF TypeOK
<1>2. (Fits /\ WholeSeconds /\ StartsUnlessWrapped)'
  BY HalfPositive, SMT DEF TypeOK, Fits, WholeSeconds, StartsUnlessWrapped
<1>3. Agreeing'
  BY HalfPositive, SMT DEF TypeOK, Agreeing, Busy
<1>4. Followed'
  BY HalfPositive, SMT DEF TypeOK, Followed
<1> QED
  BY <1>1, <1>2, <1>3, <1>4

\* Who joins the busy leaves mixed among the names it knows.
LEMMA JoinsTyped ==
    ASSUME TypeOK, NEW a \in Requests \cup {"session"}, Joins(a)
    PROVE  mixed' \subseteq Requests \cup {"session"}
<1>1. Busy \subseteq Requests \cup {"session"}
  BY DEF Busy
<1> QED
  BY <1>1 DEF TypeOK, Joins

LEMMA ReadIntervalStep == IntervalInv /\ ReadInterval => IntervalInv'
<1> SUFFICES ASSUME IntervalInv, ReadInterval PROVE IntervalInv'
  OBVIOUS
<1> USE DEF IntervalInv, ReadInterval, updates, page, Handled
<1>1. TypeOK'
  <2>1. mixed' \subseteq Requests \cup {"session"}
    BY JoinsTyped DEF ReadInterval
  <2> QED
    BY <2>1 DEF TypeOK
<1>2. Fits'
  BY RequestsAssumption, SMT DEF TypeOK, Fits
<1>3. WholeSeconds' /\ StartsUnlessWrapped'
  BY RequestsAssumption, SMT DEF TypeOK, WholeSeconds, StartsUnlessWrapped
<1>4. Agreeing'
  BY RequestsAssumption, SMT DEF TypeOK, Agreeing, Busy, Joins
<1>5. Followed'
  BY RequestsAssumption, SMT DEF TypeOK, Followed
<1> QED
  BY <1>1, <1>2, <1>3, <1>4, <1>5

LEMMA SessionEndsStep == IntervalInv /\ SessionEnds => IntervalInv'
<1> SUFFICES ASSUME IntervalInv, SessionEnds PROVE IntervalInv'
  OBVIOUS
<1> USE DEF IntervalInv, SessionEnds, updates, page, history, Handled
<1>1. TypeOK'
  BY ZeroDuration, HalfPositive, SMT DEF TypeOK
<1>2. Fits'
  BY ZeroDuration, HalfPositive, SMT DEF TypeOK, Fits
<1>3. WholeSeconds' /\ StartsUnlessWrapped'
  BY ZeroDuration, HalfPositive, SMT DEF TypeOK, WholeSeconds, StartsUnlessWrapped
<1>4. Agreeing'
  BY ZeroDuration, HalfPositive, SMT DEF TypeOK, Agreeing, Busy
<1>5. Followed'
  BY ZeroDuration, HalfPositive, SMT DEF TypeOK, Followed
<1> QED
  BY <1>1, <1>2, <1>3, <1>4, <1>5

LEMMA RestartStep == IntervalInv /\ Restart => IntervalInv'
<1> SUFFICES ASSUME IntervalInv, Restart PROVE IntervalInv'
  OBVIOUS
<1> USE DEF IntervalInv, Restart, ticking, updates, page, history, Handled
<1>1. TypeOK'
  BY SMT DEF TypeOK
<1>2. Fits'
  BY SMT DEF TypeOK, Fits
<1>3. WholeSeconds' /\ StartsUnlessWrapped'
  BY SMT DEF TypeOK, WholeSeconds, StartsUnlessWrapped
<1>4. Agreeing'
  BY SMT DEF TypeOK, Agreeing, Busy
<1>5. Followed'
  BY SMT DEF TypeOK, Followed
<1> QED
  BY <1>1, <1>2, <1>3, <1>4, <1>5

LEMMA CheckStep ==
    ASSUME IntervalInv, NEW r \in Requests, Check(r)
    PROVE  IntervalInv'
<1> USE DEF IntervalInv, Check, Goes, Step, Finish, ticking, page, history, Handled
<1>1. TypeOK'
  BY ZeroDuration, RequestsAssumption, SMT DEF TypeOK
<1>2. Fits'
  BY ZeroDuration, RequestsAssumption, SMT DEF TypeOK, Fits
<1>3. WholeSeconds' /\ StartsUnlessWrapped'
  <2>1. \A q \in Requests : dur'[q] \in {dur[q], 0} /\ (hpc'[q] = "put" => hpc[q] = "put" \/ q = r)
    BY SMT DEF TypeOK
  <2>2. \A q \in Requests : hpc'[q] \notin Handled => dur'[q] = 0
    BY SMT DEF TypeOK, WholeSeconds
  <2>3. \A q \in Requests : hpc'[q] \in {"reset", "put"} => dur'[q] > 0
    BY SMT DEF TypeOK, WholeSeconds, Duration
  <2> QED
    BY <2>1, <2>2, <2>3, SMT DEF WholeSeconds, StartsUnlessWrapped
<1>4. Agreeing'
  BY ZeroDuration, RequestsAssumption, SMT DEF TypeOK, Agreeing, Busy
<1>5. Followed'
  BY ZeroDuration, RequestsAssumption, SMT DEF TypeOK, Followed
<1> QED
  BY <1>1, <1>2, <1>3, <1>4, <1>5

LEMMA ResetTickerStep ==
    ASSUME IntervalInv, NEW r \in Requests, ResetTicker(r)
    PROVE  IntervalInv'
<1>1. CASE Die
  BY <1>1, DieStep
<1>2. CASE /\ hpc[r] = "reset" /\ period # 0
           /\ period' = dur[r] /\ Step(r, "put")
           /\ UNCHANGED <<up, stored, session, interval, page, history>>
  <2> USE <1>2 DEF IntervalInv, Step, page, history, Handled
  <2>1. dur[r] > 0 /\ dur[r] \in Duration
    BY DEF TypeOK, WholeSeconds
  <2>2. TypeOK'
    BY <2>1, SMT DEF TypeOK, Duration
  <2>3. Fits' /\ WholeSeconds' /\ StartsUnlessWrapped'
    BY SMT DEF TypeOK, Fits, WholeSeconds, StartsUnlessWrapped
  <2>4. Agreeing'
    <3>1. session # "none"
      BY DEF TypeOK, Agreeing
    <3>2. "session" \in Busy \/ session = "run"
      BY <3>1, SMT DEF TypeOK, Busy
    <3>3. Busy' = Busy /\ r \in Busy
      BY SMT DEF TypeOK, Busy
    <3> QED
      BY <3>1, <3>2, <3>3, RequestsAssumption, SMT DEF TypeOK, Agreeing, Busy
  <2>5. Followed'
    BY SMT DEF TypeOK, Followed
  <2> QED
    BY <2>2, <2>3, <2>4, <2>5
<1> QED
  BY <1>1, <1>2 DEF ResetTicker

\* A Put that succeeds stores the seconds of the Duration; one that fails
\* leaves ticker and store apart.
LEMMA PutStep ==
    ASSUME IntervalInv, NEW r \in Requests, Put(r)
    PROVE  IntervalInv'
<1> USE DEF IntervalInv, Handled
<1>1. hpc[r] = "put" /\ dur[r] > 0 /\ dur[r] \in Nat /\ dur[r] < Half
  BY HalfPositive, SMT DEF Put, TypeOK, WholeSeconds, Duration
<1>2. UNCHANGED <<up, ticking, page, wrapped, mixed>>
  BY DEF Put
<1>3. CASE stored' = Seconds(dur[r]) /\ Finish(r, "ok") /\ apart' = (r \in mixed)
  <2> USE <1>1, <1>2, <1>3 DEF Finish, ticking, page
  <2>1. Seconds(dur[r]) \in Nat /\ Seconds(dur[r]) * Unit < Half
    BY SecondsFit, HalfPositive, SMT
  <2>2. TypeOK'
    BY <2>1, ZeroDuration DEF TypeOK
  <2>3. Fits'
    BY <2>1, SMT DEF Fits
  <2>4. WholeSeconds'
    BY HalfPositive, SMT DEF TypeOK, WholeSeconds
  <2>5. StartsUnlessWrapped'
    <3>1. CASE wrapped
      BY <3>1 DEF StartsUnlessWrapped
    <3>2. CASE ~wrapped
      <4>1. PICK n \in Nat \ {0} : dur[r] = n * Unit
        BY <3>2, SMT DEF WholeSeconds
      <4>2. Seconds(dur[r]) = n
        BY <4>1, SecondsBack
      <4> QED
        BY <4>2, SMT DEF StartsUnlessWrapped
    <3> QED
      BY <3>1, <3>2
  <2>6. Agreeing'
    <3>1. r \in Busy /\ r # "session"
      BY RequestsAssumption DEF Busy
    <3>2. ~(session = "read" /\ "session" \notin mixed)
      BY <3>1 DEF Agreeing, Busy
    <3>3. Busy' = Busy \ {r}
      BY RequestsAssumption DEF Busy, TypeOK
    <3>4. r \notin mixed /\ period # 0 => Seconds(dur[r]) = Seconds(period)
      BY DEF Agreeing
    <3>5. \A q \in Requests : hpc'[q] = "put" => hpc[q] = "put" /\ dur'[q] = dur[q]
      BY SMT DEF TypeOK
    <3>6. (\A a \in Busy \ mixed : Busy = {a})'
      BY <3>1, <3>3 DEF Agreeing
    <3>7. (\A q \in Requests \ mixed : hpc[q] = "put" => period \in {0, dur[q]})'
      BY <3>5 DEF Agreeing
    <3>8. (~apart /\ period # 0 => stored = Seconds(period))'
      BY <3>4 DEF Seconds
    <3> QED
      BY <3>2, <3>6, <3>7, <3>8 DEF Agreeing
  <2>7. Followed'
    <3>1. last = NoForm
      BY DEF Followed
    <3>2. sent # NoForm => r = mine /\ dur[r] = SecondsOf(sent) * Unit
      BY DEF Followed
    <3>3. sent # NoForm => stored' = SecondsOf(sent)
      BY <3>2, FormBack, SecondsBack DEF TypeOK
    <3> QED
      BY <3>1, <3>2, <3>3, SMT DEF TypeOK, Followed
  <2> QED
    BY <2>2, <2>3, <2>4, <2>5, <2>6, <2>7
<1>4. CASE UNCHANGED stored /\ Finish(r, "refused") /\ apart' = TRUE
  <2> USE <1>1, <1>2, <1>4 DEF Finish, ticking, page
  <2>1. TypeOK'
    BY ZeroDuration DEF TypeOK
  <2>2. Fits' /\ StartsUnlessWrapped'
    BY DEF Fits, StartsUnlessWrapped
  <2>3. WholeSeconds'
    <3>1. \A q \in Requests : dur'[q] = (IF q = r THEN 0 ELSE dur[q])
                             /\ hpc'[q] = (IF q = r THEN "refused" ELSE hpc[q])
      BY DEF TypeOK
    <3> QED
      BY <3>1, SMT DEF WholeSeconds
  <2>4. Agreeing'
    <3>1. Busy' = Busy \ {r}
      BY RequestsAssumption DEF Busy, TypeOK
    <3>2. \A q \in Requests : hpc'[q] = "put" => hpc[q] = "put" /\ dur'[q] = dur[q]
      BY SMT DEF TypeOK
    <3> QED
      BY <3>1, <3>2, SMT DEF Agreeing
  <2>5. Followed'
    BY SMT DEF TypeOK, Followed
  <2> QED
    BY <2>1, <2>2, <2>3, <2>4, <2>5
<1> QED
  BY <1>3, <1>4 DEF Put

LEMMA AnsweredStep ==
    ASSUME IntervalInv, NEW r \in Requests, Answered(r)
    PROVE  IntervalInv'
<1> USE DEF IntervalInv, Answered, Step, ticking, page, history, Handled
<1>1. TypeOK'
  BY ZeroDuration, HalfPositive, RequestsAssumption, SMT DEF TypeOK
<1>2. Fits'
  BY ZeroDuration, HalfPositive, RequestsAssumption, SMT DEF TypeOK, Fits
<1>3. WholeSeconds' /\ StartsUnlessWrapped'
  BY ZeroDuration, HalfPositive, RequestsAssumption, SMT DEF TypeOK, WholeSeconds, StartsUnlessWrapped
<1>4. Agreeing'
  BY ZeroDuration, HalfPositive, RequestsAssumption, SMT DEF TypeOK, Agreeing, Busy
<1>5. Followed'
  BY ZeroDuration, HalfPositive, RequestsAssumption, SMT DEF TypeOK, Followed
<1> QED
  BY <1>1, <1>2, <1>3, <1>4, <1>5

\* StartSync makes a ticker of an interval that fits, or panics.
LEMMA NewTickerStep == IntervalInv /\ NewTicker => IntervalInv'
<1> SUFFICES ASSUME IntervalInv, NewTicker PROVE IntervalInv'
  OBVIOUS
<1>1. CASE Die
  BY <1>1, DieStep
<1>2. CASE /\ session = "read" /\ interval > 0
           /\ period' = interval * Unit /\ session' = "run"
           /\ apart' = ("session" \in mixed)
           /\ UNCHANGED <<up, stored, interval, updates, page, wrapped, mixed>>
  <2> USE <1>2 DEF IntervalInv, updates, page, Handled
  <2>1. interval \in Nat /\ interval * Unit \in Duration /\ interval * Unit >= 0
    BY HalfPositive, SMT DEF TypeOK, Fits, Duration
  <2>2. TypeOK'
    BY <2>1 DEF TypeOK
  <2>3. Fits' /\ WholeSeconds' /\ StartsUnlessWrapped'
    BY DEF Fits, WholeSeconds, StartsUnlessWrapped
  <2>4. Agreeing'
    <3>1. "session" \in Busy /\ Busy' = Busy \ {"session"}
      BY RequestsAssumption DEF Busy
    <3>2. "session" \notin mixed => interval = stored /\ Busy = {"session"}
      BY <3>1 DEF Agreeing
    <3>3. Seconds(interval * Unit) = interval
      BY <2>1, SecondsBack
    <3>4. \A q \in Requests : hpc[q] = "put" => q \in mixed
      BY <3>1, RequestsAssumption DEF Agreeing, Busy
    <3> QED
      BY <3>1, <3>2, <3>3, <3>4 DEF Agreeing, Seconds
  <2>5. Followed'
    BY DEF Followed
  <2> QED
    BY <2>2, <2>3, <2>4, <2>5
<1> QED
  BY <1>1, <1>2 DEF NewTicker

-----------------------------------------------------------------------------
\* A POST puts a Duration into an update; what the form sends may wrap, but
\* not to a positive Duration.

LEMMA PostKeeps ==
    ASSUME IntervalInv, NEW r \in Requests, NEW n \in Int, Post(r, n),
           UNCHANGED <<up, stored, ticking, answer, apart>>
    PROVE  /\ hpc' \in [Requests -> {"idle", "ok", "refused"} \cup Handled]
           /\ dur' \in [Requests -> Duration]
           /\ wrapped' \in BOOLEAN /\ mixed' \subseteq Requests \cup {"session"}
           /\ (Fits /\ WholeSeconds /\ StartsUnlessWrapped /\ Agreeing)'
<1> USE DEF IntervalInv, Post, ticking, Handled
<1>1. dur' \in [Requests -> Duration]
  BY WrappedIsDuration, ZeroDuration DEF TypeOK
<1>2. hpc' \in [Requests -> {"idle", "ok", "refused"} \cup Handled]
  BY DEF TypeOK
<1>3. wrapped' \in BOOLEAN
  BY WrappedIsDuration DEF TypeOK
<1>4. mixed' \subseteq Requests \cup {"session"}
  BY JoinsTyped DEF TypeOK
<1>5. Fits' /\ StartsUnlessWrapped'
  BY DEF Fits, StartsUnlessWrapped
<1>6. WholeSeconds'
  <2>1. ~wrapped' => ~wrapped /\ (Wrapped(n) > 0 => Wrapped(n) = n * Unit)
    OBVIOUS
  <2>2. Wrapped(n) > 0 /\ Wrapped(n) = n * Unit => n \in Nat \ {0}
    BY HalfPositive, SMT
  <2>3. \A q \in Requests : dur'[q] = IF q # r THEN dur[q] ELSE IF up THEN Wrapped(n) ELSE 0
    BY DEF TypeOK
  <2>4. ~wrapped' => \A q \in Requests : dur'[q] > 0 =>
                        \E k \in Nat \ {0} : dur'[q] = k * Unit
    BY <2>1, <2>2, <2>3, SMT DEF WholeSeconds
  <2> QED
    BY <2>4, SMT DEF TypeOK, WholeSeconds
<1>7. Agreeing'
  <2>1. CASE up
    <3>1. Busy' = Busy \cup {r} /\ r \notin Busy
      BY <2>1, RequestsAssumption DEF TypeOK, Busy
    <3>2. mixed' = (mixed \ {r}) \cup (IF Busy = {} THEN {} ELSE Busy \cup {r})
      BY <2>1 DEF Joins
    <3>3. (\A a \in Busy \ mixed : Busy = {a})'
      BY <3>1, <3>2
    <3>4. \A q \in Requests : hpc'[q] = "put" => q # r /\ hpc[q] = "put" /\ dur'[q] = dur[q]
      BY <2>1 DEF TypeOK
    <3>5. \A q \in Requests : hpc[q] = "put" => hpc'[q] = "put" /\ q # r
      BY DEF TypeOK
    <3>6. (\A q \in Requests \ mixed : hpc[q] = "put" => period \in {0, dur[q]})'
      BY <3>2, <3>4 DEF Agreeing
    <3>7. (session = "read" /\ "session" \notin mixed => interval = stored)'
      BY <3>2, RequestsAssumption DEF Agreeing
    <3> QED
      BY <3>3, <3>5, <3>6, <3>7 DEF Agreeing, Seconds
  <2>2. CASE ~up
    <3>1. Busy' = Busy /\ mixed' = mixed
      BY <2>2 DEF TypeOK, Busy
    <3>2. \A q \in Requests : hpc'[q] = "put" <=> hpc[q] = "put"
      BY <2>2 DEF TypeOK
    <3>3. \A q \in Requests : hpc[q] = "put" => dur'[q] = dur[q]
      BY <2>2 DEF TypeOK
    <3> QED
      BY <3>1, <3>2, <3>3 DEF Agreeing, Seconds
  <2> QED
    BY <2>1, <2>2
<1> QED
  BY <1>1, <1>2, <1>3, <1>4, <1>5, <1>6, <1>7

LEMMA PostOtherStep ==
    ASSUME IntervalInv, NEW r \in Requests, NEW n \in Int, PostOther(r, n)
    PROVE  IntervalInv'
<1> USE DEF IntervalInv, PostOther
<1>1. NoForm \in Form
  BY SMT DEF NoForm, Form
<1>2. hpc' \in [Requests -> {"idle", "ok", "refused"} \cup Handled] /\ dur' \in [Requests -> Duration]
      /\ wrapped' \in BOOLEAN /\ mixed' \subseteq Requests \cup {"session"}
  BY PostKeeps
<1>3. (Fits /\ WholeSeconds /\ StartsUnlessWrapped /\ Agreeing)'
  BY PostKeeps
<1>4. TypeOK'
  BY <1>1, <1>2 DEF TypeOK, ticking
<1>5. Followed'
  BY DEF Followed, Post, TypeOK
<1> QED
  BY <1>3, <1>4, <1>5

LEMMA SaveStep ==
    ASSUME IntervalInv, NEW r \in Requests, Save(r)
    PROVE  IntervalInv'
<1> USE DEF IntervalInv, Save
<1> DEFINE n == SecondsOf(form)
<1>1. NoForm \in Form
  BY SMT DEF NoForm, Form
<1>2. n \in Nat
  BY FormBack DEF TypeOK
<1>3. hpc' \in [Requests -> {"idle", "ok", "refused"} \cup Handled] /\ dur' \in [Requests -> Duration]
      /\ wrapped' \in BOOLEAN /\ mixed' \subseteq Requests \cup {"session"}
  BY <1>2, PostKeeps
<1>4. (Fits /\ WholeSeconds /\ StartsUnlessWrapped /\ Agreeing)'
  BY <1>2, PostKeeps
<1>5. TypeOK'
  BY <1>1, <1>3 DEF TypeOK, ticking
<1>6. n * Unit < 2 * Half
  <2>1. n <= form.hour * 3600 + 3540 /\ form.hour * 3600 \in Nat
    BY SMT DEF TypeOK, Form, SecondsOf
  <2>2. n * Unit <= (form.hour * 3600) * Unit + 3540 * Unit
    BY <1>2, <2>1, HalfPositive, SMT
  <2>3. 3540 * Unit < Half
    BY FormFits, HalfPositive, SMT
  <2>4. (form.hour * 3600) * Unit \in Nat /\ n * Unit \in Nat
    BY <1>2, <2>1, HalfPositive, SMT
  <2> QED
    BY <2>2, <2>3, <2>4, HalfPositive, SMT DEF Followed
<1>7. Wrapped(n) > 0 => Wrapped(n) = n * Unit
  BY <1>2, <1>6, WrappedOnce
<1>8. Followed'
  <2>1. \A q \in Requests \ {r} : hpc'[q] = hpc[q]
    BY DEF Post, TypeOK
  <2>2. sent' # NoForm => sent' = form /\ \A q \in Requests : hpc[q] \notin Handled
    BY RequestsAssumption DEF Busy
  <2>3. hpc'[r] \in Handled /\ dur'[r] > 0 => dur'[r] = n * Unit
    BY <1>7, ZeroDuration DEF Post, TypeOK, Handled
  <2>4. hpc'[r] \notin {"idle", "ok"}
    BY DEF Post, TypeOK
  <2>5. mine' = r /\ get # "sent" /\ late' = (get = "body") /\ last' = NoForm
        /\ UNCHANGED <<form, get, answer, filled, stored>>
    BY DEF Loading
  <2>6. sent' # NoForm => \A q \in Requests \ {r} : hpc'[q] \notin Handled
    BY <2>1, <2>2
  <2>7. (form.hour * 3600) * Unit < Half
    BY DEF Followed
  <2>8. sent' # NoForm => /\ sent' = form'
                          /\ hpc'[mine'] \in Handled /\ dur'[mine'] > 0
                                 => dur'[mine'] = SecondsOf(sent') * Unit
                          /\ hpc'[mine'] # "ok"
    BY <2>2, <2>3, <2>4, <2>5
  <2>9. mine' # NoRequest /\ hpc'[mine'] # "idle" /\ get' # "sent" /\ (get' = "body" => late')
    BY <2>4, <2>5, RequestsAssumption
  <2>10. (form'.hour * 3600) * Unit < Half
    BY <2>5, <2>7
  <2>11. last' = NoForm /\ mine' = r
    BY <2>5
  <2>12. sent' # NoForm => \A q \in Requests \ {mine'} : hpc'[q] \notin Handled
    BY <2>6, <2>11
  <2> HIDE DEF n, IntervalInv, Save
  <2> QED
    BY <2>8, <2>9, <2>10, <2>11, <2>12 DEF Followed
<1> QED
  BY <1>4, <1>5, <1>8

-----------------------------------------------------------------------------
\* The rest of the form.

LEMMA FormStep ==
    ASSUME IntervalInv, Open \/ GetAnswered \/ GetShown \/ GetFails \/ Edit
    PROVE  IntervalInv'
<1> USE DEF IntervalInv
<1>1. NoForm \in Form /\ FormOf(answer) \in Form
  BY FormTyped, SMT DEF NoForm, Form, TypeOK
<1>2. UNCHANGED <<up, stored, ticking, updates, last, history>>
  BY DEF Open, GetAnswered, GetShown, GetFails, Edit
<1>3. (WholeSeconds /\ StartsUnlessWrapped /\ Agreeing)'
  BY <1>2 DEF WholeSeconds, StartsUnlessWrapped, Agreeing, Busy, Seconds,
      ticking, updates, history
<1>4. answer' \in {0, answer, stored} => Fits'
  <2>1. 0 * Unit < Half
    BY HalfPositive, SMT
  <2>2. UNCHANGED <<stored, interval>>
    BY <1>2 DEF ticking
  <2> QED
    BY <2>1, <2>2 DEF Fits
<1>5. CASE Open
  <2>1. TypeOK'
    BY <1>1, <1>2, <1>5 DEF Open, TypeOK, ticking, updates, history
  <2>2. Followed'
    BY <1>2, <1>5, HalfPositive, SMT DEF Open, Followed, NoForm, updates
  <2> QED
    BY <1>3, <1>4, <1>5, <2>1, <2>2 DEF Open
<1>6. CASE GetAnswered
  <2>1. TypeOK'
    BY <1>2, <1>6 DEF GetAnswered, TypeOK, ticking, updates, history
  <2>2. mine = NoRequest /\ sent = NoForm
    BY <1>6 DEF GetAnswered, Followed
  <2> QED
    BY <1>2, <1>3, <1>4, <1>6, <2>1, <2>2 DEF GetAnswered, Followed, updates
<1>7. CASE GetShown
  <2>1. TypeOK'
    BY <1>1, <1>2, <1>7 DEF GetShown, GetEnds, TypeOK, ticking, updates, history
  <2>2. (FormOf(answer).hour * 3600) * Unit < Half
    <3>1. FormOf(answer).hour * 3600 <= answer /\ FormOf(answer).hour * 3600 \in Nat /\ answer \in Nat
      BY FormTyped, SMT DEF TypeOK, Form
    <3> QED
      BY <3>1, HalfPositive, SMT DEF Fits
  <2>3. last # NoForm /\ ~late => FormOf(answer) = last
    BY <1>7, FormBack DEF GetShown, Followed, TypeOK
  <2>4. mine # NoRequest => late
    BY <1>7 DEF GetShown, Followed
  <2>5. sent # NoForm => late
    BY <2>4 DEF Followed
  <2>6. form' = FormOf(answer) /\ filled' = ~late /\ get' = "none" /\ answer' = 0
        /\ UNCHANGED <<stored, hpc, dur, mine, sent, last>>
    BY <1>7 DEF GetShown, GetEnds, updates
  <2>7. Followed'
    <3>1. (form'.hour * 3600) * Unit < Half
      BY <2>2, <2>6
    <3>2. mine' # NoRequest => get' # "sent" /\ hpc'[mine'] # "idle" /\ get' # "body"
      BY <2>6 DEF Followed
    <3>3. last' # NoForm => (filled' => form' = last')
      BY <2>3, <2>6
    <3>4. sent' # NoForm => ~filled'
      BY <2>5, <2>6
    <3>5. UNCHANGED <<stored, hpc, dur, mine, sent, last>> /\ get' = "none"
      BY <2>6
    <3> QED
      BY <3>1, <3>2, <3>3, <3>4, <3>5 DEF Followed
  <2>8. Fits'
    BY <1>4, <2>6
  <2> QED
    BY <1>3, <2>1, <2>7, <2>8
<1>8. CASE GetFails
  <2>1. TypeOK'
    BY <1>2, <1>8 DEF GetFails, GetEnds, TypeOK, ticking, updates, history
  <2> QED
    BY <1>2, <1>3, <1>4, <1>8, <2>1 DEF GetFails, GetEnds, Followed, updates
<1>9. CASE Edit
  <2>1. form' \in Form /\ (form'.hour \in 0..23 \/ form'.hour = form.hour)
    <3>1. \A h \in Hours : h \in 0..23
      BY InputAssumption
    <3>2. \A m \in Minutes : m \in 0..59
      BY InputAssumption
    <3> QED
      BY <1>9, <3>1, <3>2, SMT DEF Edit, Form, TypeOK
  <2>2. (form'.hour * 3600) * Unit < Half
    <3>1. \A h \in 0..23 : (h * 3600) * Unit < Half
      BY FormFits, HalfPositive, SMT
    <3> QED
      BY <2>1, <3>1 DEF Followed
  <2>3. TypeOK'
    BY <1>2, <1>9, <2>1 DEF Edit, TypeOK, ticking, updates, history
  <2> QED
    BY <1>2, <1>3, <1>4, <1>9, <2>2, <2>3 DEF Edit, Followed, updates
<1> QED
  BY <1>5, <1>6, <1>7, <1>8, <1>9

LEMMA SaveAnsweredStep ==
    ASSUME IntervalInv, SaveAnswered
    PROVE  IntervalInv'
<1> USE DEF IntervalInv, SaveAnswered, Step, Handled
<1>1. NoForm \in Form
  BY SMT DEF NoForm, Form
<1>2. mine \in Requests /\ hpc[mine] \in {"ok", "refused"}
  BY DEF TypeOK
<1>3. \A q \in Requests : hpc'[q] = IF q = mine THEN "idle" ELSE hpc[q]
  BY <1>2 DEF TypeOK
<1>4. Busy' = Busy
  BY <1>2, <1>3 DEF Busy, ticking
<1>5. TypeOK'
  BY <1>1, <1>2 DEF TypeOK, ticking, history
<1>6. (Fits /\ WholeSeconds /\ StartsUnlessWrapped)'
  BY <1>2, <1>3 DEF Fits, WholeSeconds, StartsUnlessWrapped, ticking, history
<1>7. Agreeing'
  BY <1>2, <1>3, <1>4 DEF Agreeing, Seconds, ticking, history
<1>8. Followed'
  BY <1>2, <1>3, RequestsAssumption DEF Followed, ticking
<1> QED
  BY <1>5, <1>6, <1>7, <1>8

-----------------------------------------------------------------------------
\* IntervalInv is inductive.
LEMMA IntervalStep == IntervalInv /\ [Next]_vars => IntervalInv'
<1> SUFFICES ASSUME IntervalInv, [Next]_vars PROVE IntervalInv'
  OBVIOUS
<1>1. CASE Crash
  BY <1>1, DieStep DEF Crash
<1>2. CASE Restart
  BY <1>2, RestartStep
<1>3. CASE ReadInterval
  BY <1>3, ReadIntervalStep
<1>4. CASE NewTicker
  BY <1>4, NewTickerStep
<1>5. CASE SessionEnds
  BY <1>5, SessionEndsStep
<1>6. ASSUME NEW r \in Requests, NEW n \in Typed, PostOther(r, n) PROVE IntervalInv'
  BY <1>6, PostOtherStep, InputAssumption
<1>7. ASSUME NEW r \in Requests, Update(r) PROVE IntervalInv'
  BY <1>7, CheckStep, ResetTickerStep, PutStep DEF Update
<1>8. ASSUME NEW r \in Requests, Answered(r) PROVE IntervalInv'
  BY <1>8, AnsweredStep
<1>9. ASSUME NEW r \in Requests, Save(r) PROVE IntervalInv'
  BY <1>9, SaveStep
<1>10. CASE Open \/ GetAnswered \/ GetShown \/ GetFails \/ Edit
  BY <1>10, FormStep
<1>11. CASE SaveAnswered
  BY <1>11, SaveAnsweredStep
<1>12. CASE UNCHANGED vars
  BY <1>12 DEF vars, ticking, updates, page, history, IntervalInv, TypeOK, Fits,
      WholeSeconds, StartsUnlessWrapped, Agreeing, Busy, Seconds, Followed
<1> QED
  BY <1>1, <1>2, <1>3, <1>4, <1>5, <1>6, <1>7, <1>8, <1>9, <1>10, <1>11, <1>12 DEF Next

\* The invariant holds in every state of FetchInterval (http.go 140-185,
\* syncPosts.go 405-422 and 471-495, SyncIntervalSetting.tsx).
THEOREM IntervalInvariant == Spec => []IntervalInv
<1>1. Init => IntervalInv
  BY InitInv
<1>2. IntervalInv /\ [Next]_vars => IntervalInv'
  BY IntervalStep
<1> QED
  BY <1>1, <1>2, PTL DEF Spec

\* Every variable keeps its type: a ticker's period is a Duration that is not
\* negative, and the interval stored a number of seconds (setFetchInterval).
THEOREM TypeCorrect == Spec => []TypeOK
<1>1. IntervalInv => TypeOK
  BY DEF IntervalInv
<1> QED
  BY <1>1, IntervalInvariant, PTL

\* However many updates overlap, crash and fail, the interval stored is
\* positive, so that NewTicker does not panic (syncPosts.go:419), unless the
\* product of http.go:175 wrapped to another positive Duration.
THEOREM StartsOrWrapped == Spec => []StartsUnlessWrapped
<1>1. IntervalInv => StartsUnlessWrapped
  BY DEF IntervalInv
<1> QED
  BY <1>1, IntervalInvariant, PTL

\* While nobody is between the two, ticker and store hold the same interval,
\* if the last to set them was by itself and did not fail (syncPosts.go:471).
THEOREM TickerAgrees == Spec => []TickerAsStored
<1>1. IntervalInv => TickerAsStored
  BY DEF IntervalInv, TickerAsStored, Agreeing, Busy, Handled
<1> QED
  BY <1>1, IntervalInvariant, PTL

\* What a GET brings to the page is what was saved last, whatever the width of
\* a Duration, if nobody else updated it and the form was not saved while the
\* body of that GET was awaited (SyncIntervalSetting.tsx:47-58, 147).
THEOREM SavedIsShown == Spec => []ShowsSaved
<1>1. IntervalInv => ShowsSaved
  BY DEF IntervalInv, ShowsSaved, Followed
<1> QED
  BY <1>1, IntervalInvariant, PTL
=============================================================================
