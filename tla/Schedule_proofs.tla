---------------------------- MODULE Schedule_proofs ----------------------------
(***************************************************************************)
(* The wake schedule and the retained results, for any health interval and *)
(* any delays.                                                             *)
(***************************************************************************)
EXTENDS Schedule, TLAPS

LEMMA MinOfTwo ==
    ASSUME NEW a \in Int, NEW b \in Int
    PROVE  Min({a, b}) = IF a <= b THEN a ELSE b
<1>1. CASE a <= b BY <1>1 DEF Min
<1>2. CASE b < a  BY <1>2 DEF Min
<1>3. QED BY <1>1, <1>2

LEMMA MaxOfTwo ==
    ASSUME NEW a \in Int, NEW b \in Int
    PROVE  Max({a, b}) = IF a <= b THEN b ELSE a
<1>1. CASE a <= b BY <1>1 DEF Max
<1>2. CASE b < a  BY <1>2 DEF Max
<1>3. QED BY <1>1, <1>2

LEMMA LessOfNat ==
    ASSUME NEW time \in Nat
    PROVE  Less(time) = IF time = 0 THEN 0 ELSE time - 1
BY MaxOfTwo DEF Less

\* The generic retry never comes at once.
LEMMA RetryIsLater ==
    ASSUME attempt \in 0..5
    PROVE  RetrySeconds \in Nat \ {0}
<1>1. 2 ^ 0 = 1 /\ 2 ^ 1 = 2 /\ 2 ^ 2 = 4 /\ 2 ^ 3 = 8 /\ 2 ^ 4 = 16 /\ 2 ^ 5 = 32
    OBVIOUS
<1>2. attempt = 0 \/ attempt = 1 \/ attempt = 2 \/ attempt = 3 \/ attempt = 4 \/ attempt = 5
    OBVIOUS
<1> DEFINE seconds == 2 ^ attempt
<1>3. seconds \in {1, 2, 4, 8, 16, 32}
    BY <1>1, <1>2
<1> HIDE DEF seconds
<1>4. RetrySeconds = IF seconds <= 30 THEN seconds ELSE 30
    BY <1>3, MinOfTwo DEF RetrySeconds, seconds
<1>5. QED BY <1>3, <1>4

\* What is retained is the last answer; while the provider is asked, nothing is.
RetainedInv ==
    /\ pc = "asking" => retained = "none"
    /\ retained = "available" => last = "available"

\* A deadline that is scheduled lies ahead, unless it has come during the pass.
SpinInv ==
    /\ pc = "reconcile" /\ hint = "deadline" /\ left = 0 => elapsed
    /\ NoSpin

\* The result is retained for as long as no attempt is due. It is dropped early
\* only where it was an offer, or where a desired state that was not the
\* provider's had taken its place.
EarlyInv ==
    /\ retained # "none" => barred <= left
    /\ retained = "none" => barred = 0 \/ last = "available" \/ hidden
    /\ pc \in {"reconcile", "asleep"} /\ desired = "resolved"
          => last = "available" \/ hidden

Inv == TypeOK /\ RetainedInv /\ SpinInv /\ WakesInTime /\ EarlyInv

\* How long a sleep may be, and that it is one.
LEMMA WakeInBounds ==
    ASSUME TypeOK, hint # "unset"
    PROVE  /\ WakeIn \in Nat /\ WakeIn <= Health
           /\ hint = "deadline" => WakeIn <= left
           /\ WakeIn = 0 => hint = "deadline" /\ left = 0
<1>1. Health \in Nat \ {0} /\ left \in Nat /\ attempt \in 0..5
    BY ScheduleAssumption DEF TypeOK
<1>2. CASE hint = "none"
    BY <1>1, <1>2 DEF WakeIn
<1>3. CASE hint = "deadline"
  <2>1. WakeIn = IF Health <= left THEN Health ELSE left
      BY <1>1, <1>3, MinOfTwo DEF WakeIn
  <2>2. QED BY <1>1, <1>3, <2>1
<1>4. CASE hint = "retry"
  <2>1. RetrySeconds \in Nat \ {0}
      BY <1>1, RetryIsLater
  <2>2. WakeIn = IF Health <= RetrySeconds THEN Health ELSE RetrySeconds
      BY <1>1, <1>4, <2>1, MinOfTwo DEF WakeIn
  <2>3. QED BY <1>1, <1>4, <2>1, <2>2
<1>5. QED
    BY <1>2, <1>3, <1>4 DEF TypeOK

\* A computation takes a deadline only if it has not passed.
LEMMA ComputedKeeps ==
    ASSUME Inv, NEW d \in {"resolved", "absent", "unavailable"},
           NEW h \in {"none", "retry"}, NEW hasDeadline \in BOOLEAN,
           Computed(d, HintFor(h, hasDeadline)),
           UNCHANGED <<retained, left, attempt, sleep, elapsed, override, isp, ready>>
    PROVE  /\ pc' = "reconcile" /\ desired' = d /\ outdated' = FALSE
           /\ hint' \in {"none", "deadline", "retry"}
           /\ hint' = "deadline" => left' # 0
<1>1. left \in Nat BY DEF Inv, TypeOK
<1>2. HintFor(h, hasDeadline) \in {"none", "deadline", "retry"}
    BY <1>1 DEF HintFor
<1>3. HintFor(h, hasDeadline) = "deadline" => left # 0
    BY <1>1 DEF HintFor
<1>4. QED BY <1>2, <1>3 DEF Computed

LEMMA Initially == Init => Inv
<1> SUFFICES ASSUME Init PROVE Inv
    OBVIOUS
<1>1. TypeOK
  <2>1. left \in Nat /\ sleep \in Nat /\ barred \in Nat /\ attempt \in 0..5
      BY DEF Init
  <2>2. QED BY <2>1, Zenon DEF Init, TypeOK
<1>2. RetainedInv BY DEF Init, RetainedInv
<1>3. SpinInv BY DEF Init, SpinInv, NoSpin
<1>4. WakesInTime BY DEF Init, WakesInTime
<1>5. EarlyInv BY DEF Init, EarlyInv
<1>6. QED BY <1>1, <1>2, <1>3, <1>4, <1>5 DEF Inv

LEMMA InvStep == Inv /\ [Next]_vars => Inv'
<1> SUFFICES ASSUME Inv, [Next]_vars PROVE Inv'
    OBVIOUS
<1> USE DEF Inv, TypeOK, RetainedInv, SpinInv, NoSpin, WakesInTime, EarlyInv,
            discovery, wanted, timing, world, history
<1>1. CASE UseOverride
  <2>1. PICK d \in {"resolved", "unavailable"}, h \in {"none", "retry"} :
            Computed(d, HintFor(h, FALSE))
      BY <1>1 DEF UseOverride
  <2>2. /\ pc' = "reconcile" /\ desired' = d /\ outdated' = FALSE
        /\ hint' \in {"none", "deadline", "retry"} /\ (hint' = "deadline" => left' # 0)
      BY <1>1, <2>1, ComputedKeeps DEF UseOverride
  <2>3. TypeOK'
    <3>1. /\ desired' \in {"unset", "resolved", "absent", "unavailable"}
          /\ hint' \in {"unset", "none", "deadline", "retry"}
          /\ desired' # "unset" /\ hint' # "unset"
        BY <2>2
    <3>2. hidden' \in BOOLEAN
        BY <1>1 DEF UseOverride
    <3>3. QED
        BY <1>1, <2>2, <3>1, <3>2, Zenon DEF UseOverride
  <2>4. RetainedInv'
      BY <1>1, <2>2 DEF UseOverride
  <2>5. SpinInv'
      BY <1>1, <2>2 DEF UseOverride
  <2>6. WakesInTime'
      BY <1>1, <2>2 DEF UseOverride
  <2>7. EarlyInv'
      BY <1>1, <2>2 DEF UseOverride
  <2>8. QED BY <2>3, <2>4, <2>5, <2>6, <2>7 DEF Inv
<1>2. CASE Discover
  <2>1. TypeOK'
    <3>1. CASE retained # "none" /\ left > 0
        BY <1>2, <3>1 DEF Discover
    <3>2. CASE ~(retained # "none" /\ left > 0)
        BY <1>2, <3>2 DEF Discover
    <3>3. QED BY <3>1, <3>2
  <2>2. RetainedInv'
      BY <1>2 DEF Discover
  <2>3. SpinInv'
      BY <1>2 DEF Discover
  <2>4. WakesInTime'
      BY <1>2 DEF Discover
  <2>5. EarlyInv'
      BY <1>2 DEF Discover
  <2>6. QED BY <2>1, <2>2, <2>3, <2>4, <2>5 DEF Inv
<1>3. CASE Answer
  <2>1. PICK delay \in DelaysOf(isp) : left' = delay /\ barred' = delay
      BY <1>3 DEF Answer
  <2>2. delay \in Nat
      BY ScheduleAssumption DEF DelaysOf, OutcomeDelays, ErrorDelays
  <2>3. /\ StateOf(isp) \in {"available", "noService", "unavailable"}
        /\ StateOf(isp) = "available" => isp = "available"
      BY DEF StateOf, Answers
  <2>4. TypeOK'
    <3>1. left' \in Nat /\ barred' \in Nat
        BY <2>1, <2>2
    <3>2. /\ retained' \in {"none", "available", "noService", "unavailable"}
          /\ retained' # "none" /\ pc' = "compute" /\ last' \in Answers
        BY <1>3, <2>3 DEF Answer
    <3>3. QED
        BY <1>3, <3>1, <3>2, Zenon DEF Answer
  <2>5. RetainedInv'
      BY <1>3, <2>1, <2>2, <2>3 DEF Answer
  <2>6. SpinInv'
      BY <1>3, <2>1, <2>2, <2>3 DEF Answer
  <2>7. WakesInTime'
      BY <1>3, <2>1, <2>2, <2>3 DEF Answer
  <2>8. EarlyInv'
      BY <1>3, <2>1, <2>2, <2>3 DEF Answer
  <2>9. QED BY <2>4, <2>5, <2>6, <2>7, <2>8 DEF Inv
<1>4. CASE AnswerUnspecified
  <2>1. /\ pc' = "reconcile" /\ desired' = "unavailable" /\ outdated' = FALSE
        /\ hint' \in {"none", "deadline", "retry"} /\ (hint' = "deadline" => left' # 0)
      BY <1>4, ComputedKeeps DEF AnswerUnspecified
  <2>2. TypeOK'
      BY <1>4, <2>1 DEF AnswerUnspecified
  <2>3. RetainedInv'
      BY <1>4, <2>1 DEF AnswerUnspecified
  <2>4. SpinInv'
      BY <1>4, <2>1 DEF AnswerUnspecified
  <2>5. WakesInTime'
      BY <1>4, <2>1 DEF AnswerUnspecified
  <2>6. EarlyInv'
      BY <1>4, <2>1 DEF AnswerUnspecified
  <2>7. QED BY <2>2, <2>3, <2>4, <2>5, <2>6 DEF Inv
<1>5. CASE Compute
  <2>1. PICK d \in {"resolved", "absent", "unavailable"}, h \in {"none", "retry"},
             hasDeadline \in BOOLEAN :
            /\ Computed(d, HintFor(h, hasDeadline))
            /\ d = "resolved" => retained = "available"
      BY <1>5 DEF Compute
  <2>2. /\ pc' = "reconcile" /\ desired' = d /\ outdated' = FALSE
        /\ hint' \in {"none", "deadline", "retry"} /\ (hint' = "deadline" => left' # 0)
      BY <1>5, <2>1, ComputedKeeps DEF Compute
  <2>3. TypeOK'
    <3>1. /\ desired' \in {"unset", "resolved", "absent", "unavailable"}
          /\ hint' \in {"unset", "none", "deadline", "retry"}
          /\ desired' # "unset" /\ hint' # "unset"
        BY <2>1, <2>2
    <3>2. QED
        BY <1>5, <2>2, <3>1, Zenon DEF Compute
  <2>4. RetainedInv'
      BY <1>5, <2>1, <2>2 DEF Compute
  <2>5. SpinInv'
      BY <1>5, <2>1, <2>2 DEF Compute
  <2>6. WakesInTime'
      BY <1>5, <2>1, <2>2 DEF Compute
  <2>7. EarlyInv'
      BY <1>5, <2>1, <2>2 DEF Compute
  <2>8. QED BY <2>3, <2>4, <2>5, <2>6, <2>7 DEF Inv
<1>6. CASE Schedule
  <2>1. /\ WakeIn \in Nat /\ WakeIn <= Health
        /\ hint = "deadline" => WakeIn <= left
        /\ WakeIn = 0 => hint = "deadline" /\ left = 0
      BY <1>6, WakeInBounds DEF Schedule
  <2>2. attempt' \in 0..5
    <3>1. CASE hint = "retry"
        BY <1>6, <3>1, MinOfTwo DEF Schedule
    <3>2. CASE hint # "retry"
        BY <1>6, <3>2 DEF Schedule
    <3>3. QED BY <3>1, <3>2
  <2>3. TypeOK'
      BY <1>6, <2>1, <2>2 DEF Schedule
  <2>4. RetainedInv'
      BY <1>6, <2>1, <2>2 DEF Schedule
  <2>5. SpinInv'
      BY <1>6, <2>1, <2>2 DEF Schedule
  <2>6. WakesInTime'
      BY <1>6, <2>1, <2>2 DEF Schedule
  <2>7. EarlyInv'
      BY <1>6, <2>1, <2>2 DEF Schedule
  <2>8. QED BY <2>3, <2>4, <2>5, <2>6, <2>7 DEF Inv
<1>7. CASE WakeOnTimer \/ WakeOnRefresh \/ WakeOnChange
  <2>1. TypeOK'
    <3>1. attempt' \in 0..5
        BY <1>7 DEF WakeOnTimer, WakeOnRefresh, WakeOnChange
    <3>2. QED
        BY <1>7, <3>1, Zenon DEF WakeOnTimer, WakeOnRefresh, WakeOnChange, NewPass
  <2>2. RetainedInv'
      BY <1>7 DEF WakeOnTimer, WakeOnRefresh, WakeOnChange, NewPass
  <2>3. SpinInv'
      BY <1>7 DEF WakeOnTimer, WakeOnRefresh, WakeOnChange, NewPass
  <2>4. WakesInTime'
      BY <1>7 DEF WakeOnTimer, WakeOnRefresh, WakeOnChange, NewPass
  <2>5. EarlyInv'
      BY <1>7 DEF WakeOnTimer, WakeOnRefresh, WakeOnChange, NewPass
  <2>6. QED BY <2>1, <2>2, <2>3, <2>4, <2>5 DEF Inv
<1>8. CASE RefreshDiscovery
  <2>1. TypeOK'
      BY <1>8 DEF RefreshDiscovery, NewPass
  <2>2. RetainedInv'
      BY <1>8 DEF RefreshDiscovery, NewPass
  <2>3. SpinInv'
      BY <1>8 DEF RefreshDiscovery, NewPass
  <2>4. WakesInTime'
      BY <1>8 DEF RefreshDiscovery, NewPass
  <2>5. EarlyInv'
      BY <1>8 DEF RefreshDiscovery, NewPass
  <2>6. QED BY <2>1, <2>2, <2>3, <2>4, <2>5 DEF Inv
<1>9. CASE Tick
  <2>1. /\ left' = IF left = 0 THEN 0 ELSE left - 1
        /\ sleep' = IF sleep = 0 THEN 0 ELSE sleep - 1
        /\ barred' = IF barred = 0 THEN 0 ELSE barred - 1
      BY <1>9, LessOfNat DEF Tick
  <2>2. TypeOK'
      BY <1>9, <2>1, ScheduleAssumption DEF Tick
  <2>3. RetainedInv'
      BY <1>9, <2>1, ScheduleAssumption DEF Tick
  <2>4. SpinInv'
      BY <1>9, <2>1, ScheduleAssumption DEF Tick
  <2>5. WakesInTime'
      BY <1>9, <2>1, ScheduleAssumption DEF Tick
  <2>6. EarlyInv'
      BY <1>9, <2>1, ScheduleAssumption DEF Tick
  <2>7. QED BY <2>2, <2>3, <2>4, <2>5, <2>6 DEF Inv
<1>10. CASE ChangeOverride \/ ChangeProvider \/ ChangeReadiness
  <2>1. TypeOK'
    <3>1. CASE ChangeOverride
        BY <3>1 DEF ChangeOverride
    <3>2. CASE ChangeProvider
        BY <3>2 DEF ChangeProvider
    <3>3. CASE ChangeReadiness
        BY <3>3 DEF ChangeReadiness
    <3>4. QED BY <1>10, <3>1, <3>2, <3>3
  <2>2. RetainedInv'
      BY <1>10 DEF ChangeOverride, ChangeProvider, ChangeReadiness
  <2>3. SpinInv'
      BY <1>10 DEF ChangeOverride, ChangeProvider, ChangeReadiness
  <2>4. WakesInTime'
      BY <1>10 DEF ChangeOverride, ChangeProvider, ChangeReadiness
  <2>5. EarlyInv'
      BY <1>10 DEF ChangeOverride, ChangeProvider, ChangeReadiness
  <2>6. QED BY <2>1, <2>2, <2>3, <2>4, <2>5 DEF Inv
<1>11. CASE ChangeSource
  <2>1. TypeOK'
      BY <1>11 DEF ChangeSource
  <2>2. RetainedInv'
      BY <1>11 DEF ChangeSource
  <2>3. SpinInv'
      BY <1>11 DEF ChangeSource
  <2>4. WakesInTime'
      BY <1>11 DEF ChangeSource
  <2>5. EarlyInv'
      BY <1>11 DEF ChangeSource
  <2>6. QED BY <2>1, <2>2, <2>3, <2>4, <2>5 DEF Inv
<1>12. CASE UNCHANGED vars
  <2>1. TypeOK'
      BY <1>12 DEF vars
  <2>2. RetainedInv'
      BY <1>12 DEF vars
  <2>3. SpinInv'
      BY <1>12 DEF vars
  <2>4. WakesInTime'
      BY <1>12 DEF vars
  <2>5. EarlyInv'
      BY <1>12 DEF vars
  <2>6. QED BY <2>1, <2>2, <2>3, <2>4, <2>5 DEF Inv
<1>13. CASE NoDiscovery
  <2>1. /\ pc' = "reconcile" /\ desired' = "unavailable" /\ outdated' = FALSE
        /\ hint' \in {"none", "deadline", "retry"} /\ (hint' = "deadline" => left' # 0)
      BY <1>13, ComputedKeeps DEF NoDiscovery
  <2>2. TypeOK'
      BY <1>13, <2>1 DEF NoDiscovery
  <2>3. RetainedInv'
      BY <1>13, <2>1 DEF NoDiscovery
  <2>4. SpinInv'
      BY <1>13, <2>1 DEF NoDiscovery
  <2>5. WakesInTime'
      BY <1>13, <2>1 DEF NoDiscovery
  <2>6. EarlyInv'
      BY <1>13, <2>1 DEF NoDiscovery
  <2>7. QED BY <2>2, <2>3, <2>4, <2>5, <2>6 DEF Inv
<1>14. QED
    BY <1>1, <1>2, <1>3, <1>4, <1>5, <1>6, <1>7, <1>8, <1>9, <1>10, <1>11, <1>12, <1>13
       DEF Next, Daemon

LEMMA Invariance == Spec => []Inv
BY Initially, InvStep, PTL DEF Spec

\* The counters stay counters, the retry count within its cap, and every step of
\* a pass finds what the one before it should have left.
THEOREM Types == Spec => []TypeOK
<1>1. Inv => TypeOK BY DEF Inv
<1>2. QED BY <1>1, Invariance, PTL

\* No delay, zero included, makes the timer fire without time passing: the loop
\* never runs hot.
THEOREM NeverSpins == Spec => []NoSpin
<1>1. Inv => NoSpin BY DEF Inv, SpinInv
<1>2. QED BY <1>1, Invariance, PTL

\* For any delays the health interval bounds the sleep, and so does the next
\* attempt where the schedule depends on it.
THEOREM WakesBeforeItIsDue == Spec => []WakesInTime
<1>1. Inv => WakesInTime BY DEF Inv
<1>2. QED BY <1>1, Invariance, PTL

\* Network events and signals bring no request forward but the refresh of an
\* offer, or one after the override has been in effect.
THEOREM RetryIsNotEarly == Spec => NoEarlyRetryUnlessHidden
<1>1. Inv /\ [Next]_vars
        => [ pc = "pass" /\ pc' = "asking"
             => barred = 0 \/ last = "available" \/ hidden ]_vars
  <2> SUFFICES ASSUME Inv, Next, pc = "pass", pc' = "asking"
               PROVE  barred = 0 \/ last = "available" \/ hidden
      OBVIOUS
  <2>1. Discover
      BY DEF Next, Daemon, UseOverride, NoDiscovery, Computed, Answer, AnswerUnspecified, Compute,
             Schedule, WakeOnTimer, WakeOnRefresh, WakeOnChange, RefreshDiscovery,
             Tick, ChangeOverride, ChangeProvider, ChangeReadiness, ChangeSource
  <2>2. QED BY <2>1 DEF Discover, Inv, EarlyInv, TypeOK
<1>2. QED
    BY <1>1, Invariance, PTL DEF Spec, NoEarlyRetryUnlessHidden
===============================================================================
