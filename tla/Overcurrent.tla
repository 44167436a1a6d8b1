---------------------------- MODULE Overcurrent ----------------------------
(***************************************************************************)
(* A time-overcurrent scheme (PTOC) with its trip: the accumulator of      *)
(* sas/protection/ptoc.lua, the latch of evaluateProtection, and           *)
(* tripFromProtection with its interlock check, its output and its Op      *)
(* point (sas/ied/engine.lua).                                             *)
(*                                                                         *)
(* The current is normal or at one of several levels above pickup, each    *)
(* with the trip time its curve gives (sas/protection/curves.lua).  The    *)
(* accumulator counts in parts of Full, so that all shares are whole.      *)
(***************************************************************************)
EXTENDS Integers

CONSTANTS
    TripTime,       \* tripTime(cfg, M) of each level above pickup
    Full,           \* the parts that make an accumulator of 1
    ResetTime,      \* cfg.resetSec
    TickInterval,   \* cfg.tickIntervalSec
    MaxTick,        \* the longest time between two evaluations
    RespectInterlocks   \* the scheme's respectInterlocks

Levels == DOMAIN TripTime

\* What every level above pickup, and a rest of one time unit, make of Full.
\* A curve whose trip time is zero has no share: tick passes over it.
Share(l) == IF TripTime[l] > 0 THEN Full \div TripTime[l] ELSE 0
ResetShare == Full \div ResetTime

ASSUME OvercurrentAssumption ==
    /\ Full \in Nat \ {0} /\ ResetTime \in 1 .. Full
    /\ TripTime \in [Levels -> Nat] /\ "normal" \notin Levels
    /\ TickInterval \in Nat \ {0} /\ MaxTick \in Nat /\ TickInterval <= MaxTick
    /\ RespectInterlocks \in BOOLEAN
    /\ \A l \in Levels : TripTime[l] > 0 => Full = Share(l) * TripTime[l]
    /\ Full = ResetShare * ResetTime

VARIABLES
    current,    \* the measured current
    accum,      \* state.accum, in parts of Full
    latched,    \* state.latched
    op,         \* the value of the scheme's Op point
    sinceEval,  \* the time since state.lastEvalAt, or Never
    pulses,     \* history: trips since the daemon was started
    overFor,    \* history: how long the current has been above pickup
    overReads,  \* history: readings above pickup since the last full rest
    restFor     \* history: how long it has been read as normal

histories == <<pulses, overFor, overReads, restFor>>
vars == <<current, accum, latched, op, sinceEval, pulses, overFor, overReads, restFor>>

Never == -1

\* The caps of the history variables: nothing is said of longer times.
LongTime == Full + 2 * MaxTick
UpTo(cap, n) == IF n < cap THEN n ELSE cap
Reduced(n, m) == IF n > m THEN n - m ELSE 0

\* The time that passed since the last evaluation, if there was one.
Counted == IF sinceEval = Never THEN 0 ELSE sinceEval

Start ==
    /\ accum' = 0
    /\ latched' = FALSE
    /\ op' = FALSE
    /\ sinceEval' = Never
    /\ pulses' = 0
    /\ overFor' = 0
    /\ overReads' = 0
    /\ restFor' = 0

Init ==
    /\ current = "normal"
    /\ accum = 0
    /\ latched = FALSE
    /\ op = FALSE
    /\ sinceEval = Never
    /\ pulses = 0
    /\ overFor = 0
    /\ overReads = 0
    /\ restFor = 0
-----------------------------------------------------------------------------
CurrentChanges ==
    /\ current' \in (Levels \cup {"normal"}) \ {current}
    /\ overFor' = IF current' = "normal" THEN 0 ELSE overFor
    /\ UNCHANGED <<accum, latched, op, sinceEval, pulses, overReads, restFor>>

Advance ==
    /\ sinceEval < MaxTick
    /\ sinceEval' = IF sinceEval = Never THEN Never ELSE sinceEval + 1
    /\ overFor' = IF current = "normal" \/ sinceEval = Never THEN 0
                  ELSE UpTo(LongTime, overFor + 1)
    /\ UNCHANGED <<current, accum, latched, op, pulses, overReads, restFor>>

\* engine.stop and engine.start
Restart ==
    /\ Start
    /\ UNCHANGED current

\* The dt that evaluateProtection computes.
Elapsed == IF sinceEval \in {Never, 0} THEN TickInterval ELSE sinceEval

\* Variant: a failed reading empties the accumulator.
AccumulatedForgetful(readOk) ==
    IF ~ readOk THEN 0
    ELSE IF current # "normal" THEN accum + Elapsed * Share(current)
    ELSE Reduced(accum, Elapsed * ResetShare)

\* Variant: the accumulator only ever grows.
AccumulatedForGood(readOk) ==
    IF readOk /\ current # "normal" THEN accum + Elapsed * Share(current) ELSE accum

\* ptoc.tick before the comparison.
Accumulated(readOk) ==
    IF ~ readOk THEN accum
    ELSE IF current # "normal" THEN accum + Elapsed * Share(current)
    ELSE Reduced(accum, Elapsed * ResetShare)

\* ptoc.tick's answer.
Reached(readOk) ==
    /\ readOk /\ current # "normal" /\ Share(current) > 0
    /\ Accumulated(readOk) >= Full

\* Variant: the Op point reports the trip that was decided on.
OpDecided(applied) == TRUE

\* The Op point reports the trip that was applied.
Op(applied) == applied \/ op

\* tripFromProtection: refused by an interlock, failed by the output, or applied.
\* The latch does not depend on it.
Trip(blocked, driven) ==
    LET applied == ~ (RespectInterlocks /\ blocked) /\ driven IN
    /\ latched' = TRUE
    /\ op' = Op(applied)
    /\ pulses' = IF applied THEN pulses + 1 ELSE pulses
    /\ accum' = 0

\* The histories after a reading.
Recorded(readOk) ==
    /\ overFor' = IF readOk THEN overFor ELSE Reduced(overFor, Counted)
    /\ restFor' = IF ~ readOk THEN restFor
                  ELSE IF current = "normal" THEN UpTo(ResetTime, restFor + Elapsed) ELSE 0
    /\ overReads' = IF readOk /\ current # "normal" THEN UpTo(Full, overReads + 1)
                    ELSE IF restFor' >= ResetTime THEN 0 ELSE overReads

\* evaluateProtection, for one scheme that is not latched.
Evaluate(readOk, blocked, driven) ==
    /\ ~ latched
    /\ sinceEval' = 0
    /\ Recorded(readOk)
    /\ \/ /\ Reached(readOk)
          /\ Trip(blocked, driven)
       \/ /\ ~ Reached(readOk)
          /\ accum' = Accumulated(readOk)
          /\ UNCHANGED <<latched, op, pulses>>
    /\ UNCHANGED current

Tick == \E readOk, blocked, driven \in BOOLEAN : Evaluate(readOk, blocked, driven)

Calm ==
    \/ CurrentChanges
    \/ Advance
    \/ Tick

Next ==
    \/ Calm
    \/ Restart

Spec == Init /\ [][Next]_vars

\* Time passes, and again and again a tick finds a reading.
FairSpec ==
    /\ Spec
    /\ WF_vars(Advance)
    /\ SF_vars(\E blocked, driven \in BOOLEAN : Evaluate(TRUE, blocked, driven))
-----------------------------------------------------------------------------
TypeOK ==
    /\ current \in Levels \cup {"normal"}
    /\ accum \in 0 .. Full - 1
    /\ latched \in BOOLEAN
    /\ op \in BOOLEAN
    /\ sinceEval \in {Never} \cup 0 .. MaxTick
    /\ pulses \in Nat
    /\ overFor \in 0 .. LongTime
    /\ overReads \in 0 .. Full
    /\ restFor \in 0 .. ResetTime

\* A current that stays above pickup, at whatever levels and however it moves
\* between them, makes the scheme decide on its trip within the trip time of the
\* slowest level and one tick; failed readings in between cost no more than the
\* intervals they end.
TripsInTime ==
    ~ latched => \E l \in Levels : overFor < TripTime[l] + MaxTick

\* No scheme trips before the current was read above pickup often enough to fill
\* the accumulator at the quickest level, each reading counting for the longest
\* interval; what came before a full rest does not help.
NoHastyTrip ==
    [][~ latched /\ latched' =>
         \E l \in Levels : overReads' * MaxTick >= TripTime[l]]_vars

\* Between two starts of the daemon the scheme pulses its breaker at most once,
\* and the Op point, which reports, interlocks and remote trips rely on, says
\* so if and only if it did.
OpTellsTheTrip == pulses = IF op THEN 1 ELSE 0

\* A fault that lasts is decided on, even if its readings fail now and then for
\* ever and the level is always the lowest.
LastingFaultTrips ==
    <>[](current # "normal") /\ <>[][Calm]_vars => <>[] latched
=============================================================================
