----------------------------- MODULE CoilPulses -----------------------------
(***************************************************************************)
(* The output side of a breaker: the trip and close coils that             *)
(* sas/io/redstone.lua energises for a momentary pulse, and the table of   *)
(* pulses to be cleared that every tick of the IED daemon goes through.    *)
(*                                                                         *)
(* Commands come from clients, protection schemes and remote trips, each   *)
(* timed by the clock as it is then, while pulseTick uses the time the     *)
(* tick began.  The redstone component may fail a write, and the daemon    *)
(* may be restarted with the coils left as they are.                       *)
(***************************************************************************)
EXTENDS Naturals

CONSTANTS
    PulseLength,    \* binding.pulseMs, in clock units
    MaxTime         \* bound: the clock stops here, and commands one pulse sooner

ASSUME PulseAssumption == PulseLength \in Nat /\ MaxTime \in Nat

VARIABLES
    now,        \* computer.uptime()
    tickNow,    \* the local "now" of engine.tick
    inTick,     \* true between the start of a tick and its end
    on,         \* which coils are energised
    pulses,     \* engine.state.pulses: coils to be cleared, and when
    forgotten   \* history: energised coils whose clearing was lost to a fault

coilVars == <<now, tickNow, inTick, on, pulses, forgotten>>

Coils == {"trip", "close"}

Pulses == [coil : Coils, resetAt : Nat]

\* operateDouble: the coil that each value of a double-point command drives.
CoilOf == [open |-> "trip", closed |-> "close"]

CoilTypeOK ==
    /\ now \in Nat
    /\ tickNow \in Nat
    /\ inTick \in BOOLEAN
    /\ on \in [Coils -> BOOLEAN]
    /\ pulses \in SUBSET Pulses
    /\ forgotten \in SUBSET Coils

CoilInit ==
    /\ now = 0
    /\ tickNow = 0
    /\ inTick = FALSE
    /\ on = [k \in Coils |-> FALSE]
    /\ pulses = {}
    /\ forgotten = {}
-----------------------------------------------------------------------------
Advance ==
    /\ now < MaxTime
    /\ now' = now + 1
    /\ UNCHANGED <<tickNow, inTick, on, pulses, forgotten>>

StartTick ==
    /\ ~ inTick
    /\ inTick' = TRUE
    /\ tickNow' = now
    /\ UNCHANGED <<now, on, pulses, forgotten>>

\* Variant: the coil is energised and nothing remembers to clear it.
PulseStartUnscheduled(coil, at) ==
    /\ on' = [on EXCEPT ![coil] = TRUE]
    /\ forgotten' = forgotten \ {coil}
    /\ UNCHANGED pulses

\* pulseStart, with the time the caller has.  A component that fails makes the
\* command fail with nothing changed, which is no step at all here.
PulseStart(coil, at) ==
    /\ on' = [on EXCEPT ![coil] = TRUE]
    /\ pulses' = pulses \cup {[coil |-> coil, resetAt |-> at + PulseLength]}
    /\ forgotten' = forgotten \ {coil}

\* applyOperate, for a client, a protection scheme or a remote trip: it reads
\* the clock itself.
Operate(value) ==
    /\ inTick
    /\ now + PulseLength <= MaxTime
    /\ PulseStart(CoilOf[value], now)
    /\ UNCHANGED <<now, tickNow, inTick>>

Due(at) == {p \in pulses : p.resetAt <= at}

CoilsOf(ps) == {p.coil : p \in ps}

\* Variant: one entry is skipped whenever one is removed, yet dropped later.
PulseTickSkips(failed) ==
    /\ \E p \in pulses :
         /\ p.resetAt <= tickNow
         /\ on' = [k \in Coils |-> on[k] /\ k # p.coil]
    /\ pulses' = pulses \ Due(tickNow)
    /\ forgotten' = forgotten

\* Variant: the length of the pulse is in the wrong unit and always over.
PulseTickEarly(failed) ==
    /\ on' = [k \in Coils |-> on[k] /\ k \notin CoilsOf(pulses)]
    /\ pulses' = {}
    /\ forgotten' = forgotten

\* pulseTick: every entry that is due is dropped; its coil is cleared unless
\* the component is missing or fails the write, which goes unnoticed.
PulseTick(failed) ==
    LET due == Due(tickNow) IN
    /\ failed \subseteq CoilsOf(due)
    /\ on' = [k \in Coils |-> on[k] /\ k \notin CoilsOf(due) \ failed]
    /\ pulses' = pulses \ due
    /\ forgotten' = forgotten \cup
         {k \in failed : on[k] /\ k \notin CoilsOf(pulses \ due)}

EndTick(failed) ==
    /\ inTick
    /\ inTick' = FALSE
    /\ PulseTick(failed)
    /\ UNCHANGED <<now, tickNow>>

\* An error anywhere in the body of the tick ends it before pulseTick.
AbortTick ==
    /\ inTick
    /\ inTick' = FALSE
    /\ UNCHANGED <<now, tickNow, on, pulses, forgotten>>

\* engine.stop and engine.start: a new, empty table; the outputs are left alone.
CoilRestart ==
    /\ ~ inTick
    /\ pulses' = {}
    /\ forgotten' = {k \in Coils : on[k]}
    /\ UNCHANGED <<now, tickNow, inTick, on>>

Sound ==
    \/ Advance
    \/ StartTick
    \/ \E value \in DOMAIN CoilOf : Operate(value)
    \/ EndTick({})

Faulty ==
    \/ \E failed \in SUBSET Coils : failed # {} /\ EndTick(failed)
    \/ AbortTick
    \/ CoilRestart

CoilNext == Sound \/ Faulty

CoilSpec == CoilInit /\ [][CoilNext]_coilVars

\* Time passes, the event timer keeps ticking and faults may go on for ever, but
\* again and again a tick ends whose writes are all done.
CoilFairSpec ==
    /\ CoilSpec
    /\ WF_coilVars(Advance)
    /\ WF_coilVars(StartTick)
    /\ SF_coilVars(EndTick({}))
-----------------------------------------------------------------------------
\* A coil stays energised with nothing left to clear it only if the component
\* failed the very write that should have cleared it, or the daemon was
\* restarted in the middle of a pulse; a new pulse on the coil repairs both.
StuckOnlyByFault ==
    \A k \in Coils : on[k] => k \in CoilsOf(pulses) \cup forgotten

\* A coil is released only when some pulse on it has run its whole length, by
\* the time its command was given: no tick, however late, releases one early.
ReleasedWhenDue ==
    [][\A k \in Coils : on[k] /\ ~ on'[k] =>
         \E p \in pulses : p.coil = k /\ p.resetAt <= now]_coilVars

\* Every pulse ends, however the commands overlap and whatever ticks are lost
\* before their end, unless its clearing was lost to a fault.
PulsesEnd == \A k \in Coils : on[k] ~> ~ on[k] \/ k \in forgotten
=============================================================================
