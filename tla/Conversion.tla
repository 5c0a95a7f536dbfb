----------------------------- MODULE Conversion -----------------------------
(***************************************************************************)
(* Image conversion under the circuit breaker and the process throttle:    *)
(* attempt_guarded, as run by several callers that share one breaker and   *)
(* one throttle.                                                           *)
(*                                                                         *)
(*   breaker.acquire -> throttle.acquire -> attempt -> drop(slot)          *)
(*                                                  -> permit.resolve      *)
(*                                                                         *)
(* Both are a mutex around plain data, so each locked section is one step. *)
(* The throttle's condition variable is modelled by who is asleep, who has *)
(* been woken and who is about to notify: release unlocks before it calls  *)
(* notify_one.  Time is what is left of the cooldown.                      *)
(***************************************************************************)
EXTENDS Integers, FiniteSets

CONSTANTS Callers,    \* the threads that convert
          Limit,      \* ProcessThrottle.limit, at least 1
          Threshold,  \* CircuitBreaker.threshold, at least 1
          Cooldown    \* CircuitBreaker.cooldown, in ticks

ASSUME CallersAssumption == IsFiniteSet(Callers)
ASSUME LimitAssumption == Limit \in Nat \ {0}
ASSUME ThresholdAssumption == Threshold \in Nat \ {0}
ASSUME CooldownAssumption == Cooldown \in Nat

VARIABLES
    mode,      \* the variant of Inner
    failures,  \* Closed { failures }
    cool,      \* Open { until }: ticks until then
    probe,     \* HalfOpen { probe_in_flight }
    pc,        \* where each caller is
    canary,    \* the callers whose permit is the canary
    stale,     \* history: the callers whose permit predates the current mode
    faults,    \* history: converter faults reported in a row, since the last
               \* usable result or since a probe went out after a cooldown
    inUse      \* ProcessThrottle.in_use

breaker == <<mode, failures, cool, probe>>
history == <<stale, faults>>
vars == <<mode, failures, cool, probe, pc, canary, stale, faults, inUse>>

Waiting == {"enter", "asleep", "woken", "late"}
Holding == {"run"}
Points  == {"idle", "notify", "report", "release"} \cup Waiting \cup Holding
At(S) == {c \in Callers : pc[c] \in S}
\* The callers whose permit is not resolved yet.
Permitted == Callers \ At({"idle"})

Init ==
    /\ mode = "Closed" /\ failures = 0 /\ cool = 0 /\ probe = FALSE
    /\ pc = [c \in Callers |-> "idle"]
    /\ canary = {} /\ stale = {} /\ faults = 0
    /\ inUse = 0

Goto(c, point) == pc' = [pc EXCEPT ![c] = point]

\* The breaker leaves its mode: every other permit now describes the past.
MoveTo(m, c) == mode' = m /\ stale' = Permitted \ {c}
Open(c) == MoveTo("Open", c) /\ cool' = Cooldown /\ failures' = 0 /\ probe' = FALSE
Stay == UNCHANGED <<breaker, stale>>

-----------------------------------------------------------------------------
(***************************************************************************)
(* CircuitBreaker::acquire.  A refused caller keeps the original image and *)
(* nothing changes.                                                        *)
(***************************************************************************)
AcquireClosed(c) ==
    /\ pc[c] = "idle" /\ mode = "Closed"
    /\ Goto(c, "enter") /\ stale' = stale \ {c}
    /\ UNCHANGED <<breaker, canary, faults, inUse>>

\* Mutant: probe_in_flight is not looked at.
AcquireCanaryAgain(c) ==
    /\ pc[c] = "idle"
    /\ \/ /\ mode = "Open" /\ cool = 0
          /\ MoveTo("HalfOpen", c) /\ faults' = 0
       \/ /\ mode = "HalfOpen"
          /\ stale' = stale \ {c} /\ UNCHANGED <<mode, faults>>
    /\ probe' = TRUE /\ canary' = canary \cup {c}
    /\ Goto(c, "enter")
    /\ UNCHANGED <<failures, cool, inUse>>

\* The cooldown is over, or the last canary was released unjudged.
AcquireCanary(c) ==
    /\ pc[c] = "idle"
    /\ \/ /\ mode = "Open" /\ cool = 0
          /\ MoveTo("HalfOpen", c) /\ faults' = 0
       \/ /\ mode = "HalfOpen" /\ ~probe
          /\ stale' = stale \ {c} /\ UNCHANGED <<mode, faults>>
    /\ probe' = TRUE /\ canary' = canary \cup {c}
    /\ Goto(c, "enter")
    /\ UNCHANGED <<failures, cool, inUse>>

-----------------------------------------------------------------------------
(***************************************************************************)
(* ProcessThrottle::acquire: wait_timeout_while(held >= limit).            *)
(***************************************************************************)

TakeSlot(c) ==
    /\ pc[c] \in Waiting \ {"asleep"} /\ inUse < Limit
    /\ inUse' = inUse + 1
    /\ Goto(c, "run")
    /\ UNCHANGED <<breaker, canary, history>>

\* The predicate holds on entry or after a wake-up: wait (again).
Sleep(c) ==
    /\ pc[c] \in {"enter", "woken"} /\ inUse >= Limit
    /\ Goto(c, "asleep")
    /\ UNCHANGED <<breaker, canary, history, inUse>>

\* The wait budget is spent: the caller wakes and looks once more.
Timeout(c) ==
    /\ pc[c] \in {"asleep", "woken"}
    /\ Goto(c, "late")
    /\ UNCHANGED <<breaker, canary, history, inUse>>

\* Still saturated: no slot, the permit will be released.
GiveUp(c) ==
    /\ pc[c] = "late" /\ inUse >= Limit
    /\ Goto(c, "release")
    /\ UNCHANGED <<breaker, canary, history, inUse>>

\* The attempt is over; Slot's drop decrements under the lock.
DropSlot(c) ==
    /\ pc[c] = "run"
    /\ inUse' = inUse - 1
    /\ Goto(c, "notify")
    /\ UNCHANGED <<breaker, canary, history>>

\* Mutant: nobody is notified.
NotifyNobody(c) ==
    /\ pc[c] = "notify" /\ Goto(c, "report")
    /\ UNCHANGED <<breaker, canary, history, inUse>>

\* notify_one, after the unlock: one sleeper, if there is one, is woken.
Notify(c) ==
    /\ pc[c] = "notify"
    /\ \/ \E w \in At({"asleep"}) : pc' = [pc EXCEPT ![c] = "report", ![w] = "woken"]
       \/ At({"asleep"}) = {} /\ Goto(c, "report")
    /\ UNCHANGED <<breaker, canary, history, inUse>>

-----------------------------------------------------------------------------
(***************************************************************************)
(* CircuitBreaker::resolve.  outcome is "Success", "Failure" (a converter  *)
(* fault, an unusable result, a permit dropped unresolved) or "Neutral".   *)
(***************************************************************************)
\* Mutant: the failure that reaches the threshold does not trip yet.
ResolveRegularOffByOne(c, outcome) ==
    /\ mode = "Closed" /\ c \notin canary
    /\ \/ outcome = "Success" /\ failures' = 0 /\ UNCHANGED <<mode, cool, probe, stale>>
       \/ outcome = "Neutral" /\ Stay
       \/ outcome = "Failure" /\ failures >= Threshold /\ Open(c)
       \/ /\ outcome = "Failure" /\ failures < Threshold
          /\ failures' = failures + 1 /\ UNCHANGED <<mode, cool, probe, stale>>

\* A regular attempt of a closed breaker.
ResolveRegular(c, outcome) ==
    /\ mode = "Closed" /\ c \notin canary
    /\ \/ /\ outcome = "Success"
          /\ failures' = 0 /\ UNCHANGED <<mode, cool, probe, stale>>
       \/ outcome = "Neutral" /\ Stay
       \/ /\ outcome = "Failure" /\ failures + 1 >= Threshold
          /\ Open(c)
       \/ /\ outcome = "Failure" /\ failures + 1 < Threshold
          /\ failures' = failures + 1 /\ UNCHANGED <<mode, cool, probe, stale>>

\* Mutant: a canary that is given back unjudged keeps the probe slot.
ResolveCanaryKeepsProbe(c, outcome) ==
    /\ mode = "HalfOpen" /\ probe /\ c \in canary
    /\ \/ /\ outcome = "Success" /\ MoveTo("Closed", c)
          /\ failures' = 0 /\ probe' = FALSE /\ UNCHANGED cool
       \/ outcome = "Failure" /\ Open(c)
       \/ outcome = "Neutral" /\ Stay

\* The probe: it closes the breaker, reopens it, or frees the probe slot.
ResolveCanary(c, outcome) ==
    /\ mode = "HalfOpen" /\ probe /\ c \in canary
    /\ \/ /\ outcome = "Success"
          /\ MoveTo("Closed", c)
          /\ failures' = 0 /\ probe' = FALSE /\ UNCHANGED cool
       \/ outcome = "Failure" /\ Open(c)
       \/ /\ outcome = "Neutral"
          /\ probe' = FALSE /\ UNCHANGED <<mode, failures, cool, stale>>

\* The wildcard arm: the report is ignored.
ResolveIgnored(c) ==
    /\ ~(mode = "Closed" /\ c \notin canary)
    /\ ~(mode = "HalfOpen" /\ probe /\ c \in canary)
    /\ Stay

\* The permit is consumed and the caller is done.
Finish(c, outcome) ==
    /\ ResolveRegular(c, outcome) \/ ResolveCanary(c, outcome) \/ ResolveIgnored(c)
    /\ canary' = canary \ {c}
    /\ Goto(c, "idle")
    /\ UNCHANGED inUse

\* How an attempt ends: a usable or an unusable file, or a PipelineError.
Results == {"usable", "unusable", "Spawn", "Isolation", "Source", "Sink",
            "Child", "Failed", "Timeout"}

\* Mutant: a converter that cannot be started counts against the breaker.
IsConverterFaultOrAbsent(r) == r \in {"Child", "Failed", "Timeout", "Spawn"}

IsConverterFault(r) == r \in {"Child", "Failed", "Timeout"}
Outcome(r) ==
    CASE r = "usable" -> "Success"
      [] r = "unusable" \/ IsConverterFault(r) -> "Failure"
      [] OTHER -> "Neutral"

\* What the documentation of is_converter_fault and attempt_guarded calls the
\* converter's own fault: "crashes, non-zero exits, deadline overruns and
\* broken pipes", and a success that produced no usable file.
OwnFaults == {"Failed", "Timeout", "Child", "unusable"}
InARow(r) == IF r = "usable" THEN 0 ELSE IF r \in OwnFaults THEN faults + 1 ELSE faults

\* attempt_guarded after the slot is dropped: permit.resolve(outcome).
Report(c) ==
    /\ pc[c] = "report"
    /\ \E r \in Results : Finish(c, Outcome(r)) /\ faults' = InARow(r)

\* No slot in time: permit.release().
Release(c) == pc[c] = "release" /\ Finish(c, "Neutral") /\ UNCHANGED faults

Tick == /\ cool > 0 /\ cool' = cool - 1
        /\ UNCHANGED <<mode, failures, probe, pc, canary, history, inUse>>

Wait(c) == TakeSlot(c) \/ Sleep(c) \/ Timeout(c) \/ GiveUp(c)
Attempt(c) == DropSlot(c) \/ Notify(c) \/ Report(c) \/ Release(c)

Next == \/ \E c \in Callers : \/ AcquireClosed(c) \/ AcquireCanary(c)
                              \/ Wait(c) \/ Attempt(c)
        \/ Tick

Spec == Init /\ [][Next]_vars

(***************************************************************************)
(* A caller inside attempt_guarded keeps running: its wait is bounded by   *)
(* the budget (the timer fires for a sleeper that keeps being woken too),  *)
(* the attempt by the converter's deadline.  Nobody has to call.           *)
(***************************************************************************)
Fairness == \A c \in Callers : /\ WF_vars(Wait(c)) /\ WF_vars(Timeout(c))
                               /\ WF_vars(Attempt(c))
FairSpec == Spec /\ Fairness

-----------------------------------------------------------------------------
\* Every variable has its type: in particular a closed breaker has always
\* counted fewer failures than its threshold, and no slot is returned twice.
TypeOK ==
    /\ mode \in {"Closed", "Open", "HalfOpen"}
    /\ failures \in 0..Threshold - 1
    /\ cool \in 0..Cooldown
    /\ probe \in BOOLEAN
    /\ pc \in [Callers -> Points]
    /\ canary \subseteq Callers /\ stale \subseteq Callers
    /\ faults \in Nat
    /\ inUse \in Nat

\* The probe flag and the canary permits never part: while a probe is in
\* flight exactly one unresolved canary exists, otherwise none does, and a
\* canary lives only in HalfOpen (acquire_at, resolve).
CanaryExact ==
    /\ canary \subseteq Permitted
    /\ Cardinality(canary) = IF probe THEN 1 ELSE 0
    /\ probe => mode = "HalfOpen"

\* The throttle's count is the number of running conversions, never above the
\* limit, on every exit path (acquire, release, Slot's drop).
SlotsExact == inUse = Cardinality(At(Holding)) /\ inUse <= Limit

\* No wake-up is lost: while somebody sleeps, every free slot has a caller
\* that will take it or notify: one that was woken or is awake for it, or one
\* between its unlock and its notify_one.
NoLostWakeup ==
    At({"asleep"}) # {} => Limit - inUse <= Cardinality(At({"woken", "late", "notify"}))

\* The breaker is moved against the converter by the converter's own faults
\* alone: an absent tool, a host without a scratch directory, an error of the
\* caller's own streams and a caller that got no slot neither count nor trip,
\* and a closed circuit opens only after Threshold own faults in a row with no
\* usable result between them (is_converter_fault, attempt_guarded, resolve).
OwnFaultsOnly ==
    [][/\ failures' > failures => faults' = faults + 1
       /\ mode # "Open" /\ mode' = "Open" =>
             /\ faults' = faults + 1
             /\ mode = "Closed" => faults' >= Threshold]_vars

\* An outstanding probe always comes back: the breaker is never wedged in
\* HalfOpen by a canary that waits for a slot, fails or is abandoned.
ProbeResolves == probe ~> ~probe

\* A report from an attempt that began before the breaker left the mode it was
\* admitted in changes nothing while the circuit is open or probing: it neither
\* prolongs the cooldown nor decides for the canary (resolve's last arm). The
\* comment there speaks of any "late report from an attempt that started before
\* the state moved on" (breaker.rs:137), but a permit does not say which closed
\* period it belongs to: once the circuit has closed again, the late report counts
\* like one of the new period, and the formula leaves that case out.
LateReportIgnored ==
    [][\A c \in stale : /\ pc[c] \in {"report", "release"} /\ pc'[c] = "idle"
                        /\ mode # "Closed"
                        => UNCHANGED breaker]_vars

\* Probe flag and canaries, count and running conversions never part.
CountsExact == CanaryExact /\ SlotsExact

\* What moves the breaker: the converter's own faults, and not a report from
\* before the circuit opened or began to probe while it is open or probing.
OnlyFaultsCount == OwnFaultsOnly /\ LateReportIgnored
=============================================================================
