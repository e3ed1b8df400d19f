--------------------------- MODULE CircuitBreaker ---------------------------
(***************************************************************************)
(* The circuit breaker that guards each crypto endpoint (maki-crypto       *)
(* breaker.rs): CLOSED -> OPEN -> HALF_OPEN -> CLOSED or OPEN, with owned   *)
(* admissions that report a verdict, or none when their operation is       *)
(* dropped, possibly long after the circuit has moved on.                  *)
(*                                                                         *)
(* Each method holds the breaker's mutex, so it is one action.  open_until *)
(* is modelled by the time that is left until then.                        *)
(***************************************************************************)
EXTENDS Integers, FiniteSets

CONSTANTS
    Caller,            \* operations that run at the same time
    FailureThreshold,  \* failures in a row that open the circuit
    OpenInitial,       \* the first open interval, in ticks
    OpenMax,           \* the longest one
    HalfOpenMax,       \* half_open_max_requests
    SuccessThreshold,  \* successful probes that close it
    MaxFailures        \* bound on the failures that are reported

ASSUME BreakerAssumption ==
    /\ IsFiniteSet(Caller)
    /\ {FailureThreshold, OpenInitial, OpenMax, HalfOpenMax, SuccessThreshold} \subseteq Nat \ {0}
    /\ MaxFailures \in Nat

VARIABLES
    circuit,     \* "closed", "open" or "half"
    failures,    \* consecutive_failures
    wait,        \* open_until, as the ticks that are left
    duration,    \* open_duration
    generation,
    inflight,    \* half_open_inflight
    successes,   \* half_open_successes
    permit,      \* the generation of the permit of each caller
    healthy,     \* the endpoint fails no more
    reported,    \* the failures reported so far
    mine,        \* history: the callers admitted in this half-open window
    earned       \* history: how many of those have succeeded, up to the threshold

breakerVars == <<circuit, failures, wait, duration, generation, inflight, successes, permit,
          healthy, reported, mine, earned>>

NoPermit == -1

Least(a, b) == IF a < b THEN a ELSE b

BreakerInit ==
    /\ circuit = "closed"
    /\ failures = 0
    /\ wait = 0
    /\ duration = OpenInitial
    /\ generation = 0
    /\ inflight = 0
    /\ successes = 0
    /\ permit = [c \in Caller |-> NoPermit]
    /\ healthy = FALSE
    /\ reported = 0
    /\ mine = {}
    /\ earned = 0

\* admit while closed.
AcquireClosed(c) ==
    /\ permit[c] = NoPermit
    /\ circuit = "closed"
    /\ permit' = [permit EXCEPT ![c] = generation]
    /\ UNCHANGED <<circuit, failures, wait, duration, generation, inflight, successes,
                   healthy, reported, mine, earned>>

\* Mutant: the new window takes over the probes of the last one.
AcquireOpenAdding(c) ==
    /\ permit[c] = NoPermit
    /\ circuit = "open" /\ wait = 0
    /\ circuit' = "half"
    /\ generation' = generation + 1
    /\ inflight' = inflight + 1
    /\ successes' = 0
    /\ permit' = [permit EXCEPT ![c] = generation']
    /\ mine' = {c}
    /\ earned' = 0
    /\ UNCHANGED <<failures, wait, duration, healthy, reported>>

\* admit once the open interval is over: the first probe of a new window.
AcquireOpen(c) ==
    /\ permit[c] = NoPermit
    /\ circuit = "open" /\ wait = 0
    /\ circuit' = "half"
    /\ generation' = generation + 1
    /\ inflight' = 1
    /\ successes' = 0
    /\ permit' = [permit EXCEPT ![c] = generation']
    /\ mine' = {c}
    /\ earned' = 0
    /\ UNCHANGED <<failures, wait, duration, healthy, reported>>

\* Mutant: every probe starts the count of successes again.
AcquireHalfOpenRestarting(c) ==
    /\ permit[c] = NoPermit
    /\ circuit = "half" /\ inflight < HalfOpenMax
    /\ inflight' = inflight + 1
    /\ successes' = 0
    /\ permit' = [permit EXCEPT ![c] = generation]
    /\ mine' = mine \cup {c}
    /\ UNCHANGED <<circuit, failures, wait, duration, generation, healthy, reported, earned>>

\* admit another probe of the window.
AcquireHalfOpen(c) ==
    /\ permit[c] = NoPermit
    /\ circuit = "half" /\ inflight < HalfOpenMax
    /\ inflight' = inflight + 1
    /\ permit' = [permit EXCEPT ![c] = generation]
    /\ mine' = mine \cup {c}
    /\ UNCHANGED <<circuit, failures, wait, duration, generation, successes,
                   healthy, reported, earned>>

Acquire(c) == AcquireClosed(c) \/ AcquireOpen(c) \/ AcquireHalfOpen(c)

\* finish looks at the circuit only for a permit of its present generation.
Current(c) == permit[c] = generation

\* A completed or dropped probe returns its slot.
ProbeReturned == IF circuit = "half" /\ inflight > 0 THEN inflight - 1 ELSE inflight

Released(c) ==
    /\ permit' = [permit EXCEPT ![c] = NoPermit]
    /\ mine' = mine \ {c}

\* BreakerPermit::on_success
Success(c) ==
    /\ permit[c] # NoPermit
    /\ Released(c)
    /\ earned' = IF c \in mine THEN Least(earned + 1, SuccessThreshold) ELSE earned
    /\ IF Current(c)
       THEN LET closes == circuit = "half" /\ successes + 1 >= SuccessThreshold
            IN  /\ inflight' = ProbeReturned
                /\ successes' = IF circuit = "half" THEN successes + 1 ELSE successes
                /\ circuit' = IF closes THEN "closed" ELSE circuit
                /\ generation' = IF closes THEN generation + 1 ELSE generation
                /\ failures' = IF closes \/ circuit = "closed" THEN 0 ELSE failures
                /\ duration' = IF closes THEN OpenInitial ELSE duration
       ELSE UNCHANGED <<circuit, failures, duration, generation, inflight, successes>>
    /\ UNCHANGED <<wait, healthy, reported>>

\* BreakerPermit::on_failure, and on_endpoint_fatal, which opens at once.
Failure(c, fatal) ==
    /\ ~healthy
    /\ reported < MaxFailures
    /\ reported' = reported + 1
    /\ permit[c] # NoPermit
    /\ Released(c)
    /\ IF Current(c)
       THEN LET opens == \/ circuit = "half"
                         \/ circuit = "closed" /\ (fatal \/ failures + 1 >= FailureThreshold)
            IN  /\ failures' = IF circuit = "closed" THEN failures + 1 ELSE failures
                /\ duration' = IF circuit = "half" THEN Least(2 * duration, OpenMax) ELSE duration
                /\ circuit' = IF opens THEN "open" ELSE circuit
                /\ generation' = IF opens THEN generation + 1 ELSE generation
                /\ wait' = IF opens THEN duration' ELSE wait
                /\ inflight' = IF circuit = "half" THEN 0 ELSE inflight
       ELSE UNCHANGED <<circuit, failures, wait, duration, generation, inflight>>
    /\ UNCHANGED <<successes, healthy, earned>>

\* The operation is dropped without a verdict.
Dropped(c) ==
    /\ permit[c] # NoPermit
    /\ Released(c)
    /\ inflight' = IF Current(c) THEN ProbeReturned ELSE inflight
    /\ UNCHANGED <<circuit, failures, wait, duration, generation, successes, healthy, reported, earned>>

Tick ==
    /\ wait > 0
    /\ wait' = wait - 1
    /\ UNCHANGED <<circuit, failures, duration, generation, inflight, successes, permit,
                   healthy, reported, mine, earned>>

\* The endpoint is repaired.
Repaired ==
    /\ ~healthy
    /\ healthy' = TRUE
    /\ UNCHANGED <<circuit, failures, wait, duration, generation, inflight, successes, permit,
                   reported, mine, earned>>

BreakerNext ==
    \/ \E c \in Caller : Acquire(c) \/ Success(c) \/ Dropped(c)
    \/ \E c \in Caller, fatal \in BOOLEAN : Failure(c, fatal)
    \/ Tick \/ Repaired

BreakerSpec == BreakerInit /\ [][BreakerNext]_breakerVars

\* Fairness: callers keep coming, the clock advances, and of the operations
\* that a healthy endpoint serves not all are cancelled.
BreakerFairSpec ==
    /\ BreakerSpec
    /\ WF_breakerVars(Tick)
    /\ WF_breakerVars(\E c \in Caller : Acquire(c))
    /\ \A c \in Caller : SF_breakerVars(Success(c))

-----------------------------------------------------------------------------
(* Properties. *)

BreakerTypeOK ==
    /\ circuit \in {"closed", "open", "half"}
    /\ failures \in Nat /\ wait \in Nat /\ duration \in Nat /\ generation \in Nat
    /\ inflight \in Nat /\ successes \in Nat /\ earned \in Nat
    /\ permit \in [Caller -> Nat \cup {NoPermit}]
    /\ mine \subseteq Caller
    /\ healthy \in BOOLEAN
    /\ reported \in 0..MaxFailures

\* The callers that hold a probe of the present window.
Probes == {c \in Caller : permit[c] = generation}

\* While half-open, the slots in use are exactly the live probes of this
\* window, and never more than half_open_max_requests: no late verdict of an
\* older window and no dropped operation loses or frees a slot (finish).
ProbesCounted ==
    circuit = "half" => inflight = Cardinality(Probes) /\ inflight <= HalfOpenMax

\* The circuit closes only on success_threshold successes of probes that were
\* admitted in this window: late answers from before never close it (finish).
ClosedEarned ==
    [][circuit = "half" /\ circuit' = "closed" => earned' >= SuccessThreshold]_breakerVars

\* Only a probe of this window opens the circuit again, and doubles the open
\* interval: the late failure of an operation admitted before the window, or of
\* a second probe of a window that has failed already, has no say (finish).
ReopenedByProbe ==
    [][circuit = "half" /\ circuit' = "open" => \E c \in mine : permit'[c] = NoPermit]_breakerVars

\* Once the endpoint works again the circuit closes for good, whatever
\* probes and verdicts were in flight (C-07: never half-open forever).
Recovers == healthy ~> [](circuit = "closed")
=============================================================================
