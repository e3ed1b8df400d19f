--------------------------- MODULE EndpointState ---------------------------
(***************************************************************************)
(* One endpoint of the endpoint set as the dispatcher sees it (maki-crypto *)
(* endpoint.rs `Endpoint'): its circuit (breaker.rs), its retry budget      *)
(* (retry.rs), its permits (flow.rs) and whether it may serve.  Operators   *)
(* on a record.                                                             *)
(*                                                                          *)
(* The circuit is that of CircuitBreaker with time reduced to what it does: *)
(* `cooled' says that the open interval is over, and a permit is remembered *)
(* by whether its generation is still the present one.  The budget counts   *)
(* requests: RequestsPerRetry of them earn one retry (1 / retry_ratio).     *)
(***************************************************************************)
EXTENDS Integers

CONSTANTS
    FailureThreshold,  \* failures in a row that open the circuit
    HalfOpenMax,       \* half_open_max_requests
    SuccessThreshold,  \* successful probes that close it
    RequestsPerRetry,
    Burst              \* retries a budget may hold

ASSUME EndpointAssumption ==
    {FailureThreshold, HalfOpenMax, SuccessThreshold, RequestsPerRetry, Burst} \subseteq Nat \ {0}

Endpoint0(validated) ==
    [validated |-> validated, rejected |-> FALSE, validating |-> FALSE,
     circuit |-> "closed", fails |-> 0, cooled |-> FALSE, probes |-> 0, good |-> 0,
     credit |-> 0,          \* requests towards the next retries
     local |-> 0,           \* permits taken
     inflight |-> 0]

\* next_admission_time and would_allow.
Cooling(b) == b.circuit = "open" /\ ~b.cooled
WouldAllow(b) ==
    CASE b.circuit = "closed" -> TRUE
      [] b.circuit = "open"   -> b.cooled
      [] b.circuit = "half"   -> b.probes < HalfOpenMax

\* acquire, of an endpoint that WouldAllow.
Acquire(b) ==
    CASE b.circuit = "closed" -> b
      [] b.circuit = "open"   -> [b EXCEPT !.circuit = "half", !.probes = 1, !.good = 0]
      [] b.circuit = "half"   -> [b EXCEPT !.probes = @ + 1]

Opened(b) == [b EXCEPT !.circuit = "open", !.cooled = FALSE]

\* Mutant: a probe that is dropped keeps its slot.
ProbeBackJudged(b, verdict) == IF b.circuit = "half" /\ verdict # "none" THEN b.probes - 1 ELSE b.probes

\* A completed or dropped probe returns its slot.
ProbeBack(b, verdict) == IF b.circuit = "half" THEN b.probes - 1 ELSE b.probes

\* finish, for a permit of the present generation.
Finish(b, verdict) ==
    LET back == [b EXCEPT !.probes = ProbeBack(b, verdict)]
    IN  CASE verdict = "success" /\ b.circuit = "closed" -> [b EXCEPT !.fails = 0]
          [] verdict = "success" /\ b.circuit = "half" ->
                IF b.good + 1 >= SuccessThreshold
                THEN [back EXCEPT !.circuit = "closed", !.fails = 0, !.good = 0]
                ELSE [back EXCEPT !.good = @ + 1]
          [] verdict \in {"failure", "fatal"} /\ b.circuit = "closed" ->
                IF verdict = "fatal" \/ b.fails + 1 >= FailureThreshold
                THEN Opened([b EXCEPT !.fails = @ + 1])
                ELSE [b EXCEPT !.fails = @ + 1]
          [] verdict \in {"failure", "fatal"} /\ b.circuit = "half" -> Opened([b EXCEPT !.probes = 0])
          [] OTHER -> back

\* RetryBudget::note_request
NoteRequest(b) ==
    [b EXCEPT !.credit = IF @ < Burst * RequestsPerRetry THEN @ + 1 ELSE @]

\* RetryBudget::allow_retry: a retry is earned, or comes at the minimum rate of
\* probes (whether their interval is over is time's choice).
Earned(b) == b.credit >= RequestsPerRetry
ChargeRetry(b) == IF Earned(b) THEN [b EXCEPT !.credit = @ - RequestsPerRetry] ELSE b
=============================================================================
