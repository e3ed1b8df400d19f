------------------------- MODULE EndpointSetProofs -------------------------
(***************************************************************************)
(* The endpoint set's safety, for every value of its constants: how many *)
(* operations, endpoints, permits, probes and attempts there are, whatever *)
(* keys the endpoints have and whatever calls fail. Requests go where they *)
(* may (SendsAllowed), the endpoints that serve are interchangeable *)
(* (ServingUniform), and every permit, in-flight count and probe slot *)
(* belongs to a live task (PermitsKept). *)
(* *)
(* None of them is inductive. That a request never returns to an endpoint *)
(* which broke its contract rests on what each place of admit_endpoint has *)
(* already excluded (Sending); that those who serve have one key, on what *)
(* each call of a validation has proved of its candidate (Vetted) and on *)
(* what dispatch_endpoint_set compared (Probing); the counts, on where a *)
(* task may hold what (Places). IInv conjoins these. Core is kept first; *)
(* the numbers follow from it, from one lemma on what a step does at the *)
(* endpoint it is at (Moved, ValMoved) and from one on counting. *)
(***************************************************************************)
EXTENDS EndpointSet, FiniteSetTheorems, WellFoundedInduction, TLAPS

(* The states of a circuit, and the most a retry budget can hold. *)
Circuit == {"closed", "open", "half"}
CreditMax == Burst * RequestsPerRetry

(* The types of an endpoint, of an operation, of a validation and of the *)
(* construction. Counters are integers here: that none goes below zero is *)
(* a result, not a type. *)
EpRec == [validated : BOOLEAN, rejected : BOOLEAN, validating : BOOLEAN, circuit : Circuit, fails : Nat,
          cooled : BOOLEAN, probes : Int, good : Nat, credit : 0..CreditMax, local : Int, inflight : Int]

(* Where an operation has an endpoint. *)
Held == {"global", "recheck", "admitted", "rpc"}
OpAt == {"idle", "pass", "gate", "look", "try", "await", "backoff", "done"} \cup Held
OpRec == [at : OpAt, chunk : Nat, pass : Nat, tried : SUBSET Endpoint, failed : SUBSET Endpoint,
          excluded : SUBSET Endpoint, todo : Seq(Endpoint), ep : Endpoint \cup {NoEndpoint},
          woken : BOOLEAN, timer : BOOLEAN, current : BOOLEAN,
          result : {"none", "refused", "exhausted", "contract", "unsafe", "ok", "failed", "rejected", "deadline"}]

(* Where a validation is on its way, and where it has its verdict. *)
OnWay == {"gate", "look", "await", "global", "rpc"}
Ended == {"valid", "rejected", "deferred"}
TaskRec == [at : {"none"} \cup OnWay \cup Ended, step : 0..Steps,
            ref : Endpoint \cup {NoEndpoint}, woken : BOOLEAN]

SetupRec == [at : {"probe", "cross", "serve", "refused"}, next : Nat, tries : Nat, reachable : Seq(Endpoint),
             down : SUBSET Endpoint, canary : Key \cup {"none"}]

(* Who broke the contract, or the mark that the reference refused. *)
Culprit == Endpoint \cup {Refusal}

(* The type invariant. *)
Types ==
  /\ given \in Setting
  /\ setup \in SetupRec
  /\ eps \in [Endpoint -> EpRec]
  /\ global \in Int
  /\ op \in [Op -> OpRec]
  /\ val \in [Endpoint -> TaskRec]
  /\ faults \in 0..MaxFaults
  /\ sends \in [Op -> Seq(Endpoint)]
  /\ broke \in [Op \cup Endpoint -> SUBSET Culprit]

(* Before the set is built nothing of it moves. *)
Fresh ==
  setup.at # "serve" =>
    /\ \A e \in Endpoint : eps[e] = Endpoint0(FALSE) /\ val[e].at = "none"
    /\ \A o \in Op : op[o].at = "idle"

(* Where a task holds what: an operation has an endpoint exactly between *)
(* the first permit and its release, a validation is under way exactly *)
(* while its flag is set, and its reference serves. *)
Places ==
  /\ \A o \in Op : op[o].ep # NoEndpoint <=> op[o].at \in Held
  /\ \A o \in Op : op[o].at = "idle" => sends[o] = <<>> /\ broke[o] = {}
  /\ \A e \in Endpoint : eps[e].validating <=> val[e].at # "none"
  /\ \A e \in Endpoint : val[e].at # "none" =>
       val[e].step \in 1..Steps /\ val[e].ref \in Endpoint /\ eps[val[e].ref].validated

(* What an operation at each place of admit_endpoint has established: it *)
(* was sent to validated endpoints only, more than once only if that is *)
(* safe; an endpoint that broke its contract is failed, what is failed is *)
(* excluded from the pass on, and neither the candidates nor the endpoint *)
(* admitted to is excluded. *)
SendingOf(r, s, k) ==
  /\ \A i \in 1..Len(s) : eps[s[i]].validated
  /\ ResendSafe \/ Len(s) <= 1
  /\ r.at # "done" => k \subseteq r.failed
  /\ r.at \in {"gate", "look", "try", "await"} \cup Held => r.failed \subseteq r.excluded
  /\ r.at \in {"try", "global", "recheck"} =>
       \A i \in 1..Len(r.todo) : eps[r.todo[i]].validated /\ r.todo[i] \notin r.excluded
  /\ r.at \in Held => eps[r.ep].validated /\ r.ep \notin r.failed
  /\ r.at \in {"global", "recheck", "admitted"} => r.ep \notin r.excluded
  /\ r.at = "rpc" => r.ep \in r.excluded
Sending == \A o \in Op : SendingOf(op[o], sends[o], broke[o])

(* What a probe that succeeded has shown of an endpoint, if there are *)
(* several; a set of one endpoint is not probed. *)
Sound(e, canary) == Peers > 1 => SelfTestPasses(e) /\ canary # "none" /\ Decrypts(e, canary)
Reached(s, e) == \E i \in 1..Len(s.reachable) : s.reachable[i] = e

(* dispatch_endpoint_set: every endpoint behind the cursor was reached or *)
(* is down, those reached are sound, and the comparison has gone over *)
(* those before its own cursor. *)
ProbingOf(s) ==
  /\ s.at = "probe" => s.next \in Endpoint
  /\ s.at = "probe" => \A e \in 1..(s.next - 1) : e \in s.down \/ Reached(s, e)
  /\ s.at = "cross" => \A e \in Endpoint : e \in s.down \/ Reached(s, e)
  /\ s.at \in {"probe", "cross"} => \A i \in 1..Len(s.reachable) : Sound(s.reachable[i], s.canary)
  /\ s.at = "cross" =>
       /\ s.next >= 2 /\ Len(s.reachable) >= 1
       /\ \A i \in 1..Len(s.reachable) : i < s.next =>
            s.reachable[i] \in s.down \/ given.key[s.reachable[i]] = given.key[s.reachable[1]]
Probing == ProbingOf(setup)

(* What justifies that endpoint e is rejected for good. *)
Condemned(e) ==
  \/ {e, Refusal} \cap broke[e] # {} \/ given.key[e] = "plain" \/ ~Decrypts(e, setup.canary)
  \/ \E d \in Endpoint : eps[d].validated /\ given.key[d] # given.key[e]

(* What the calls of a validation so far have shown of the candidate, and *)
(* what its verdict rests on. *)
Vetted ==
  \A e \in Endpoint : val[e].at # "none" =>
    /\ val[e].step > 1 => SelfTestPasses(e)
    /\ val[e].step > 2 => Decrypts(e, setup.canary)
    /\ val[e].step > 4 => Decrypts(e, given.key[val[e].ref])
    /\ val[e].at = "valid" => val[e].step = Steps /\ Decrypts(val[e].ref, given.key[e])
    /\ val[e].at = "rejected" => Condemned(e)

(* The tasks that hold a permit of endpoint e, have a call in flight at *)
(* it, hold one of its present probe slots, or hold a global permit. *)
HoldO(e) == {o \in Op : op[o].ep = e}
HoldV(e) == {d \in Endpoint : val[d].at \in {"global", "rpc"} /\ Target(d) = e}
RpcO(e) == {o \in Op : op[o].at = "rpc" /\ op[o].ep = e}
RpcV(e) == {d \in Endpoint : val[d].at = "rpc" /\ Target(d) = e}
ProbeO(e) == {o \in Op : op[o].at = "rpc" /\ op[o].ep = e /\ op[o].current}
GlobO == {o \in Op : op[o].at \in {"recheck", "admitted", "rpc"}}
GlobV == {d \in Endpoint : val[d].at = "rpc"}

(* The counters are their numbers. *)
Counts ==
  /\ global = Cardinality(GlobO) + Cardinality(GlobV)
  /\ \A e \in Endpoint :
       /\ eps[e].local = Cardinality(HoldO(e)) + Cardinality(HoldV(e))
       /\ eps[e].inflight = Cardinality(RpcO(e)) + Cardinality(RpcV(e))
       /\ eps[e].circuit = "half" => eps[e].probes = Cardinality(ProbeO(e))

(* And they are within their limits. *)
Limits ==
  /\ global <= given.globalMax
  /\ \A e \in Endpoint : eps[e].local <= given.localMax /\ eps[e].probes \in 0..HalfOpenMax

(* The inductive invariant. *)
IInv == Types /\ Fresh /\ Places /\ Sending /\ Probing /\ Vetted /\ ServingUniform /\ Counts /\ Limits

(* What finish may be told (breaker.rs). *)
Verdicts == {"success", "failure", "fatal", "none"}

(* What a call or a verdict never changes of an endpoint *)
Fixed(b, c) == /\ c.validated = b.validated /\ c.rejected = b.rejected /\ c.validating = b.validating
               /\ c.local = b.local /\ c.inflight = b.inflight

(* What the assumptions say of the constants. *)
LEMMA Constants ==
  /\ Peers \in Nat /\ Peers >= 1
  /\ Endpoint \subseteq Nat /\ NoEndpoint \notin Endpoint /\ IsFiniteSet(Endpoint) /\ 1 \in Endpoint
  /\ \A e : e \in Endpoint <=> e \in Nat /\ 1 <= e /\ e <= Peers
  /\ IsFiniteSet(Op) /\ \A o \in Op : o \notin Endpoint
  /\ HalfOpenMax \in Nat /\ HalfOpenMax >= 1 /\ SuccessThreshold \in Nat /\ FailureThreshold \in Nat
  /\ RequestsPerRetry \in Nat /\ CreditMax \in Nat /\ MaxFaults \in Nat
<1>1. Peers \in Nat /\ Peers >= 1
  BY SetAssumption
<1>2. IsFiniteSet(Endpoint)
  BY <1>1, FS_Interval DEF Endpoint
<1>3. CreditMax \in Nat
  BY EndpointAssumption DEF CreditMax
<1> QED
  BY <1>1, <1>2, <1>3, SetAssumption, EndpointAssumption DEF Endpoint, NoEndpoint

(* The fields of an endpoint. *)
LEMMA EpFields ==
  ASSUME NEW b \in EpRec
  PROVE  /\ b.validated \in BOOLEAN /\ b.rejected \in BOOLEAN /\ b.validating \in BOOLEAN
         /\ b.circuit \in Circuit /\ b.cooled \in BOOLEAN /\ b.fails \in Nat /\ b.good \in Nat
         /\ b.probes \in Int /\ b.local \in Int /\ b.inflight \in Int /\ b.credit \in 0..CreditMax
  BY DEF EpRec

(* Acquiring, and the retry budget, yield an endpoint and change nothing *)
(* but the circuit and the budget. *)
LEMMA Acquires ==
  ASSUME NEW b \in EpRec
  PROVE  /\ WouldAllow(b) => Acquire(b) \in EpRec /\ Fixed(b, Acquire(b))
         /\ NoteRequest(b) \in EpRec /\ Fixed(b, NoteRequest(b))
         /\ NoteRequest(b).circuit = b.circuit /\ NoteRequest(b).probes = b.probes
         /\ ChargeRetry(b) \in EpRec /\ Fixed(b, ChargeRetry(b))
         /\ ChargeRetry(b).circuit = b.circuit /\ ChargeRetry(b).probes = b.probes
         /\ Endpoint0(TRUE) \in EpRec /\ Endpoint0(FALSE) \in EpRec
<1>1. WouldAllow(b) => Acquire(b) \in EpRec /\ Fixed(b, Acquire(b))
  <2>1. CASE b.circuit = "closed"
    BY <2>1 DEF Acquire, Fixed
  <2>2. CASE b.circuit = "open"
    <3>1. Acquire(b) = [b EXCEPT !.circuit = "half", !.probes = 1, !.good = 0]
      BY <2>2 DEF Acquire
    <3>2. LET c == [b EXCEPT !.circuit = "half", !.probes = 1, !.good = 0]
          IN  c \in EpRec /\ Fixed(b, c)
      <4> DEFINE c == [b EXCEPT !.circuit = "half", !.probes = 1, !.good = 0]
      <4>1. c \in EpRec
        <5>1. 1 \in Int /\ "half" \in Circuit /\ 0 \in Nat
          BY DEF Circuit
        <5> QED
          BY <5>1 DEF EpRec
      <4>2. Fixed(b, c)
        BY DEF EpRec, Fixed
      <4> QED
        BY <4>1, <4>2
    <3> QED
      BY <3>1, <3>2
  <2>3. CASE b.circuit = "half"
    BY <2>3 DEF Acquire, Fixed, EpRec, Circuit
  <2> QED
    BY <2>1, <2>2, <2>3 DEF EpRec, Circuit
<1>2. /\ NoteRequest(b) \in EpRec /\ Fixed(b, NoteRequest(b))
      /\ NoteRequest(b).circuit = b.circuit /\ NoteRequest(b).probes = b.probes
  BY Constants DEF CreditMax, NoteRequest, Fixed, EpRec
<1>3. /\ ChargeRetry(b) \in EpRec /\ Fixed(b, ChargeRetry(b))
      /\ ChargeRetry(b).circuit = b.circuit /\ ChargeRetry(b).probes = b.probes
  BY Constants DEF ChargeRetry, Earned, Fixed, EpRec
<1>4. Endpoint0(TRUE) \in EpRec /\ Endpoint0(FALSE) \in EpRec
  BY Constants DEF Endpoint0, EpRec, Circuit
<1> QED
  BY <1>1, <1>2, <1>3, <1>4

(* What a verdict does to the circuit: outside half-open it never makes it *)
(* half-open and returns no slot; a probe's verdict returns exactly its *)
(* slot, or opens the circuit with no slots taken; and a probe dropped *)
(* without a verdict leaves it half-open. *)
LEMMA Finishes ==
  ASSUME NEW b \in EpRec, NEW v \in Verdicts
  PROVE  /\ Finish(b, v) \in EpRec /\ Fixed(b, Finish(b, v))
         /\ b.circuit # "half" => Finish(b, v).circuit # "half" /\ Finish(b, v).probes = b.probes
         /\ b.circuit = "half" => \/ Finish(b, v).circuit = "half" /\ Finish(b, v).probes = b.probes - 1
                                  \/ Finish(b, v).circuit = "closed" /\ Finish(b, v).probes = b.probes - 1
                                  \/ Finish(b, v).circuit = "open" /\ Finish(b, v).probes = 0
         /\ b.circuit = "half" /\ v = "none" => Finish(b, v).circuit = "half"
<1>0. SuccessThreshold \in Nat /\ FailureThreshold \in Nat
  BY Constants
<1>1. CASE b.circuit = "closed" /\ v = "success"
  BY <1>1 DEF Finish, Fixed, EpRec, Circuit
<1>2. CASE b.circuit = "closed" /\ v \in {"failure", "fatal"}
  <2> DEFINE c == [b EXCEPT !.fails = @ + 1]
  <2>1. c \in EpRec /\ Fixed(b, c) /\ c.circuit = b.circuit /\ c.probes = b.probes
    BY DEF EpRec, Fixed
  <2>2. Finish(b, v) \in {c, Opened(c)}
    BY <1>2 DEF Finish
  <2> HIDE DEF c
  <2>3. Opened(c) \in EpRec /\ Fixed(c, Opened(c)) /\ Opened(c).circuit = "open" /\ Opened(c).probes = c.probes
    BY <2>1 DEF Opened, EpRec, Fixed, Circuit
  <2> QED
    BY <1>2, <2>1, <2>2, <2>3 DEF Fixed
<1>3. CASE b.circuit = "half" /\ v = "success"
  <2> DEFINE c == [b EXCEPT !.probes = b.probes - 1]
  <2>1. c \in EpRec /\ Fixed(b, c) /\ c.circuit = "half" /\ c.probes = b.probes - 1
    BY <1>3 DEF EpRec, Fixed
  <2>2. Finish(b, v) \in {[c EXCEPT !.circuit = "closed", !.fails = 0, !.good = 0], [c EXCEPT !.good = @ + 1]}
    BY <1>3 DEF Finish, ProbeBack
  <2> HIDE DEF c
  <2>3. LET d == [c EXCEPT !.circuit = "closed", !.fails = 0, !.good = 0]
        IN  d \in EpRec /\ Fixed(c, d) /\ d.circuit = "closed" /\ d.probes = c.probes
    BY <2>1 DEF EpRec, Fixed, Circuit
  <2>4. LET d == [c EXCEPT !.good = @ + 1]
        IN  d \in EpRec /\ Fixed(c, d) /\ d.circuit = "half" /\ d.probes = c.probes
    BY <2>1 DEF EpRec, Fixed, Circuit
  <2> QED
    BY <1>3, <2>1, <2>2, <2>3, <2>4 DEF Fixed
<1>4. CASE b.circuit = "half" /\ v \in {"failure", "fatal"}
  <2> DEFINE c == [b EXCEPT !.probes = 0]
  <2>1. c \in EpRec /\ Fixed(b, c) /\ c.probes = 0
    BY DEF EpRec, Fixed
  <2>2. Finish(b, v) = Opened(c)
    BY <1>4 DEF Finish
  <2> HIDE DEF c
  <2>3. Opened(c) \in EpRec /\ Fixed(c, Opened(c)) /\ Opened(c).circuit = "open" /\ Opened(c).probes = c.probes
    BY <2>1 DEF Opened, EpRec, Fixed, Circuit
  <2> QED
    BY <1>4, <2>1, <2>2, <2>3 DEF Fixed
<1>5. CASE b.circuit = "open" \/ v = "none"
  BY <1>5 DEF Finish, Fixed, EpRec, Circuit, ProbeBack
<1> QED
  BY <1>1, <1>2, <1>3, <1>4, <1>5 DEF EpRec, Circuit, Verdicts

(* The in-flight guard counts down by one and changes nothing else. *)
LEMMA Returns ==
  ASSUME NEW b \in EpRec
  PROVE  /\ Returned(b) \in EpRec /\ Returned(b).inflight = b.inflight - 1 /\ Returned(b).local = b.local
         /\ Returned(b).circuit = b.circuit /\ Returned(b).probes = b.probes
         /\ Returned(b).validated = b.validated /\ Returned(b).rejected = b.rejected
         /\ Returned(b).validating = b.validating
  BY DEF Returned, EpRec

(* The fields of an operation that only its own steps change *)
Agree(r, s) == /\ s.at = r.at /\ s.chunk = r.chunk /\ s.pass = r.pass /\ s.tried = r.tried /\ s.failed = r.failed
               /\ s.excluded = r.excluded /\ s.todo = r.todo /\ s.ep = r.ep

(* The fields of an operation. *)
LEMMA OpFields ==
  ASSUME NEW r \in OpRec
  PROVE  /\ r.at \in OpAt /\ r.chunk \in Nat /\ r.pass \in Nat /\ r.tried \in SUBSET Endpoint
         /\ r.failed \in SUBSET Endpoint /\ r.excluded \in SUBSET Endpoint /\ r.todo \in Seq(Endpoint)
         /\ r.ep \in Endpoint \cup {NoEndpoint} /\ r.current \in BOOLEAN
  BY DEF OpRec

(* Being woken and losing the generation touch nothing else of an *)
(* operation. *)
LEMMA OpWoken ==
  ASSUME NEW r \in OpRec
  PROVE  /\ [r EXCEPT !.woken = TRUE] \in OpRec /\ Agree(r, [r EXCEPT !.woken = TRUE])
         /\ [r EXCEPT !.woken = TRUE].current = r.current
         /\ [r EXCEPT !.current = FALSE] \in OpRec /\ Agree(r, [r EXCEPT !.current = FALSE])
         /\ ~[r EXCEPT !.current = FALSE].current
  BY DEF OpRec, Agree

(* notify_waiters changes no operation but for its notification. *)
LEMMA WakeOpsKeeps ==
  ASSUME NEW ops \in [Op -> OpRec]
  PROVE  /\ WakeOps(ops) \in [Op -> OpRec]
         /\ \A p \in Op : Agree(ops[p], WakeOps(ops)[p]) /\ WakeOps(ops)[p].current = ops[p].current
<1>1. ASSUME NEW p \in Op
      PROVE  /\ WakeOps(ops)[p] \in OpRec /\ Agree(ops[p], WakeOps(ops)[p])
             /\ WakeOps(ops)[p].current = ops[p].current
  BY OpWoken DEF WakeOps, Agree
<1>2. WakeOps(ops) = [p \in Op |-> WakeOps(ops)[p]]
  BY DEF WakeOps
<1> QED
  BY <1>1, <1>2

(* A change of the circuit makes the permits at this endpoint stale, and *)
(* does nothing else to an operation. *)
LEMMA StaleKeeps ==
  ASSUME NEW ops \in [Op -> OpRec], NEW e, NEW b
  PROVE  /\ Stale(ops, e, b) \in [Op -> OpRec]
         /\ \A p \in Op : /\ Agree(ops[p], Stale(ops, e, b)[p])
                          /\ Stale(ops, e, b)[p].current =
                               (ops[p].current /\ ~(b.circuit # eps[e].circuit /\ ops[p].ep = e))
<1>1. CASE b.circuit = eps[e].circuit
  BY <1>1, OpFields DEF Stale, Agree
<1>2. CASE b.circuit # eps[e].circuit
  <2>1. Stale(ops, e, b) = [p \in Op |-> IF ops[p].ep = e THEN [ops[p] EXCEPT !.current = FALSE] ELSE ops[p]]
    BY <1>2 DEF Stale
  <2>2. ASSUME NEW p \in Op
        PROVE  /\ Stale(ops, e, b)[p] \in OpRec /\ Agree(ops[p], Stale(ops, e, b)[p])
               /\ Stale(ops, e, b)[p].current = (ops[p].current /\ ~(ops[p].ep = e))
    <3>1. ops[p] \in OpRec /\ Agree(ops[p], ops[p]) /\ ops[p].current \in BOOLEAN
      BY OpFields DEF Agree
    <3>2. Stale(ops, e, b)[p] = IF ops[p].ep = e THEN [ops[p] EXCEPT !.current = FALSE] ELSE ops[p]
      BY <2>1
    <3>3. CASE ops[p].ep = e
      <4>1. Stale(ops, e, b)[p] = [ops[p] EXCEPT !.current = FALSE]
        BY <3>2, <3>3
      <4>2. /\ [ops[p] EXCEPT !.current = FALSE] \in OpRec /\ Agree(ops[p], [ops[p] EXCEPT !.current = FALSE])
            /\ ~[ops[p] EXCEPT !.current = FALSE].current
        BY <3>1, OpWoken
      <4>3. [ops[p] EXCEPT !.current = FALSE].current \in BOOLEAN
        BY <4>2, OpFields
      <4>4. Stale(ops, e, b)[p] \in OpRec /\ Agree(ops[p], Stale(ops, e, b)[p])
        BY <4>1, <4>2
      <4>5. Stale(ops, e, b)[p].current = FALSE
        BY <4>1, <4>2, <4>3
      <4> QED
        BY <3>1, <3>3, <4>4, <4>5
    <3>4. CASE ops[p].ep # e
      BY <3>1, <3>2, <3>4
    <3> QED
      BY <3>3, <3>4
  <2> QED
    BY <1>2, <2>1, <2>2
<1> QED
  BY <1>1, <1>2

(* The fields of a validation that only its own steps change *)
AgreeV(r, s) == s.at = r.at /\ s.step = r.step /\ s.ref = r.ref

(* The fields of a validation, and the records of one that starts and one *)
(* that ends. *)
LEMMA TaskFields ==
  ASSUME NEW r \in TaskRec
  PROVE  /\ r.at \in {"none"} \cup OnWay \cup Ended /\ r.step \in 0..Steps
         /\ r.ref \in Endpoint \cup {NoEndpoint} /\ r.woken \in BOOLEAN
         /\ NoTask \in TaskRec
         /\ \A e \in Endpoint : Task(e) \in TaskRec
  BY DEF TaskRec, NoTask, Task, Steps, OnWay

(* notify_waiters changes no validation but for its notification. *)
LEMMA WakeValsKeeps ==
  ASSUME NEW vals \in [Endpoint -> TaskRec]
  PROVE  /\ WakeVals(vals) \in [Endpoint -> TaskRec]
         /\ \A d \in Endpoint : AgreeV(vals[d], WakeVals(vals)[d])
<1>1. ASSUME NEW d \in Endpoint
      PROVE  WakeVals(vals)[d] \in TaskRec /\ AgreeV(vals[d], WakeVals(vals)[d])
  <2>1. vals[d] \in TaskRec
    OBVIOUS
  <2>2. WakeVals(vals)[d] = IF Listening(vals[d].at) THEN [vals[d] EXCEPT !.woken = TRUE] ELSE vals[d]
    BY DEF WakeVals
  <2> QED
    BY ZenonT(60), <2>1, <2>2 DEF TaskRec, AgreeV
<1>2. WakeVals(vals) = [d \in Endpoint |-> WakeVals(vals)[d]]
  BY DEF WakeVals
<1> QED
  BY <1>1, <1>2

(* How an operation may end. *)
Results == {"none", "refused", "exhausted", "contract", "unsafe", "ok", "failed", "rejected", "deadline"}

(* A set of natural numbers that is not empty has a least member. *)
LEMMA Least ==
  ASSUME NEW S \in SUBSET Nat, S # {}
  PROVE  Min(S) \in S
<1>1. IsWellFoundedOn(OpToRel(<, Nat), Nat)
  BY NatLessThanWellFounded
<1>2. PICK x \in S : \A y \in S : ~ (<<y, x>> \in OpToRel(<, Nat))
  BY <1>1, WFMin
<1>3. \A y \in S : x <= y
  <2>1. SUFFICES ASSUME NEW y \in S, y < x PROVE FALSE
    OBVIOUS
  <2>2. <<y, x>> \in Nat \X Nat
    OBVIOUS
  <2>3. <<y, x>> \in OpToRel(<, Nat)
    BY <2>1, <2>2 DEF OpToRel
  <2> QED
    BY <1>2, <2>3
<1> QED
  BY <1>3 DEF Min

(* The types of one operation and one endpoint. *)
LEMMA TypesHere ==
  ASSUME Types, NEW o \in Op, NEW e \in Endpoint
  PROVE  /\ op[o] \in OpRec /\ eps[e] \in EpRec /\ val[e] \in TaskRec /\ setup \in SetupRec
         /\ sends[o] \in Seq(Endpoint) /\ broke[o] \in SUBSET Culprit /\ broke[e] \in SUBSET Culprit
         /\ op[o].at \in OpAt /\ op[o].chunk \in Nat /\ op[o].pass \in Nat /\ op[o].tried \in SUBSET Endpoint
         /\ op[o].failed \in SUBSET Endpoint /\ op[o].excluded \in SUBSET Endpoint /\ op[o].todo \in Seq(Endpoint)
         /\ op[o].ep \in Endpoint \cup {NoEndpoint} /\ op[o].current \in BOOLEAN
  BY OpFields DEF Types

(* The types of what is given. *)
LEMMA GivenFields ==
  ASSUME Types
  PROVE  /\ given.key \in [Endpoint -> Key] /\ given.proof \in {"canary", "data", "none"}
         /\ given.chunks \in [Op -> Nat] /\ given.cfgSafe \in BOOLEAN /\ given.capSafe \in BOOLEAN
         /\ given.bounded \in BOOLEAN /\ given.globalMax \in Nat \ {0} /\ given.localMax \in Nat \ {0}
  BY SetAssumption DEF Types

(* The new records of operations *)
LEMMA Fresher ==
  ASSUME Types, NEW o \in Op, NEW res \in Results
  PROVE  /\ Done(o, res) \in OpRec /\ Done(o, res).at = "done" /\ Done(o, res).ep = NoEndpoint
         /\ Done(o, res).todo = <<>>
         /\ Serving(o) \in OpRec /\ Serving(o).at = "pass" /\ Serving(o).ep = NoEndpoint
         /\ Serving(o).failed = {} /\ Serving(o).todo = <<>>
<1>0. op[o].chunk + 1 \in Nat
  BY OpFields DEF Types
<1>1. Idle \in OpRec /\ Idle.ep = NoEndpoint /\ Idle.failed = {} /\ Idle.todo = <<>>
  BY DEF OpAt, Idle, OpRec
<1>2. /\ Done(o, res) \in OpRec /\ Done(o, res).at = "done" /\ Done(o, res).ep = NoEndpoint
      /\ Done(o, res).todo = <<>>
  BY <1>1 DEF OpAt, Done, OpRec, Results
<1>3. /\ Serving(o) \in OpRec /\ Serving(o).at = "pass" /\ Serving(o).ep = NoEndpoint
      /\ Serving(o).failed = {} /\ Serving(o).todo = <<>>
  BY <1>0, <1>1 DEF OpAt, Serving, OpRec
<1> QED
  BY <1>2, <1>3

(* An operation that only moves on. *)
LEMMA Goes ==
  ASSUME NEW r \in OpRec, NEW at \in OpAt
  PROVE  LET s == [r EXCEPT !.at = at]
         IN  /\ s \in OpRec /\ s.at = at /\ s.ep = r.ep /\ s.failed = r.failed /\ s.excluded = r.excluded
             /\ s.todo = r.todo /\ s.current = r.current
  BY DEF OpRec

(* An operation that excludes its endpoint and goes back to the gate. *)
LEMMA Excludes ==
  ASSUME Types, NEW o \in Op, op[o].ep \in Endpoint
  PROVE  /\ Excluding(o) \in OpRec /\ Excluding(o).at = "gate" /\ Excluding(o).ep = op[o].ep
         /\ Excluding(o).failed = op[o].failed /\ Excluding(o).excluded = op[o].excluded \cup {op[o].ep}
         /\ Excluding(o).tried = op[o].tried
<1>1. op[o] \in OpRec
  BY DEF Types
<1> QED
  BY <1>1 DEF Excluding, OpRec, OpAt

(* What the step of an operation leaves alone: the other operations, but for *)
(* their being woken and their permits becoming stale, and what the endpoints *)
(* are worth. *)
Others(o) ==
  /\ \A p \in Op \ {o} : Agree(op[p], op'[p]) /\ sends'[p] = sends[p] /\ broke'[p] = broke[p]
  /\ \A d \in Endpoint : broke'[d] = broke[d]
Flags == \A d \in Endpoint : eps'[d].validated = eps[d].validated /\ eps'[d].rejected = eps[d].rejected
Tasks == \A d \in Endpoint : AgreeV(val[d], val'[d]) /\ eps'[d].validating = eps[d].validating

(* What Leave does, whatever the verdict b and the place n it goes on to: *)
(* one permit of each kind goes back, the rest of the endpoint is as b *)
(* says, the permits at it are stale exactly if the circuit changed, and *)
(* every other operation keeps its place. *)
LEMMA Leaving ==
  ASSUME Types, NEW o \in Op, NEW b \in EpRec, NEW n \in OpRec, op[o].ep \in Endpoint, Leave(o, b, n),
         b.validated = eps[op[o].ep].validated, b.rejected = eps[op[o].ep].rejected,
         b.validating = eps[op[o].ep].validating
  PROVE  /\ op' \in [Op -> OpRec] /\ eps' \in [Endpoint -> EpRec] /\ val' \in [Endpoint -> TaskRec]
         /\ global' = global - 1
         /\ \A p \in Op \ {o} :
              /\ Agree(op[p], op'[p])
              /\ op'[p].current = (op[p].current /\ ~(b.circuit # eps[op[o].ep].circuit /\ op[p].ep = op[o].ep))
         /\ op'[o].at = n.at /\ op'[o].ep = NoEndpoint /\ op'[o].failed = n.failed
         /\ op'[o].excluded = n.excluded /\ op'[o].todo = n.todo
         /\ \A d \in Endpoint \ {op[o].ep} : eps'[d] = eps[d]
         /\ LET c == eps'[op[o].ep]
            IN  c.local = b.local - 1 /\ c.inflight = b.inflight /\ c.circuit = b.circuit /\ c.probes = b.probes
         /\ Flags /\ Tasks
<1> DEFINE e == op[o].ep
<1> DEFINE m == [n EXCEPT !.ep = NoEndpoint]
<1> DEFINE ops == [op EXCEPT ![o] = m]
<1> DEFINE st == Stale(ops, e, b)
<1> DEFINE bb == [b EXCEPT !.local = @ - 1]
<1>0. op \in [Op -> OpRec] /\ eps \in [Endpoint -> EpRec] /\ val \in [Endpoint -> TaskRec]
  BY DEF Types
<1>1. /\ m \in OpRec /\ m.at = n.at /\ m.ep = NoEndpoint /\ m.failed = n.failed
      /\ m.excluded = n.excluded /\ m.todo = n.todo
  BY DEF OpRec
<1>2. ops \in [Op -> OpRec] /\ ops[o] = m /\ \A p \in Op \ {o} : ops[p] = op[p]
  BY <1>0, <1>1
<1>3. /\ op' = WakeOps(st) /\ val' = WakeVals(val) /\ global' = global - 1
      /\ eps' = [eps EXCEPT ![e] = bb]
  BY DEF Leave
<1>4. /\ bb \in EpRec /\ bb.local = b.local - 1 /\ bb.inflight = b.inflight /\ bb.circuit = b.circuit
      /\ bb.probes = b.probes /\ bb.validated = b.validated /\ bb.rejected = b.rejected
      /\ bb.validating = b.validating
  BY DEF EpRec
<1> HIDE DEF m, bb, ops
<1>5. /\ st \in [Op -> OpRec]
      /\ \A p \in Op : /\ Agree(ops[p], st[p])
                       /\ st[p].current = (ops[p].current /\ ~(b.circuit # eps[e].circuit /\ ops[p].ep = e))
  BY <1>2, StaleKeeps
<1> HIDE DEF st
<1>6. /\ op' \in [Op -> OpRec]
      /\ \A p \in Op : Agree(st[p], op'[p]) /\ op'[p].current = st[p].current
  BY <1>3, <1>5, WakeOpsKeeps
<1>7. val' \in [Endpoint -> TaskRec] /\ \A d \in Endpoint : AgreeV(val[d], val'[d])
  BY <1>0, <1>3, WakeValsKeeps
<1>8. \A p \in Op \ {o} :
              /\ Agree(op[p], op'[p])
              /\ op'[p].current = (op[p].current /\ ~(b.circuit # eps[op[o].ep].circuit /\ op[p].ep = op[o].ep))
  BY <1>2, <1>5, <1>6 DEF Agree
<1>9. /\ op'[o].at = n.at /\ op'[o].ep = NoEndpoint /\ op'[o].failed = n.failed
      /\ op'[o].excluded = n.excluded /\ op'[o].todo = n.todo
  BY <1>2, <1>5, <1>6, <1>1 DEF Agree
<1>10. eps' \in [Endpoint -> EpRec] /\ eps'[e] = bb /\ \A d \in Endpoint \ {e} : eps'[d] = eps[d]
  BY <1>0, <1>3, <1>4
<1>11. Flags
  BY <1>4, <1>10 DEF Flags
<1>12. Tasks
  BY <1>4, <1>7, <1>10 DEF Tasks
<1> QED
  BY <1>3, <1>4, <1>6, <1>7, <1>8, <1>9, <1>10, <1>11, <1>12

(* The endpoint as an operation's call leaves it *)
LEMMA Judged ==
  ASSUME Types, NEW o \in Op, op[o].ep \in Endpoint, NEW v \in Verdicts
  PROVE  LET b == Returned(Verdict(o, v))
             a == eps[op[o].ep]
         IN  /\ b \in EpRec /\ b.validated = a.validated /\ b.rejected = a.rejected /\ b.validating = a.validating
             /\ b.local = a.local /\ b.inflight = a.inflight - 1
             /\ ~op[o].current => b.circuit = a.circuit /\ b.probes = a.probes
             /\ a.circuit # "half" => b.circuit # "half" /\ b.probes = a.probes
             /\ op[o].current /\ a.circuit = "half" =>
                  \/ b.circuit = "half" /\ b.probes = a.probes - 1
                  \/ b.circuit = "closed" /\ b.probes = a.probes - 1
                  \/ b.circuit = "open" /\ b.probes = 0
<1> DEFINE a == eps[op[o].ep]
<1> DEFINE c == Verdict(o, v)
<1>1. a \in EpRec
  BY DEF Types
<1>2. c = IF op[o].current THEN Finish(a, v) ELSE a
  BY DEF Verdict
<1>3. /\ Finish(a, v) \in EpRec /\ Fixed(a, Finish(a, v))
      /\ a.circuit # "half" => Finish(a, v).circuit # "half" /\ Finish(a, v).probes = a.probes
      /\ a.circuit = "half" => \/ Finish(a, v).circuit = "half" /\ Finish(a, v).probes = a.probes - 1
                               \/ Finish(a, v).circuit = "closed" /\ Finish(a, v).probes = a.probes - 1
                               \/ Finish(a, v).circuit = "open" /\ Finish(a, v).probes = 0
  BY <1>1, Finishes
<1>4. c \in EpRec /\ Fixed(a, c)
  BY <1>1, <1>2, <1>3 DEF Fixed
<1>5. /\ Returned(c) \in EpRec /\ Returned(c).inflight = c.inflight - 1 /\ Returned(c).local = c.local
      /\ Returned(c).circuit = c.circuit /\ Returned(c).probes = c.probes
      /\ Returned(c).validated = c.validated /\ Returned(c).rejected = c.rejected
      /\ Returned(c).validating = c.validating
  BY <1>4, Returns
<1> HIDE DEF a, c
<1> QED
  BY <1>2, <1>3, <1>4, <1>5 DEF Fixed, a, c

(* The steps of operation o that move no permit, those of a pass, and the end *)
(* of a call. *)
QuietStep(o) == \/ Begin(o) \/ AdmitRegister(o) \/ AdmitLook(o) \/ AdmitWake(o) \/ Backoff(o)
                \/ AdmitTry(o) /\ eps' = eps
                \/ Abandon(o) /\ op[o].at # "rpc"
TakeStep(o) == AdmitTry(o) /\ eps' # eps
RpcEnd(o) == Rpc(o) \/ (Abandon(o) /\ op[o].at = "rpc")
OpStep(o) == Begin(o) \/ Step(o) \/ Abandon(o)

(* The steps of an operation, by what they do to the permits. *)
LEMMA OpKinds ==
  ASSUME NEW o, OpStep(o)
  PROVE  \/ QuietStep(o) \/ StartPass(o) \/ TakeStep(o) \/ AdmitGlobal(o)
         \/ AdmitRecheck(o) \/ Refrain(o) \/ Call(o) \/ RpcEnd(o)
  BY DEF OpStep, QuietStep, TakeStep, RpcEnd, Step, Admission

(* A function on an initial segment of the numbers is a sequence. *)
LEMMA AsSeq ==
  ASSUME NEW S, NEW k \in Nat, NEW f \in [1..k -> S]
  PROVE  f \in Seq(S) /\ Len(f) = k /\ \A i \in 1..Len(f) : f[i] \in S
  OBVIOUS

(* A step that sets one operation's record. *)
LEMMA PlainOp ==
  ASSUME Types, NEW o \in Op, NEW n \in OpRec, op' = [op EXCEPT ![o] = n]
  PROVE  /\ op' \in [Op -> OpRec] /\ op'[o] = n /\ \A p \in Op \ {o} : op'[p] = op[p]
         /\ op' = [op EXCEPT ![o] = op'[o]]
  BY DEF Types

(* A quiet step of an operation: its record alone changes *)
Quiet(o) ==
  /\ op'[o] \in OpRec /\ op' = [op EXCEPT ![o] = op'[o]]
  /\ op[o].at \notin Held /\ op'[o].at \notin Held /\ op'[o].ep = NoEndpoint /\ op'[o].at # "idle"
  /\ SendingOf(op'[o], sends[o], broke[o])

(* The quiet steps are quiet, and each of them establishes what its new *)
(* place promises: AdmitLook's candidates are validated and not excluded, *)
(* whichever order they are in. *)
LEMMA QuietSteps ==
  ASSUME Types, Places, Sending, NEW o \in Op, QuietStep(o)
  PROVE  /\ Quiet(o)
         /\ UNCHANGED <<given, setup, eps, global, val, faults, sends, broke>>
<1> DEFINE r == op[o]
<1>0. /\ r \in OpRec /\ SendingOf(r, sends[o], broke[o])
      /\ r.ep # NoEndpoint <=> r.at \in Held
      /\ r.at = "idle" => sends[o] = <<>> /\ broke[o] = {}
      /\ op \in [Op -> OpRec]
      /\ r.todo \in Seq(Endpoint) /\ r.excluded \in SUBSET Endpoint /\ r.pass \in Nat
  BY TypesHere, OpFields DEF Types, Places, Sending
<1>1. CASE Begin(o)
  BY <1>1, Fresher, <1>0 DEF Begin, Results, SendingOf, Held, Quiet
<1>2. CASE AdmitRegister(o)
  <2> DEFINE n == [r EXCEPT !.at = "look", !.woken = FALSE, !.timer = FALSE]
  <2>1. /\ r.at = "gate" /\ UNCHANGED <<given, setup, eps, global, gate, val, faults, sends, broke>>
        /\ op' = [op EXCEPT ![o] = n]
    BY <1>2 DEF AdmitRegister
  <2>2. /\ n \in OpRec /\ n.at = "look" /\ n.ep = r.ep /\ n.failed = r.failed /\ n.excluded = r.excluded
    BY <1>0 DEF OpAt, OpRec
  <2> HIDE DEF n
  <2>3. op'[o] = n /\ op' = [op EXCEPT ![o] = op'[o]]
    BY <2>1, <2>2, PlainOp
  <2>4. SendingOf(op'[o], sends[o], broke[o])
    BY <1>0, <2>1, <2>2, <2>3 DEF SendingOf, Held
  <2> QED
    BY <1>0, <2>1, <2>2, <2>3, <2>4 DEF Quiet, Held
<1>3. CASE AdmitLook(o)
  <2> DEFINE ready == {e \in Eligible(o) : WouldAllow(eps[e])}
  <2> DEFINE tm == \E e \in Eligible(o) : Cooling(eps[e])
  <2>1. /\ r.at = "look" /\ UNCHANGED <<given, setup, eps, global, val, faults, sends, broke>>
        /\ \/ op' = [op EXCEPT ![o] = PassOver(o)]
           \/ \E order \in ByLoad(ready) :
                op' = [op EXCEPT ![o] = [@ EXCEPT !.at = "try", !.todo = order, !.timer = tm]]
    BY <1>3 DEF AdmitLook
  <2>2. CASE op' = [op EXCEPT ![o] = PassOver(o)]
    <3>1. /\ PassOver(o) \in OpRec /\ PassOver(o).at \in {"done", "backoff"} /\ PassOver(o).ep = NoEndpoint
          /\ PassOver(o).at = "backoff" => PassOver(o).failed = r.failed
      <4>1. "backoff" \in OpAt /\ "exhausted" \in Results
        BY DEF OpAt, Results
      <4>2. r.ep = NoEndpoint
        BY <1>0, <2>1 DEF Held
      <4>3. Done(o, "exhausted") \in OpRec /\ Done(o, "exhausted").at = "done" /\ Done(o, "exhausted").ep = NoEndpoint
        BY <4>1, Fresher
      <4>4. LET s == [r EXCEPT !.at = "backoff"]
            IN  s \in OpRec /\ s.at = "backoff" /\ s.ep = r.ep /\ s.failed = r.failed
        BY <1>0, <4>1, Goes
      <4> QED
        BY <4>2, <4>3, <4>4 DEF PassOver
    <3>2. op'[o] = PassOver(o) /\ op' = [op EXCEPT ![o] = op'[o]]
      BY <2>2, <3>1, PlainOp
    <3>3. SendingOf(op'[o], sends[o], broke[o])
      BY <1>0, <2>1, <3>1, <3>2 DEF SendingOf, Held
    <3> QED
      BY <1>0, <2>1, <3>1, <3>2, <3>3 DEF Quiet, Held
  <2>3. CASE \E order \in ByLoad(ready) :
                op' = [op EXCEPT ![o] = [@ EXCEPT !.at = "try", !.todo = order, !.timer = tm]]
    <3>1. PICK order \in ByLoad(ready) :
                op' = [op EXCEPT ![o] = [@ EXCEPT !.at = "try", !.todo = order, !.timer = tm]]
      BY <2>3
    <3>2. ready \subseteq Endpoint /\ IsFiniteSet(ready)
      BY Constants, FS_Subset DEF Eligible
    <3>3. Cardinality(ready) \in Nat
      BY <3>2, FS_CardinalityType
    <3>4. order \in [1..Cardinality(ready) -> ready]
      BY DEF ByLoad
    <3>5. order \in Seq(Endpoint) /\ \A i \in 1..Len(order) : order[i] \in ready
      <4> HIDE DEF ready
      <4>1. order \in Seq(ready) /\ \A i \in 1..Len(order) : order[i] \in ready
        BY <3>3, <3>4, AsSeq
      <4> QED
        BY <3>2, <4>1
    <3>6. tm \in BOOLEAN
      OBVIOUS
    <3> DEFINE n == [r EXCEPT !.at = "try", !.todo = order, !.timer = tm]
    <3> HIDE DEF tm
    <3>7. /\ n \in OpRec /\ n.at = "try" /\ n.ep = r.ep /\ n.failed = r.failed /\ n.excluded = r.excluded
          /\ n.todo = order
      BY <1>0, <3>5, <3>6 DEF OpAt, OpRec
    <3>8. op' = [op EXCEPT ![o] = n]
      BY <3>1
    <3> HIDE DEF n
    <3>9. op'[o] = n /\ op' = [op EXCEPT ![o] = op'[o]]
      BY <3>7, <3>8, PlainOp
    <3>10. \A i \in 1..Len(order) : eps[order[i]].validated /\ order[i] \notin r.excluded
      BY <3>5 DEF Eligible
    <3>11. SendingOf(op'[o], sends[o], broke[o])
      BY <1>0, <2>1, <3>7, <3>9, <3>10 DEF SendingOf, Held
    <3> QED
      BY <1>0, <2>1, <3>7, <3>9, <3>11 DEF Quiet, Held
  <2> QED
    BY <2>1, <2>2, <2>3
<1>4. CASE AdmitWake(o)
  <2>1. /\ r.at = "await" /\ UNCHANGED <<given, setup, eps, global, gate, val, faults, sends, broke>>
        /\ op' = [op EXCEPT ![o] = [r EXCEPT !.at = "gate"]]
    BY <1>0, <1>4 DEF AdmitWake
  <2>2. LET n == [r EXCEPT !.at = "gate"]
        IN  n \in OpRec /\ n.at = "gate" /\ n.ep = r.ep /\ n.failed = r.failed /\ n.excluded = r.excluded
    BY <1>0, Goes DEF OpAt
  <2>3. op'[o] = [r EXCEPT !.at = "gate"] /\ op' = [op EXCEPT ![o] = op'[o]]
    BY <2>1, <2>2, PlainOp
  <2>4. SendingOf(op'[o], sends[o], broke[o])
    BY <1>0, <2>1, <2>2, <2>3 DEF SendingOf, Held
  <2> QED
    BY <1>0, <2>1, <2>2, <2>3, <2>4 DEF Quiet, Held
<1>5. CASE Backoff(o)
  <2> DEFINE n == [r EXCEPT !.at = "pass", !.pass = NextPass(o)]
  <2>0. NextPass(o) \in Nat
    BY <1>0 DEF NextPass
  <2>1. /\ r.at = "backoff" /\ UNCHANGED <<given, setup, eps, global, gate, val, faults, sends, broke>>
        /\ op' = [op EXCEPT ![o] = n]
    BY <1>5 DEF Backoff
  <2>2. /\ n \in OpRec /\ n.at = "pass" /\ n.ep = r.ep /\ n.failed = r.failed
    BY <1>0, <2>0 DEF OpAt, OpRec
  <2> HIDE DEF n
  <2>3. op'[o] = n /\ op' = [op EXCEPT ![o] = op'[o]]
    BY <2>1, <2>2, PlainOp
  <2>4. SendingOf(op'[o], sends[o], broke[o])
    BY <1>0, <2>1, <2>2, <2>3 DEF SendingOf, Held
  <2> QED
    BY <1>0, <2>1, <2>2, <2>3, <2>4 DEF Quiet, Held
<1>6. CASE AdmitTry(o) /\ eps' = eps
  <2>1. /\ r.at = "try" /\ UNCHANGED <<given, setup, global, gate, val, faults, sends, broke>>
        /\ \/ op' = [op EXCEPT ![o] = [r EXCEPT !.at = "await"]]
           \/ r.todo # <<>> /\ op' = [op EXCEPT ![o] = [r EXCEPT !.todo = Tail(@)]]
    <3>1. \A e \in Endpoint : [eps EXCEPT ![e].local = @ + 1] # eps
      <4>1. SUFFICES ASSUME NEW e \in Endpoint, [eps EXCEPT ![e].local = @ + 1] = eps PROVE FALSE
        OBVIOUS
      <4>2. eps \in [Endpoint -> EpRec] /\ eps[e] \in EpRec /\ eps[e].local \in Int
        BY EpFields DEF Types
      <4> DEFINE f == [eps EXCEPT ![e].local = @ + 1]
      <4>3. f[e].local = eps[e].local + 1
        BY <4>2 DEF EpRec
      <4>4. f = eps
        BY <4>1
      <4> HIDE DEF f
      <4>5. eps[e].local = eps[e].local + 1
        BY <4>3, <4>4
      <4> QED
        BY <4>2, <4>5
    <3>2. r.todo # <<>> => Head(r.todo) \in Endpoint
      BY <1>0
    <3> QED
      BY <1>0, <1>6, <3>1, <3>2 DEF AdmitTry
  <2>2. CASE op' = [op EXCEPT ![o] = [r EXCEPT !.at = "await"]]
    <3>2. LET n == [r EXCEPT !.at = "await"]
          IN  n \in OpRec /\ n.at = "await" /\ n.ep = r.ep /\ n.failed = r.failed /\ n.excluded = r.excluded
      BY <1>0, Goes DEF OpAt
    <3>3. op'[o] = [r EXCEPT !.at = "await"] /\ op' = [op EXCEPT ![o] = op'[o]]
      BY <2>2, <3>2, PlainOp
    <3>4. SendingOf(op'[o], sends[o], broke[o])
      BY <1>0, <2>1, <3>2, <3>3 DEF SendingOf, Held
    <3> QED
      BY <1>0, <1>6, <2>1, <3>2, <3>3, <3>4 DEF Quiet, Held
  <2>3. CASE r.todo # <<>> /\ op' = [op EXCEPT ![o] = [r EXCEPT !.todo = Tail(@)]]
    <3> DEFINE n == [r EXCEPT !.todo = Tail(@)]
    <3>1. /\ Tail(r.todo) \in Seq(Endpoint) /\ Len(Tail(r.todo)) = Len(r.todo) - 1 /\ Len(r.todo) \in Nat
          /\ \A i \in 1..Len(Tail(r.todo)) : i + 1 \in 1..Len(r.todo) /\ Tail(r.todo)[i] = r.todo[i + 1]
      BY <1>0, <2>3
    <3>2. /\ n \in OpRec /\ n.at = "try" /\ n.ep = r.ep /\ n.failed = r.failed /\ n.excluded = r.excluded
          /\ n.todo = Tail(r.todo)
      BY <1>0, <2>1, <3>1 DEF OpRec
    <3>3. op' = [op EXCEPT ![o] = n]
      BY <2>3
    <3> HIDE DEF n
    <3>4. op'[o] = n /\ op' = [op EXCEPT ![o] = op'[o]]
      BY <3>2, <3>3, PlainOp
    <3>5. \A i \in 1..Len(n.todo) : eps[n.todo[i]].validated /\ n.todo[i] \notin n.excluded
      BY <1>0, <2>1, <3>1, <3>2 DEF SendingOf
    <3>6. SendingOf(op'[o], sends[o], broke[o])
      BY <1>0, <2>1, <3>2, <3>4, <3>5 DEF SendingOf, Held
    <3> QED
      BY <1>0, <1>6, <2>1, <3>2, <3>4, <3>6 DEF Quiet, Held
  <2> QED
    BY <2>1, <2>2, <2>3
<1>7. CASE Abandon(o) /\ op[o].at # "rpc"
  BY <1>7, Fresher, PlainOp, <1>0 DEF Abandon, Results, SendingOf, Held, Quiet
<1> QED
  BY <1>1, <1>2, <1>3, <1>4, <1>5, <1>6, <1>7 DEF QuietStep

(* What a step of operation o does at endpoint e: l local permits, g global *)
(* ones and i calls in flight more than before, and what it leaves alone. *)
Moved(o, e, l, g, i) ==
  /\ op' \in [Op -> OpRec] /\ eps' \in [Endpoint -> EpRec] /\ val' \in [Endpoint -> TaskRec]
  /\ faults' \in 0..MaxFaults /\ sends' \in [Op -> Seq(Endpoint)] /\ broke' \in [Op \cup Endpoint -> SUBSET Culprit]
  /\ global' = global + g
  /\ eps'[e].local = eps[e].local + l /\ eps'[e].inflight = eps[e].inflight + i
  /\ \A d \in Endpoint \ {e} : eps'[d] = eps[d]
  /\ Others(o) /\ Flags /\ Tasks
  /\ \A p \in Op \ {o} : op'[p].current = (op[p].current /\ ~(eps'[e].circuit # eps[e].circuit /\ op[p].ep = e))
  /\ op'[o].ep # NoEndpoint <=> op'[o].at \in Held
  /\ op'[o].at # "idle"
  /\ SendingOf(op'[o], sends'[o], broke'[o])
  /\ UNCHANGED <<given, setup>>

(* The circuit of e, and its slots, stay. *)
SameCircuit(e) == eps'[e].circuit = eps[e].circuit /\ eps'[e].probes = eps[e].probes

(* A record of an endpoint with another number of permits *)
LEMMA Permits ==
  ASSUME Types, NEW e \in Endpoint, NEW k \in Int, eps' = [eps EXCEPT ![e].local = k]
  PROVE  /\ eps' \in [Endpoint -> EpRec] /\ eps'[e].local = k /\ eps'[e].inflight = eps[e].inflight
         /\ \A d \in Endpoint \ {e} : eps'[d] = eps[d]
         /\ SameCircuit(e) /\ Flags
         /\ \A d \in Endpoint : eps'[d].validating = eps[d].validating
<1> DEFINE b == [eps[e] EXCEPT !.local = k]
<1>1. eps \in [Endpoint -> EpRec] /\ eps[e] \in EpRec
  BY DEF Types
<1>2. /\ b \in EpRec /\ b.local = k /\ b.inflight = eps[e].inflight /\ b.circuit = eps[e].circuit
      /\ b.probes = eps[e].probes /\ b.validated = eps[e].validated /\ b.rejected = eps[e].rejected
      /\ b.validating = eps[e].validating
  BY <1>1 DEF EpRec
<1>3. eps' = [eps EXCEPT ![e] = b]
  BY <1>1
<1> HIDE DEF b
<1>4. eps' \in [Endpoint -> EpRec] /\ eps'[e] = b /\ \A d \in Endpoint \ {e} : eps'[d] = eps[d]
  BY <1>1, <1>2, <1>3
<1> QED
  BY <1>2, <1>4 DEF SameCircuit, Flags

(* try_acquire of an endpoint's permit takes one, below the limit, of an *)
(* endpoint the operation may use. *)
LEMMA TakeSteps ==
  ASSUME Types, Places, Sending, NEW o \in Op, TakeStep(o)
  PROVE  \E e \in Endpoint : /\ Moved(o, e, 1, 0, 0) /\ SameCircuit(e)
                             /\ eps[e].local < given.localMax
                             /\ op[o].at = "try" /\ op'[o].at = "global" /\ op'[o].ep = e
<1> DEFINE r == op[o]
<1> DEFINE e == Head(r.todo)
<1> DEFINE n == [r EXCEPT !.at = "global", !.ep = e, !.todo = Tail(r.todo)]
<1>0. /\ r \in OpRec /\ SendingOf(r, sends[o], broke[o])
      /\ r.todo \in Seq(Endpoint) /\ op \in [Op -> OpRec]
  BY TypesHere, OpFields DEF Types, Places, Sending
<1>1. /\ r.at = "try" /\ UNCHANGED <<given, setup, global, gate, val, faults, sends, broke>>
      /\ r.todo # <<>> /\ eps[e].local < given.localMax
      /\ eps' = [eps EXCEPT ![e].local = @ + 1] /\ op' = [op EXCEPT ![o] = n]
  BY DEF TakeStep, AdmitTry
<1>2. /\ e \in Endpoint /\ Tail(r.todo) \in Seq(Endpoint) /\ Len(Tail(r.todo)) = Len(r.todo) - 1
      /\ Len(r.todo) \in Nat /\ 1 \in 1..Len(r.todo) /\ e = r.todo[1]
      /\ \A i \in 1..Len(Tail(r.todo)) : i + 1 \in 1..Len(r.todo) /\ Tail(r.todo)[i] = r.todo[i + 1]
  BY <1>0, <1>1
<1>3. eps[e] \in EpRec /\ eps[e].local + 1 \in Int /\ eps \in [Endpoint -> EpRec]
  BY <1>2, EpFields DEF Types
<1>4. eps' = [eps EXCEPT ![e].local = eps[e].local + 1]
  BY <1>1, <1>2, <1>3
<1>5. /\ n \in OpRec /\ n.at = "global" /\ n.ep = e /\ n.failed = r.failed /\ n.excluded = r.excluded
      /\ n.todo = Tail(r.todo)
  BY <1>0, <1>2 DEF OpAt, Held, OpRec
<1> HIDE DEF n, e
<1>6. op' \in [Op -> OpRec] /\ op'[o] = n /\ \A p \in Op \ {o} : op'[p] = op[p]
  BY <1>1, <1>5, PlainOp
<1>7. /\ eps' \in [Endpoint -> EpRec] /\ eps'[e].local = eps[e].local + 1 /\ eps'[e].inflight = eps[e].inflight
      /\ \A d \in Endpoint \ {e} : eps'[d] = eps[d]
      /\ SameCircuit(e) /\ Flags
      /\ \A d \in Endpoint : eps'[d].validating = eps[d].validating
  <2> DEFINE k == eps[e].local + 1
  <2>1. k \in Int /\ eps' = [eps EXCEPT ![e].local = k]
    BY <1>3, <1>4
  <2> HIDE DEF k
  <2>2. /\ eps' \in [Endpoint -> EpRec] /\ eps'[e].local = k /\ eps'[e].inflight = eps[e].inflight
        /\ \A d \in Endpoint \ {e} : eps'[d] = eps[d]
        /\ SameCircuit(e) /\ Flags
        /\ \A d \in Endpoint : eps'[d].validating = eps[d].validating
    BY <1>2, <2>1, Permits
  <2> QED
    BY <2>2 DEF k
<1>8. /\ eps[e].validated /\ e \notin r.excluded
      /\ \A i \in 1..Len(n.todo) : eps[n.todo[i]].validated /\ n.todo[i] \notin n.excluded
  BY <1>0, <1>1, <1>2, <1>5 DEF SendingOf
<1>9. SendingOf(op'[o], sends'[o], broke'[o])
  BY <1>0, <1>1, <1>5, <1>6, <1>8 DEF SendingOf, Held
<1>10. Tasks /\ Others(o)
  BY <1>1, <1>6, <1>7 DEF Tasks, Others, AgreeV, Agree
<1>11. \A p \in Op \ {o} : op'[p].current = (op[p].current /\ ~(eps'[e].circuit # eps[e].circuit /\ op[p].ep = e))
  BY <1>6, <1>7, TypesHere, <1>2 DEF SameCircuit
<1>12. /\ val' \in [Endpoint -> TaskRec]
       /\ faults' \in 0..MaxFaults /\ sends' \in [Op -> Seq(Endpoint)]
       /\ broke' \in [Op \cup Endpoint -> SUBSET Culprit] /\ global' = global + 0
       /\ eps'[e].inflight = eps[e].inflight + 0
  BY <1>1, <1>3, <1>7, EpFields DEF Types
<1>13. n.ep # NoEndpoint /\ n.at \in Held /\ n.at # "idle"
  BY <1>2, <1>5, Constants DEF Held
<1>14. Moved(o, e, 1, 0, 0)
  BY <1>1, <1>6, <1>7, <1>9, <1>10, <1>11, <1>12, <1>13 DEF Moved
<1> QED
  BY <1>1, <1>2, <1>5, <1>6, <1>7, <1>14

(* The second permit is taken below the limit, or the first one is given *)
(* back. *)
LEMMA GlobalSteps ==
  ASSUME Types, Places, Sending, NEW o \in Op, AdmitGlobal(o)
  PROVE  /\ op[o].at = "global" /\ op[o].ep \in Endpoint /\ SameCircuit(op[o].ep)
         /\ \/ /\ Moved(o, op[o].ep, 0, 1, 0) /\ global < given.globalMax
               /\ op'[o].at = "recheck" /\ op'[o].ep = op[o].ep
            \/ /\ Moved(o, op[o].ep, 0 - 1, 0, 0)
               /\ op'[o].at = "try" /\ op'[o].ep = NoEndpoint
<1> DEFINE r == op[o]
<1> DEFINE e == r.ep
<1>0. /\ r \in OpRec /\ SendingOf(r, sends[o], broke[o])
      /\ r.todo \in Seq(Endpoint) /\ op \in [Op -> OpRec] /\ r.ep \in Endpoint \cup {NoEndpoint}
      /\ r.ep # NoEndpoint <=> r.at \in Held
      /\ global \in Int
  BY TypesHere, OpFields DEF Types, Places, Sending
<1>1. /\ r.at = "global" /\ UNCHANGED <<given, setup, val, faults, sends, broke>>
      /\ \/ /\ global < given.globalMax /\ global' = global + 1 /\ eps' = eps
            /\ op' = [op EXCEPT ![o] = [r EXCEPT !.at = "recheck"]]
         \/ /\ global' = global /\ eps' = [eps EXCEPT ![e].local = @ - 1]
            /\ op' = [op EXCEPT ![o] = [r EXCEPT !.at = "try", !.ep = NoEndpoint]]
  BY DEF AdmitGlobal
<1>2. e \in Endpoint
  BY <1>0, <1>1 DEF Held
<1>3. eps[e] \in EpRec /\ eps[e].local \in Int /\ eps[e].inflight \in Int /\ eps \in [Endpoint -> EpRec]
  BY <1>2, EpFields DEF Types
<1>4. /\ val' \in [Endpoint -> TaskRec]
      /\ faults' \in 0..MaxFaults /\ sends' \in [Op -> Seq(Endpoint)]
      /\ broke' \in [Op \cup Endpoint -> SUBSET Culprit]
  BY <1>1 DEF Types
<1>5. CASE /\ global < given.globalMax /\ global' = global + 1 /\ eps' = eps
           /\ op' = [op EXCEPT ![o] = [r EXCEPT !.at = "recheck"]]
  <2> DEFINE n == [r EXCEPT !.at = "recheck"]
  <2>1. /\ n \in OpRec /\ n.at = "recheck" /\ n.ep = e /\ n.failed = r.failed /\ n.excluded = r.excluded
        /\ n.todo = r.todo
    BY <1>0 DEF OpAt, Held, OpRec
  <2>2. op' = [op EXCEPT ![o] = n]
    BY <1>5
  <2> HIDE DEF n
  <2>3. op' \in [Op -> OpRec] /\ op'[o] = n /\ \A p \in Op \ {o} : op'[p] = op[p]
    BY <2>1, <2>2, PlainOp
  <2>4. SendingOf(op'[o], sends'[o], broke'[o])
    BY <1>0, <1>1, <2>1, <2>3 DEF SendingOf, Held
  <2>5. Tasks /\ Others(o) /\ Flags /\ SameCircuit(e)
    BY <1>1, <1>5, <2>3 DEF Tasks, Others, AgreeV, Agree, Flags, SameCircuit
  <2>6. \A p \in Op \ {o} : op'[p].current = (op[p].current /\ ~(eps'[e].circuit # eps[e].circuit /\ op[p].ep = e))
    BY <1>2, <1>5, <2>3, TypesHere
  <2>7. n.ep # NoEndpoint /\ n.at \in Held /\ n.at # "idle"
    BY <1>2, <2>1, Constants DEF Held
  <2>8. Moved(o, e, 0, 1, 0)
    <3>1. eps' \in [Endpoint -> EpRec] /\ \A d \in Endpoint \ {e} : eps'[d] = eps[d]
      BY <1>3, <1>5
    <3>2. eps'[e].local = eps[e].local + 0 /\ eps'[e].inflight = eps[e].inflight + 0
      BY <1>3, <1>5
    <3> QED
      BY <1>1, <1>4, <1>5, <2>3, <2>4, <2>5, <2>6, <2>7, <3>1, <3>2 DEF Moved
  <2> QED
    BY <1>1, <1>2, <1>5, <2>1, <2>3, <2>5, <2>8
<1>6. CASE /\ global' = global /\ eps' = [eps EXCEPT ![e].local = @ - 1]
           /\ op' = [op EXCEPT ![o] = [r EXCEPT !.at = "try", !.ep = NoEndpoint]]
  <2> DEFINE n == [r EXCEPT !.at = "try", !.ep = NoEndpoint]
  <2>1. /\ n \in OpRec /\ n.at = "try" /\ n.ep = NoEndpoint /\ n.failed = r.failed /\ n.excluded = r.excluded
        /\ n.todo = r.todo
    BY <1>0 DEF OpAt, Held, OpRec
  <2>2. op' = [op EXCEPT ![o] = n]
    BY <1>6
  <2> HIDE DEF n
  <2>3. op' \in [Op -> OpRec] /\ op'[o] = n /\ \A p \in Op \ {o} : op'[p] = op[p]
    BY <2>1, <2>2, PlainOp
  <2>4. SendingOf(op'[o], sends'[o], broke'[o])
    BY <1>0, <1>1, <2>1, <2>3 DEF SendingOf, Held
  <2>5. eps' = [eps EXCEPT ![e].local = eps[e].local - 1]
    BY <1>2, <1>3, <1>6
  <2>6. /\ eps' \in [Endpoint -> EpRec] /\ eps'[e].local = eps[e].local - 1 /\ eps'[e].inflight = eps[e].inflight
        /\ \A d \in Endpoint \ {e} : eps'[d] = eps[d]
        /\ SameCircuit(e) /\ Flags
        /\ \A d \in Endpoint : eps'[d].validating = eps[d].validating
    <3>1. eps[e].local - 1 \in Int
      BY <1>3
    <3> QED
      BY <1>2, <2>5, <3>1, Permits
  <2>7. Tasks /\ Others(o)
    BY <1>1, <2>3, <2>6 DEF Tasks, Others, AgreeV, Agree
  <2>8. \A p \in Op \ {o} : op'[p].current = (op[p].current /\ ~(eps'[e].circuit # eps[e].circuit /\ op[p].ep = e))
    BY <1>2, <2>3, <2>6, TypesHere DEF SameCircuit
  <2>9. n.ep = NoEndpoint /\ n.at \notin Held /\ n.at # "idle"
    BY <2>1 DEF Held
  <2>10. global' = global + 0 /\ eps'[e].local = eps[e].local + (0 - 1) /\ eps'[e].inflight = eps[e].inflight + 0
    BY <1>0, <1>3, <1>6, <2>6
  <2>11. Moved(o, e, 0 - 1, 0, 0)
    BY <1>1, <1>4, <2>3, <2>4, <2>6, <2>7, <2>8, <2>9, <2>10 DEF Moved
  <2> QED
    BY <1>1, <1>2, <2>1, <2>3, <2>6, <2>11
<1> QED
  BY <1>1, <1>5, <1>6

(* After the last look at the circuit the operation is admitted with both *)
(* permits, or both are given back. *)
LEMMA RecheckSteps ==
  ASSUME Types, Places, Sending, NEW o \in Op, AdmitRecheck(o)
  PROVE  /\ op[o].at = "recheck" /\ op[o].ep \in Endpoint /\ SameCircuit(op[o].ep)
         /\ \/ /\ Moved(o, op[o].ep, 0, 0, 0)
               /\ op'[o].at = "admitted" /\ op'[o].ep = op[o].ep
            \/ /\ Moved(o, op[o].ep, 0 - 1, 0 - 1, 0)
               /\ op'[o].at = "try" /\ op'[o].ep = NoEndpoint
<1> DEFINE r == op[o]
<1> DEFINE e == r.ep
<1>0. /\ r \in OpRec /\ SendingOf(r, sends[o], broke[o])
      /\ r.todo \in Seq(Endpoint) /\ op \in [Op -> OpRec] /\ r.ep \in Endpoint \cup {NoEndpoint}
      /\ r.ep # NoEndpoint <=> r.at \in Held
      /\ global \in Int
  BY TypesHere, OpFields DEF Types, Places, Sending
<1>1. /\ r.at = "recheck" /\ UNCHANGED <<given, setup, val, faults, sends, broke>>
      /\ \/ /\ global' = global /\ eps' = eps
            /\ op' = [op EXCEPT ![o] = [r EXCEPT !.at = "admitted", !.todo = <<>>, !.woken = FALSE, !.timer = FALSE]]
         \/ /\ global' = global - 1 /\ eps' = [eps EXCEPT ![e].local = @ - 1]
            /\ op' = [op EXCEPT ![o] = [r EXCEPT !.at = "try", !.ep = NoEndpoint]]
  BY DEF AdmitRecheck
<1>2. e \in Endpoint
  BY <1>0, <1>1 DEF Held
<1>3. eps[e] \in EpRec /\ eps[e].local \in Int /\ eps[e].inflight \in Int /\ eps \in [Endpoint -> EpRec]
  BY <1>2, EpFields DEF Types
<1>4. /\ val' \in [Endpoint -> TaskRec]
      /\ faults' \in 0..MaxFaults /\ sends' \in [Op -> Seq(Endpoint)]
      /\ broke' \in [Op \cup Endpoint -> SUBSET Culprit]
  BY <1>1 DEF Types
<1>5. CASE /\ global' = global /\ eps' = eps
           /\ op' = [op EXCEPT ![o] = [r EXCEPT !.at = "admitted", !.todo = <<>>, !.woken = FALSE, !.timer = FALSE]]
  <2> DEFINE n == [r EXCEPT !.at = "admitted", !.todo = <<>>, !.woken = FALSE, !.timer = FALSE]
  <2>1. /\ n \in OpRec /\ n.at = "admitted" /\ n.ep = e /\ n.failed = r.failed /\ n.excluded = r.excluded
    <3>1. "admitted" \in OpAt /\ <<>> \in Seq(Endpoint)
      BY DEF OpAt, Held
    <3> QED
      BY <1>0, <3>1 DEF OpRec
  <2>2. op' = [op EXCEPT ![o] = n]
    BY <1>5
  <2> HIDE DEF n
  <2>3. op' \in [Op -> OpRec] /\ op'[o] = n /\ \A p \in Op \ {o} : op'[p] = op[p]
    BY <2>1, <2>2, PlainOp
  <2>4. SendingOf(op'[o], sends'[o], broke'[o])
    BY <1>0, <1>1, <2>1, <2>3 DEF SendingOf, Held
  <2>5. Tasks /\ Others(o) /\ Flags /\ SameCircuit(e)
    BY <1>1, <1>5, <2>3 DEF Tasks, Others, AgreeV, Agree, Flags, SameCircuit
  <2>6. \A p \in Op \ {o} : op'[p].current = (op[p].current /\ ~(eps'[e].circuit # eps[e].circuit /\ op[p].ep = e))
    BY <1>2, <1>5, <2>3, TypesHere
  <2>7. n.ep # NoEndpoint /\ n.at \in Held /\ n.at # "idle"
    BY <1>2, <2>1, Constants DEF Held
  <2>8. Moved(o, e, 0, 0, 0)
    <3>1. eps' \in [Endpoint -> EpRec] /\ \A d \in Endpoint \ {e} : eps'[d] = eps[d]
      BY <1>3, <1>5
    <3>2. eps'[e].local = eps[e].local + 0 /\ eps'[e].inflight = eps[e].inflight + 0
      BY <1>3, <1>5
    <3>3. global' = global + 0
      BY <1>0, <1>5
    <3> QED
      BY <1>1, <1>4, <1>5, <2>3, <2>4, <2>5, <2>6, <2>7, <3>1, <3>2, <3>3 DEF Moved
  <2> QED
    BY <1>1, <1>2, <1>5, <2>1, <2>3, <2>5, <2>8
<1>6. CASE /\ global' = global - 1 /\ eps' = [eps EXCEPT ![e].local = @ - 1]
           /\ op' = [op EXCEPT ![o] = [r EXCEPT !.at = "try", !.ep = NoEndpoint]]
  <2> DEFINE n == [r EXCEPT !.at = "try", !.ep = NoEndpoint]
  <2>1. /\ n \in OpRec /\ n.at = "try" /\ n.ep = NoEndpoint /\ n.failed = r.failed /\ n.excluded = r.excluded
        /\ n.todo = r.todo
    BY <1>0 DEF OpAt, Held, OpRec
  <2>2. op' = [op EXCEPT ![o] = n]
    BY <1>6
  <2> HIDE DEF n
  <2>3. op' \in [Op -> OpRec] /\ op'[o] = n /\ \A p \in Op \ {o} : op'[p] = op[p]
    BY <2>1, <2>2, PlainOp
  <2>4. SendingOf(op'[o], sends'[o], broke'[o])
    BY <1>0, <1>1, <2>1, <2>3 DEF SendingOf, Held
  <2>5. eps' = [eps EXCEPT ![e].local = eps[e].local - 1]
    BY <1>2, <1>3, <1>6
  <2>6. /\ eps' \in [Endpoint -> EpRec] /\ eps'[e].local = eps[e].local - 1 /\ eps'[e].inflight = eps[e].inflight
        /\ \A d \in Endpoint \ {e} : eps'[d] = eps[d]
        /\ SameCircuit(e) /\ Flags
        /\ \A d \in Endpoint : eps'[d].validating = eps[d].validating
    <3>1. eps[e].local - 1 \in Int
      BY <1>3
    <3> QED
      BY <1>2, <2>5, <3>1, Permits
  <2>7. Tasks /\ Others(o)
    BY <1>1, <2>3, <2>6 DEF Tasks, Others, AgreeV, Agree
  <2>8. \A p \in Op \ {o} : op'[p].current = (op[p].current /\ ~(eps'[e].circuit # eps[e].circuit /\ op[p].ep = e))
    BY <1>2, <2>3, <2>6, TypesHere DEF SameCircuit
  <2>9. n.ep = NoEndpoint /\ n.at \notin Held /\ n.at # "idle"
    BY <2>1 DEF Held
  <2>10. global' = global + (0 - 1) /\ eps'[e].local = eps[e].local + (0 - 1) /\ eps'[e].inflight = eps[e].inflight + 0
    BY <1>0, <1>3, <1>6, <2>6
  <2>11. Moved(o, e, 0 - 1, 0 - 1, 0)
    BY <1>1, <1>4, <2>3, <2>4, <2>6, <2>7, <2>8, <2>9, <2>10 DEF Moved
  <2> QED
    BY <1>1, <1>2, <2>1, <2>3, <2>6, <2>11
<1> QED
  BY <1>1, <1>5, <1>6

(* No call is made: both permits go back; a circuit this made half-open *)
(* has no slot taken. *)
LEMMA RefrainSteps ==
  ASSUME Types, Places, Sending, NEW o \in Op, Refrain(o)
  PROVE  LET e == op[o].ep
         IN  /\ op[o].at = "admitted" /\ e \in Endpoint /\ Moved(o, e, 0 - 1, 0 - 1, 0)
             /\ op'[o].at \in {"gate", "done"} /\ op'[o].ep = NoEndpoint
             /\ \/ SameCircuit(e)
                \/ eps[e].circuit = "open" /\ eps'[e].circuit = "half" /\ eps'[e].probes = 0
<1> DEFINE r == op[o]
<1> DEFINE e == r.ep
<1> DEFINE a == eps[e]
<1>0. /\ r \in OpRec /\ SendingOf(r, sends[o], broke[o])
      /\ op \in [Op -> OpRec] /\ r.ep \in Endpoint \cup {NoEndpoint}
      /\ r.ep # NoEndpoint <=> r.at \in Held
      /\ global \in Int
  BY TypesHere, OpFields DEF Types, Places, Sending
<1>1. r.at = "admitted" /\ UNCHANGED <<given, setup, faults, sends, broke>>
  BY DEF Refrain
<1>2. e \in Endpoint
  BY <1>0, <1>1 DEF Held
<1>3. a \in EpRec /\ a.local \in Int /\ a.inflight \in Int /\ a.circuit \in Circuit /\ a.probes \in Int
  BY <1>2, EpFields DEF Types
<1>4. \E b \in EpRec, n \in OpRec :
        /\ Leave(o, b, n) /\ Fixed(a, b)
        /\ n.at \in {"gate", "done"}
        /\ n.at = "gate" => n.failed = r.failed /\ r.excluded \subseteq n.excluded
        /\ \/ b.circuit = a.circuit /\ b.probes = a.probes
           \/ a.circuit = "open" /\ b.circuit = "half" /\ b.probes = 0
  <2>1. CASE Leave(o, a, [r EXCEPT !.at = "gate"])
    <3>1. LET n == [r EXCEPT !.at = "gate"]
          IN  n \in OpRec /\ n.at = "gate" /\ n.ep = r.ep /\ n.failed = r.failed /\ n.excluded = r.excluded
      BY <1>0, Goes DEF OpAt
    <3>2. Fixed(a, a)
      BY DEF Fixed
    <3> HIDE DEF a
    <3> QED
      BY <1>3, <2>1, <3>1, <3>2
  <2>2. CASE /\ WouldAllow(a)
             /\ Leave(o, Finish(Probed(o), "none"), IF Sendable(o) THEN Excluding(o) ELSE Done(o, "unsafe"))
    <3> DEFINE n == IF Sendable(o) THEN Excluding(o) ELSE Done(o, "unsafe")
    <3> DEFINE b == Finish(Acquire(a), "none")
    <3>1. /\ n \in OpRec /\ n.at \in {"gate", "done"}
          /\ n.at = "gate" => n.failed = r.failed /\ r.excluded \subseteq n.excluded
      BY <1>2, Excludes, Fresher DEF Results
    <3>2. /\ Acquire(a) \in EpRec /\ Fixed(a, Acquire(a))
          /\ \/ a.circuit = "closed" /\ Acquire(a) = a
             \/ a.circuit = "open" /\ Acquire(a).circuit = "half" /\ Acquire(a).probes = 1
             \/ a.circuit = "half" /\ Acquire(a).circuit = "half" /\ Acquire(a).probes = a.probes + 1
      BY <1>3, <2>2, Acquires DEF Acquire, EpRec, Circuit
    <3> DEFINE c == Acquire(a)
    <3> HIDE DEF a, c
    <3>3. /\ Finish(c, "none") \in EpRec /\ Fixed(c, Finish(c, "none"))
          /\ c.circuit # "half" => Finish(c, "none").circuit # "half" /\ Finish(c, "none").probes = c.probes
          /\ c.circuit = "half" => Finish(c, "none").circuit = "half" /\ Finish(c, "none").probes = c.probes - 1
      BY <3>2, Finishes DEF Verdicts, c
    <3>4. c.circuit # "half" => Finish(c, "none").circuit = c.circuit
      BY <3>2 DEF c, Finish, ProbeBack, EpRec
    <3>5. c.probes \in Int
      BY <3>2, EpFields DEF c
    <3>6. \/ Finish(c, "none").circuit = a.circuit /\ Finish(c, "none").probes = a.probes
          \/ a.circuit = "open" /\ Finish(c, "none").circuit = "half" /\ Finish(c, "none").probes = 0
      BY <1>3, <3>2, <3>3, <3>4, <3>5 DEF c
    <3>7. Leave(o, Finish(c, "none"), n)
      BY <2>2 DEF Probed, c, a
    <3> HIDE DEF n
    <3>8. Fixed(a, Finish(c, "none"))
      BY <3>2, <3>3 DEF Fixed, c
    <3> QED
      BY <3>1, <3>3, <3>6, <3>7, <3>8
  <2> QED
    BY <2>1, <2>2 DEF Refrain
<1>5. PICK b \in EpRec, n \in OpRec :
        /\ Leave(o, b, n) /\ Fixed(a, b)
        /\ n.at \in {"gate", "done"}
        /\ n.at = "gate" => n.failed = r.failed /\ r.excluded \subseteq n.excluded
        /\ \/ b.circuit = a.circuit /\ b.probes = a.probes
           \/ a.circuit = "open" /\ b.circuit = "half" /\ b.probes = 0
  BY <1>4
<1>6. /\ op' \in [Op -> OpRec] /\ eps' \in [Endpoint -> EpRec] /\ val' \in [Endpoint -> TaskRec]
      /\ global' = global - 1
      /\ \A p \in Op \ {o} : /\ Agree(op[p], op'[p])
                             /\ op'[p].current = (op[p].current /\ ~(b.circuit # eps[e].circuit /\ op[p].ep = e))
      /\ op'[o].at = n.at /\ op'[o].ep = NoEndpoint /\ op'[o].failed = n.failed
      /\ op'[o].excluded = n.excluded
      /\ \A d \in Endpoint \ {e} : eps'[d] = eps[d]
      /\ eps'[e].local = b.local - 1 /\ eps'[e].inflight = b.inflight /\ eps'[e].circuit = b.circuit
      /\ eps'[e].probes = b.probes
      /\ Flags /\ Tasks
  BY <1>2, <1>5, Leaving DEF Fixed
<1>7. SendingOf(op'[o], sends'[o], broke'[o])
  BY <1>0, <1>1, <1>5, <1>6 DEF SendingOf, Held
<1>8. Others(o)
  BY <1>1, <1>6 DEF Others
<1>9. Moved(o, e, 0 - 1, 0 - 1, 0)
  BY <1>0, <1>3, <1>5, <1>6, <1>1, <1>7, <1>8 DEF Fixed, Types, Held, Moved
<1>10. \/ SameCircuit(e)
       \/ eps[e].circuit = "open" /\ eps'[e].circuit = "half" /\ eps'[e].probes = 0
  BY <1>5, <1>6 DEF SameCircuit
<1> QED
  BY <1>1, <1>2, <1>5, <1>6, <1>9, <1>10

(* A call counts as in flight, takes a slot if the circuit is half-open, *)
(* below its limit, and goes to an endpoint that is validated, not failed, *)
(* and safe to send to. *)
LEMMA CallSteps ==
  ASSUME Types, Places, Sending, NEW o \in Op, Call(o)
  PROVE  LET e == op[o].ep
         IN  /\ op[o].at = "admitted" /\ e \in Endpoint /\ Moved(o, e, 0, 0, 1)
             /\ op'[o].at = "rpc" /\ op'[o].ep = e /\ op'[o].current
             /\ \/ eps[e].circuit = "closed" /\ SameCircuit(e)
                \/ eps[e].circuit = "open" /\ eps'[e].circuit = "half" /\ eps'[e].probes = 1
                \/ /\ eps[e].circuit = "half" /\ eps'[e].circuit = "half" /\ eps[e].probes < HalfOpenMax
                   /\ eps'[e].probes = eps[e].probes + 1
<1> DEFINE r == op[o]
<1> DEFINE e == r.ep
<1> DEFINE a == eps[e]
<1> DEFINE c == Acquire(a)
<1> DEFINE b == IF Repeat(o) THEN ChargeRetry(c) ELSE NoteRequest(c)
<1> DEFINE bb == [b EXCEPT !.inflight = @ + 1]
<1> DEFINE n == [Excluding(o) EXCEPT !.at = "rpc", !.current = TRUE, !.tried = @ \cup {e}]
<1>0. /\ r \in OpRec /\ SendingOf(r, sends[o], broke[o])
      /\ op \in [Op -> OpRec] /\ r.ep \in Endpoint \cup {NoEndpoint} /\ r.tried \in SUBSET Endpoint
      /\ r.ep # NoEndpoint <=> r.at \in Held
      /\ global \in Int /\ eps \in [Endpoint -> EpRec] /\ sends \in [Op -> Seq(Endpoint)]
      /\ broke[o] \in SUBSET Culprit
  BY TypesHere, OpFields DEF Types, Places, Sending
<1>1. /\ r.at = "admitted" /\ UNCHANGED <<given, setup, global, gate, val, faults, broke>>
      /\ WouldAllow(a) /\ (sends[o] # <<>> => ResendSafe)
      /\ eps' = [eps EXCEPT ![e] = bb]
      /\ op' = [Stale(op, e, b) EXCEPT ![o] = n]
      /\ sends' = [sends EXCEPT ![o] = Append(@, e)]
  BY DEF Call, Sendable, Probed
<1>2. e \in Endpoint
  BY <1>0, <1>1 DEF Held
<1>3. a \in EpRec /\ a.local \in Int /\ a.inflight \in Int /\ a.circuit \in Circuit /\ a.probes \in Int
  BY <1>2, EpFields DEF Types
<1>4. /\ c \in EpRec /\ Fixed(a, c)
      /\ \/ a.circuit = "closed" /\ c.circuit = a.circuit /\ c.probes = a.probes
         \/ a.circuit = "open" /\ c.circuit = "half" /\ c.probes = 1
         \/ a.circuit = "half" /\ c.circuit = "half" /\ a.probes < HalfOpenMax /\ c.probes = a.probes + 1
  BY <1>1, <1>3, Acquires DEF Acquire, EpRec, WouldAllow, Circuit
<1> HIDE DEF a, c
<1>5. b \in EpRec /\ Fixed(c, b) /\ b.circuit = c.circuit /\ b.probes = c.probes
  BY <1>4, Acquires
<1> HIDE DEF b
<1>6. /\ bb \in EpRec /\ bb.inflight = b.inflight + 1 /\ bb.local = b.local /\ bb.circuit = b.circuit
      /\ bb.probes = b.probes /\ bb.validated = b.validated /\ bb.rejected = b.rejected
      /\ bb.validating = b.validating
  BY <1>5 DEF EpRec
<1>7. /\ n \in OpRec /\ n.at = "rpc" /\ n.ep = e /\ n.failed = r.failed
      /\ n.excluded = r.excluded \cup {e} /\ n.current
  <2>1. /\ Excluding(o) \in OpRec /\ Excluding(o).ep = op[o].ep /\ Excluding(o).tried = op[o].tried
        /\ Excluding(o).failed = op[o].failed /\ Excluding(o).excluded = op[o].excluded \cup {op[o].ep}
    BY <1>2, Excludes
  <2>2. "rpc" \in OpAt /\ r.tried \cup {e} \in SUBSET Endpoint
    BY <1>0, <1>2 DEF OpAt, Held
  <2> QED
    BY <2>1, <2>2 DEF OpRec
<1> HIDE DEF bb, n
<1> DEFINE st == Stale(op, e, b)
<1>8. /\ st \in [Op -> OpRec]
      /\ \A p \in Op : /\ Agree(op[p], st[p])
                       /\ st[p].current = (op[p].current /\ ~(b.circuit # eps[e].circuit /\ op[p].ep = e))
  BY SMTT(40), <1>0, StaleKeeps
<1>9. op' = [st EXCEPT ![o] = n]
  BY <1>1
<1> HIDE DEF st
<1>10. /\ op' \in [Op -> OpRec] /\ op'[o] = n
       /\ \A p \in Op \ {o} : op'[p] = st[p]
  BY <1>7, <1>8, <1>9
<1>11. eps' \in [Endpoint -> EpRec] /\ eps'[e] = bb /\ \A d \in Endpoint \ {e} : eps'[d] = eps[d]
  BY <1>0, <1>1, <1>2, <1>6
<1>12. /\ sends' \in [Op -> Seq(Endpoint)] /\ sends'[o] = Append(sends[o], e)
       /\ \A p \in Op \ {o} : sends'[p] = sends[p]
  BY <1>0, <1>1, <1>2
<1>13. SendingOf(op'[o], sends'[o], broke'[o])
  <2>1. eps[e].validated /\ e \notin r.failed
    BY <1>0, <1>1 DEF SendingOf, Held
  <2>2. \A i \in 1..Len(sends'[o]) : eps[sends'[o][i]].validated
    BY <1>0, <1>12, <2>1 DEF SendingOf
  <2>3. ResendSafe \/ Len(sends'[o]) <= 1
    BY <1>0, <1>1, <1>12
  <2>4. broke[o] \subseteq r.failed /\ r.failed \subseteq r.excluded
    BY <1>0, <1>1 DEF SendingOf, Held
  <2> QED
    BY <1>1, <1>7, <1>10, <2>1, <2>2, <2>3, <2>4 DEF SendingOf, Held
<1>14. Others(o)
  BY <1>1, <1>8, <1>10, <1>12 DEF Others
<1>15. Flags /\ Tasks
  BY <1>1, <1>4, <1>5, <1>6, <1>11 DEF Flags, Tasks, Fixed, AgreeV, a
<1>16. /\ global' = global + 0 /\ eps'[e].local = eps[e].local + 0 /\ eps'[e].inflight = eps[e].inflight + 1
       /\ eps'[e].circuit = b.circuit /\ eps'[e].probes = b.probes
  BY <1>0, <1>1, <1>3, <1>4, <1>5, <1>6, <1>11 DEF Fixed, a
<1>17. \A p \in Op \ {o} : op'[p].current = (op[p].current /\ ~(eps'[e].circuit # eps[e].circuit /\ op[p].ep = e))
  BY <1>8, <1>10, <1>16
<1>18. /\ val' \in [Endpoint -> TaskRec] /\ faults' \in 0..MaxFaults
       /\ broke' \in [Op \cup Endpoint -> SUBSET Culprit]
  BY <1>1 DEF Types
<1>19. n.ep # NoEndpoint /\ n.at \in Held /\ n.at # "idle"
  BY <1>2, <1>7, Constants DEF Held
<1>20. Moved(o, e, 0, 0, 1)
  BY <1>1, <1>10, <1>11, <1>12, <1>13, <1>14, <1>15, <1>16, <1>17, <1>18, <1>19 DEF Moved
<1> QED
  BY <1>1, <1>2, <1>4, <1>5, <1>7, <1>10, <1>16, <1>20 DEF SameCircuit, a

(* However a call ends, dropped by its deadline included: both permits and *)
(* the in-flight count go back, and a slot exactly if the permit is of the *)
(* present generation. *)
LEMMA RpcSteps ==
  ASSUME Types, Places, Sending, NEW o \in Op, RpcEnd(o)
  PROVE  LET e == op[o].ep
         IN  /\ op[o].at = "rpc" /\ e \in Endpoint /\ Moved(o, e, 0 - 1, 0 - 1, 0 - 1)
             /\ op'[o].at \in {"pass", "gate", "done"} /\ op'[o].ep = NoEndpoint
             /\ ~op[o].current => SameCircuit(e)
             /\ eps[e].circuit # "half" => eps'[e].circuit # "half" /\ eps'[e].probes = eps[e].probes
             /\ op[o].current /\ eps[e].circuit = "half" =>
                  \/ eps'[e].circuit = "half" /\ eps'[e].probes = eps[e].probes - 1
                  \/ eps'[e].circuit = "closed" /\ eps'[e].probes = eps[e].probes - 1
                  \/ eps'[e].circuit = "open" /\ eps'[e].probes = 0
<1> DEFINE r == op[o]
<1> DEFINE e == r.ep
<1> DEFINE Goal(v, n, s, k) ==
        /\ Leave(o, Returned(Verdict(o, v)), n) /\ n.at \in {"pass", "gate", "done"}
        /\ sends' = [sends EXCEPT ![o] = s] /\ broke' = [broke EXCEPT ![o] = k] /\ s \in {sends[o], <<>>}
        /\ n.at # "done" => k \subseteq n.failed
        /\ n.at = "gate" => n.failed \subseteq n.excluded
<1>0. /\ r \in OpRec /\ SendingOf(r, sends[o], broke[o])
      /\ op \in [Op -> OpRec] /\ r.ep \in Endpoint \cup {NoEndpoint}
      /\ r.failed \in SUBSET Endpoint
      /\ r.ep # NoEndpoint <=> r.at \in Held
      /\ global \in Int /\ sends \in [Op -> Seq(Endpoint)] /\ broke \in [Op \cup Endpoint -> SUBSET Culprit]
  BY TypesHere, OpFields DEF Types, Places, Sending
<1>1. r.at = "rpc" /\ UNCHANGED <<given, setup>>
  BY DEF RpcEnd, Rpc, RpcOk, RpcFails, RpcContract, RpcRejected, Abandon
<1>2. e \in Endpoint
  BY <1>0, <1>1 DEF Held
<1>3. e \in r.excluded /\ r.failed \subseteq r.excluded /\ broke[o] \subseteq r.failed
  BY <1>0, <1>1 DEF SendingOf, Held
<1>4. faults' \in 0..MaxFaults
  <2>1. faults' = faults \/ (faults < MaxFaults /\ faults' = faults + 1)
    BY DEF RpcEnd, Rpc, RpcOk, RpcFails, RpcContract, RpcRejected, Abandon, Fault
  <2> QED
    BY <2>1, Constants DEF Types
<1>5. /\ sends = [sends EXCEPT ![o] = sends[o]] /\ broke = [broke EXCEPT ![o] = broke[o]]
      /\ broke[o] \in SUBSET Culprit
  BY <1>0
<1>6. LET n == [r EXCEPT !.at = "gate"]
      IN  n \in OpRec /\ n.at = "gate" /\ n.ep = r.ep /\ n.failed = r.failed /\ n.excluded = r.excluded
  BY <1>0, Goes DEF OpAt
<1>7. \A res \in Results : Done(o, res) \in OpRec /\ Done(o, res).at = "done"
  BY Fresher
<1>8. \E v \in Verdicts, n \in OpRec, s \in Seq(Endpoint), k \in SUBSET Culprit : Goal(v, n, s, k)
  <2>1. ASSUME NEW v \in Verdicts, NEW res \in Results, Leave(o, Returned(Verdict(o, v)), Done(o, res)),
               NEW k \in SUBSET Culprit, sends' = sends, broke' = [broke EXCEPT ![o] = k]
        PROVE  \E w \in Verdicts, n \in OpRec, s \in Seq(Endpoint), h \in SUBSET Culprit : Goal(w, n, s, h)
    <3>1. Goal(v, Done(o, res), sends[o], k)
      BY <1>5, <1>7, <2>1
    <3> HIDE DEF Goal
    <3> QED
      BY <1>0, <1>7, <3>1
  <2>2. CASE RpcOk(o)
    <3>1. "success" \in Verdicts /\ "ok" \in Results
      BY DEF Verdicts, Results
    <3>2. CASE r.chunk < given.chunks[o]
      <4>1. /\ Leave(o, Returned(Verdict(o, "success")), Serving(o))
            /\ sends' = [sends EXCEPT ![o] = <<>>] /\ broke' = [broke EXCEPT ![o] = {}]
        BY <2>2, <3>2 DEF RpcOk
      <4>2. Serving(o) \in OpRec /\ Serving(o).at = "pass"
        BY <3>1, Fresher
      <4>3. <<>> \in Seq(Endpoint) /\ {} \in SUBSET Culprit
        OBVIOUS
      <4>4. Goal("success", Serving(o), <<>>, {})
        BY <4>1, <4>2
      <4> HIDE DEF Goal
      <4> QED
        BY <3>1, <4>2, <4>3, <4>4
    <3>3. CASE ~(r.chunk < given.chunks[o])
      <4>1. Leave(o, Returned(Verdict(o, "success")), Done(o, "ok")) /\ sends' = sends /\ broke' = broke
        BY <2>2, <3>3 DEF RpcOk
      <4>2. broke' = [broke EXCEPT ![o] = broke[o]]
        BY <1>5, <4>1
      <4> HIDE DEF Goal
      <4> QED
        BY <1>5, <2>1, <3>1, <4>1, <4>2
    <3> QED
      BY <3>2, <3>3
  <2>3. CASE RpcFails(o)
    <3>1. PICK v \in {"failure", "fatal"} :
            \/ Leave(o, Returned(Verdict(o, v)), NextEndpoint(o))
            \/ Leave(o, Returned(Verdict(o, v)), Done(o, "failed"))
      BY <2>3 DEF RpcFails
    <3>2. v \in Verdicts /\ "failed" \in Results
      BY DEF Verdicts, Results
    <3>3. sends' = sends /\ broke' = [broke EXCEPT ![o] = broke[o]]
      BY <1>5, <2>3 DEF RpcFails
    <3>4. CASE Leave(o, Returned(Verdict(o, v)), NextEndpoint(o))
      <4>1. Goal(v, NextEndpoint(o), sends[o], broke[o])
        BY <1>3, <1>5, <1>6, <3>3, <3>4 DEF NextEndpoint
      <4>2. NextEndpoint(o) \in OpRec /\ sends[o] \in Seq(Endpoint)
        BY <1>0, <1>6 DEF NextEndpoint
      <4> HIDE DEF Goal
      <4> QED
        BY <1>5, <3>2, <4>1, <4>2
    <3>5. CASE Leave(o, Returned(Verdict(o, v)), Done(o, "failed"))
      <4> HIDE DEF Goal
      <4> QED
        BY <1>5, <2>1, <3>2, <3>3, <3>5
    <3> QED
      BY <3>1, <3>4, <3>5
  <2>4. CASE RpcContract(o)
    <3> DEFINE m == [NextEndpoint(o) EXCEPT !.failed = ContractFailed(o)]
    <3>1. /\ \/ Leave(o, Returned(Verdict(o, "failure")), m)
             \/ Leave(o, Returned(Verdict(o, "failure")), Done(o, "contract"))
          /\ sends' = sends /\ broke' = [broke EXCEPT ![o] = @ \cup {e}]
      BY <2>4 DEF RpcContract
    <3>2. "failure" \in Verdicts /\ "contract" \in Results
      BY DEF Verdicts, Results
    <3> DEFINE k == broke[o] \cup {e}
    <3>3. broke' = [broke EXCEPT ![o] = k] /\ k \in SUBSET Culprit
      BY <1>0, <1>2, <3>1 DEF Culprit
    <3>4. /\ m \in OpRec /\ m.at = "gate" /\ m.failed = r.failed \cup {e} /\ m.excluded = r.excluded
      BY <1>0, <1>2, <1>6 DEF ContractFailed, NextEndpoint, OpRec
    <3> HIDE DEF m, k
    <3>5. CASE Leave(o, Returned(Verdict(o, "failure")), m)
      <4>1. k \subseteq m.failed /\ m.failed \subseteq m.excluded
        BY <1>3, <3>4 DEF k
      <4>2. Goal("failure", m, sends[o], k)
        BY <1>5, <3>1, <3>3, <3>4, <3>5, <4>1
      <4>3. sends[o] \in Seq(Endpoint)
        BY <1>0
      <4> HIDE DEF Goal
      <4> QED
        BY <3>2, <3>3, <3>4, <4>2, <4>3
    <3>6. CASE Leave(o, Returned(Verdict(o, "failure")), Done(o, "contract"))
      <4> HIDE DEF Goal
      <4> QED
        BY <2>1, <3>1, <3>2, <3>3, <3>6
    <3> QED
      BY <3>1, <3>5, <3>6
  <2>5. CASE RpcRejected(o)
    <3>1. Leave(o, Returned(Verdict(o, "none")), Done(o, "rejected")) /\ sends' = sends /\ broke' = broke
      BY <2>5 DEF RpcRejected
    <3>2. "none" \in Verdicts /\ "rejected" \in Results /\ broke' = [broke EXCEPT ![o] = broke[o]]
      BY <1>5, <3>1 DEF Verdicts, Results
    <3> HIDE DEF Goal
    <3> QED
      BY <1>5, <2>1, <3>1, <3>2
  <2>6. CASE Abandon(o)
    <3>1. Leave(o, Returned(Verdict(o, "none")), Done(o, "deadline")) /\ sends' = sends /\ broke' = broke
      BY <1>1, <2>6 DEF Abandon
    <3>2. "none" \in Verdicts /\ "deadline" \in Results /\ broke' = [broke EXCEPT ![o] = broke[o]]
      BY <1>5, <3>1 DEF Verdicts, Results
    <3> HIDE DEF Goal
    <3> QED
      BY <1>5, <2>1, <3>1, <3>2
  <2> HIDE DEF Goal
  <2> QED
    BY <2>2, <2>3, <2>4, <2>5, <2>6 DEF RpcEnd, Rpc
<1>9. PICK v \in Verdicts, n \in OpRec, s \in Seq(Endpoint), k \in SUBSET Culprit : Goal(v, n, s, k)
  BY <1>8
<1> DEFINE b == Returned(Verdict(o, v))
<1> DEFINE a == eps[e]
<1>10. /\ b \in EpRec /\ b.validated = a.validated /\ b.rejected = a.rejected /\ b.validating = a.validating
       /\ b.local = a.local /\ b.inflight = a.inflight - 1
       /\ ~op[o].current => b.circuit = a.circuit /\ b.probes = a.probes
       /\ a.circuit # "half" => b.circuit # "half" /\ b.probes = a.probes
       /\ op[o].current /\ a.circuit = "half" =>
            \/ b.circuit = "half" /\ b.probes = a.probes - 1
            \/ b.circuit = "closed" /\ b.probes = a.probes - 1
            \/ b.circuit = "open" /\ b.probes = 0
  BY <1>2, Judged
<1>11. Leave(o, b, n)
  BY <1>9
<1>12. /\ n.at \in {"pass", "gate", "done"}
       /\ sends' = [sends EXCEPT ![o] = s] /\ broke' = [broke EXCEPT ![o] = k] /\ s \in {sends[o], <<>>}
       /\ n.at # "done" => k \subseteq n.failed
       /\ n.at = "gate" => n.failed \subseteq n.excluded
  BY <1>9
<1> HIDE DEF b, Goal
<1>13. /\ op' \in [Op -> OpRec] /\ eps' \in [Endpoint -> EpRec] /\ val' \in [Endpoint -> TaskRec]
       /\ global' = global - 1
       /\ \A p \in Op \ {o} : /\ Agree(op[p], op'[p])
                              /\ op'[p].current = (op[p].current /\ ~(b.circuit # eps[e].circuit /\ op[p].ep = e))
       /\ op'[o].at = n.at /\ op'[o].ep = NoEndpoint /\ op'[o].failed = n.failed
       /\ op'[o].excluded = n.excluded
       /\ \A d \in Endpoint \ {e} : eps'[d] = eps[d]
       /\ eps'[e].local = b.local - 1 /\ eps'[e].inflight = b.inflight /\ eps'[e].circuit = b.circuit
       /\ eps'[e].probes = b.probes
       /\ Flags /\ Tasks
  BY <1>2, <1>10, <1>11, Leaving
<1>14. /\ sends' \in [Op -> Seq(Endpoint)] /\ broke' \in [Op \cup Endpoint -> SUBSET Culprit]
       /\ sends'[o] = s /\ broke'[o] = k
       /\ \A p \in Op \ {o} : sends'[p] = sends[p] /\ broke'[p] = broke[p]
       /\ \A d \in Endpoint : broke'[d] = broke[d]
  BY Constants, <1>0, <1>12
<1>15. SendingOf(op'[o], sends'[o], broke'[o])
  <2>1. (\A i \in 1..Len(s) : eps[s[i]].validated) /\ (ResendSafe \/ Len(s) <= 1)
    BY <1>0, <1>12 DEF SendingOf
  <2> QED
    BY <1>12, <1>13, <1>14, <2>1 DEF SendingOf, Held
<1>16. Others(o)
  BY <1>13, <1>14 DEF Others
<1>17. a \in EpRec /\ a.local \in Int /\ a.inflight \in Int
  BY <1>2, EpFields DEF Types
<1>18. Moved(o, e, 0 - 1, 0 - 1, 0 - 1)
  <2>1. /\ global' = global + (0 - 1) /\ eps'[e].local = eps[e].local + (0 - 1)
        /\ eps'[e].inflight = eps[e].inflight + (0 - 1)
    BY <1>0, <1>10, <1>13, <1>17
  <2>2. op'[o].at \notin Held /\ op'[o].at # "idle"
    BY <1>12, <1>13 DEF Held
  <2> QED
    BY <1>1, <1>4, <1>13, <1>14, <1>15, <1>16, <2>1, <2>2 DEF Moved
<1> QED
  BY <1>1, <1>2, <1>10, <1>12, <1>13, <1>18 DEF SameCircuit

(* The beginning of a pass moves no permit, and starts validations against *)
(* an endpoint that serves. *)
LEMMA PassSteps ==
  ASSUME Types, Places, Sending, NEW o \in Op, StartPass(o)
  PROVE  /\ Quiet(o) /\ UNCHANGED <<given, setup, global, faults, sends, broke>>
         /\ eps' \in [Endpoint -> EpRec] /\ val' \in [Endpoint -> TaskRec]
         /\ \A d \in Endpoint :
              /\ eps'[d].local = eps[d].local /\ eps'[d].inflight = eps[d].inflight
              /\ SameCircuit(d)
              /\ \/ val'[d] = val[d] /\ eps'[d].validating = eps[d].validating
                 \/ /\ ~eps[d].validating /\ eps'[d].validating
                    /\ \E ref \in Endpoint : eps[ref].validated /\ val'[d] = Task(ref)
         /\ Flags
<1> DEFINE r == op[o]
<1>0. /\ r \in OpRec /\ SendingOf(r, sends[o], broke[o])
      /\ op \in [Op -> OpRec] /\ eps \in [Endpoint -> EpRec] /\ val \in [Endpoint -> TaskRec]
      /\ r.failed \in SUBSET Endpoint
      /\ r.ep # NoEndpoint <=> r.at \in Held
  BY TypesHere, OpFields DEF Types, Places, Sending
<1>1. r.at = "pass" /\ UNCHANGED <<given, setup, global, faults, sends, broke>>
  BY DEF StartPass
<1>2. Quiet(o)
  <2>1. \/ \E res \in Results : op' = [op EXCEPT ![o] = Done(o, res)]
        \/ op' = [op EXCEPT ![o] = [r EXCEPT !.at = "gate", !.excluded = r.failed]]
    BY DEF Results, StartPass
  <2>2. ASSUME NEW res \in Results, op' = [op EXCEPT ![o] = Done(o, res)] PROVE Quiet(o)
    BY Fresher, <2>2, PlainOp, <1>0, <1>1 DEF SendingOf, Held, Quiet
  <2>3. ASSUME op' = [op EXCEPT ![o] = [r EXCEPT !.at = "gate", !.excluded = r.failed]] PROVE Quiet(o)
    <3> DEFINE n == [r EXCEPT !.at = "gate", !.excluded = r.failed]
    <3>1. n \in OpRec /\ n.at = "gate" /\ n.ep = r.ep /\ n.failed = r.failed /\ n.excluded = r.failed
      BY <1>0 DEF OpAt, OpRec
    <3> HIDE DEF n
    <3>2. op'[o] = n /\ op' = [op EXCEPT ![o] = op'[o]]
      BY <2>3, <3>1, PlainOp DEF n
    <3>3. SendingOf(op'[o], sends[o], broke[o])
      BY <1>0, <1>1, <3>1, <3>2 DEF SendingOf, Held
    <3> QED
      BY <1>0, <1>1, <3>1, <3>2, <3>3 DEF Quiet, Held
  <2> QED
    BY <2>1, <2>2, <2>3
<1>3. CASE UNCHANGED <<eps, val>>
  BY <1>0, <1>1, <1>2, <1>3 DEF Flags, SameCircuit
<1>4. CASE \E promoted \in Promotions :
              /\ eps' = [e \in Endpoint |-> [eps[e] EXCEPT !.validating = @ \/ e \in promoted]]
              /\ val' = [e \in Endpoint |-> IF e \in promoted THEN Task(Min(Candidates)) ELSE val[e]]
  <2>1. PICK promoted \in Promotions :
              /\ eps' = [e \in Endpoint |-> [eps[e] EXCEPT !.validating = @ \/ e \in promoted]]
              /\ val' = [e \in Endpoint |-> IF e \in promoted THEN Task(Min(Candidates)) ELSE val[e]]
    BY <1>4
  <2>2. \A d \in Endpoint : d \in promoted => /\ ~eps[d].validating /\ Min(Candidates) \in Endpoint
                                              /\ eps[Min(Candidates)].validated
    <3>1. CASE Candidates = {}
      BY <3>1 DEF Promotions
    <3>2. CASE Candidates # {}
      BY <3>2, Constants, Least DEF Promotions, Candidates, Quarantined
    <3> QED
      BY <3>1, <3>2
  <2>3. ASSUME NEW d \in Endpoint
        PROVE  /\ eps'[d] \in EpRec /\ val'[d] \in TaskRec
               /\ eps'[d].local = eps[d].local /\ eps'[d].inflight = eps[d].inflight
               /\ SameCircuit(d) /\ eps'[d].validated = eps[d].validated /\ eps'[d].rejected = eps[d].rejected
               /\ \/ val'[d] = val[d] /\ eps'[d].validating = eps[d].validating
                  \/ /\ ~eps[d].validating /\ eps'[d].validating
                     /\ \E ref \in Endpoint : eps[ref].validated /\ val'[d] = Task(ref)
    <3> DEFINE b == [eps[d] EXCEPT !.validating = @ \/ d \in promoted]
    <3>1. /\ eps'[d] = b /\ val'[d] = IF d \in promoted THEN Task(Min(Candidates)) ELSE val[d]
      BY <2>1
    <3>2. eps[d] \in EpRec /\ eps[d].validating \in BOOLEAN /\ val[d] \in TaskRec
      BY <1>0, EpFields
    <3>3. /\ b \in EpRec /\ b.validating = (eps[d].validating \/ d \in promoted) /\ b.local = eps[d].local
          /\ b.inflight = eps[d].inflight /\ b.circuit = eps[d].circuit /\ b.probes = eps[d].probes
          /\ b.validated = eps[d].validated /\ b.rejected = eps[d].rejected
      BY <3>2 DEF EpRec
    <3> HIDE DEF b
    <3>4. CASE d \in promoted
      BY <2>2, <3>4, <3>2, TaskFields, <3>1, <3>3 DEF SameCircuit
    <3>5. CASE d \notin promoted
      BY <3>1, <3>2, <3>3, <3>5 DEF SameCircuit
    <3> QED
      BY <3>4, <3>5
  <2>4. eps' = [d \in Endpoint |-> eps'[d]] /\ val' = [d \in Endpoint |-> val'[d]]
    BY <2>1
  <2>5. eps' \in [Endpoint -> EpRec] /\ val' \in [Endpoint -> TaskRec]
    BY <2>3, <2>4
  <2> QED
    BY <1>1, <1>2, <2>3, <2>5 DEF Flags
<1> QED
  BY <1>3, <1>4 DEF StartPass

(* What a step of endpoint e's validation does at endpoint t, and leaves alone *)
ValMoved(e, t, l, g, i) ==
  /\ op' \in [Op -> OpRec] /\ eps' \in [Endpoint -> EpRec] /\ val' \in [Endpoint -> TaskRec]
  /\ global' = global + g
  /\ eps'[t].local = eps[t].local + l /\ eps'[t].inflight = eps[t].inflight + i
  /\ \A d \in Endpoint \ {t} : eps'[d].local = eps[d].local /\ eps'[d].inflight = eps[d].inflight
  /\ \A d \in Endpoint : SameCircuit(d) /\ (eps[d].validated => eps'[d].validated)
  /\ \A d \in Endpoint \ {e} :
       /\ AgreeV(val[d], val'[d]) /\ eps'[d].validated = eps[d].validated /\ eps'[d].rejected = eps[d].rejected
       /\ eps'[d].validating = eps[d].validating
  /\ \A p \in Op : Agree(op[p], op'[p]) /\ op'[p].current = op[p].current
  /\ UNCHANGED <<given, setup, sends>>

(* The flags of e stay. *)
SameFlags(e) == /\ eps'[e].validated = eps[e].validated /\ eps'[e].rejected = eps[e].rejected
                /\ eps'[e].validating = eps[e].validating

(* A validation's next call goes to an endpoint. *)
LEMMA Targets ==
  ASSUME Types, Places, NEW e \in Endpoint, val[e].at # "none"
  PROVE  Target(e) \in Endpoint /\ val[e] \in TaskRec /\ val[e].step \in 1..Steps /\ val[e].ref \in Endpoint
  BY DEF Types, Places, Target

(* A validation that only moves on. *)
LEMMA Tasked ==
  ASSUME Types, NEW e \in Endpoint, NEW at \in OnWay,
         val' = [val EXCEPT ![e].at = at]
  PROVE  /\ val' \in [Endpoint -> TaskRec] /\ val'[e].at = at /\ val'[e].step = val[e].step
         /\ val'[e].ref = val[e].ref /\ \A d \in Endpoint \ {e} : AgreeV(val[d], val'[d])
<1>1. val \in [Endpoint -> TaskRec] /\ val[e] \in TaskRec
  BY DEF Types
<1> DEFINE n == [val[e] EXCEPT !.at = at]
<1>2. n \in TaskRec /\ n.at = at /\ n.step = val[e].step /\ n.ref = val[e].ref
  BY <1>1 DEF TaskRec
<1>3. val' = [val EXCEPT ![e] = n]
  BY <1>1
<1> HIDE DEF n
<1>4. val' \in [Endpoint -> TaskRec] /\ val'[e] = n /\ \A d \in Endpoint \ {e} : val'[d] = val[d]
  BY <1>1, <1>2, <1>3
<1> QED
  BY <1>2, <1>4 DEF AgreeV

(* Registering and waking move no permit. *)
LEMMA ValRegisters ==
  ASSUME Types, Places, NEW e \in Endpoint, ValRegister(e) \/ ValWake(e)
  PROVE  /\ ValMoved(e, e, 0, 0, 0) /\ SameFlags(e) /\ UNCHANGED <<faults, broke>>
         /\ val[e].at \in {"gate", "await"} /\ val'[e].at \in {"gate", "look"}
         /\ val'[e].step = val[e].step /\ val'[e].ref = val[e].ref
<1>0. val \in [Endpoint -> TaskRec] /\ val[e] \in TaskRec /\ eps[e] \in EpRec /\ global \in Int
  BY DEF Types
<1>1. /\ val' \in [Endpoint -> TaskRec] /\ val'[e].at \in {"gate", "look"} /\ val'[e].step = val[e].step
      /\ val'[e].ref = val[e].ref /\ \A d \in Endpoint \ {e} : AgreeV(val[d], val'[d])
      /\ val[e].at \in {"gate", "await"}
  <2>1. CASE ValRegister(e)
    <3> DEFINE n == [val[e] EXCEPT !.at = "look", !.woken = FALSE]
    <3>1. n \in TaskRec /\ n.at = "look" /\ n.step = val[e].step /\ n.ref = val[e].ref
      BY <1>0 DEF TaskRec, OnWay
    <3>2. val' = [val EXCEPT ![e] = n] /\ val[e].at = "gate"
      BY <2>1 DEF ValRegister
    <3> HIDE DEF n
    <3>3. val' \in [Endpoint -> TaskRec] /\ val'[e] = n /\ \A d \in Endpoint \ {e} : val'[d] = val[d]
      BY <1>0, <3>1, <3>2
    <3> QED
      BY <3>1, <3>2, <3>3 DEF AgreeV
  <2>2. CASE ValWake(e)
    BY <2>2, Tasked DEF ValWake, OnWay
  <2> QED
    BY <2>1, <2>2
<1>2. UNCHANGED <<given, setup, gate, sends, eps, global, op, faults, broke>>
  BY DEF ValRegister, ValWake, ValOnly
<1>3. \A p \in Op : Agree(op[p], op'[p]) /\ op'[p].current = op[p].current
  BY <1>2 DEF Agree
<1>4. /\ global' = global + 0
      /\ eps'[e].local = eps[e].local + 0 /\ eps'[e].inflight = eps[e].inflight + 0
  BY <1>0, <1>2, EpFields
<1>5. op' \in [Op -> OpRec] /\ eps' \in [Endpoint -> EpRec]
  BY <1>2 DEF Types
<1> QED
  BY <1>1, <1>2, <1>3, <1>4, <1>5 DEF ValMoved, SameFlags, SameCircuit

(* A validation takes the permit of the endpoint it calls, below the *)
(* limit, or waits without one. *)
LEMMA ValLocals ==
  ASSUME Types, Places, NEW e \in Endpoint, ValLocal(e)
  PROVE  /\ val[e].at = "look" /\ Target(e) \in Endpoint /\ SameFlags(e) /\ UNCHANGED <<faults, broke>>
         /\ val'[e].step = val[e].step /\ val'[e].ref = val[e].ref
         /\ \/ /\ ValMoved(e, Target(e), 1, 0, 0) /\ val'[e].at = "global"
               /\ eps[Target(e)].local < given.localMax
            \/ ValMoved(e, e, 0, 0, 0) /\ val'[e].at = "await"
<1> DEFINE t == Target(e)
<1>1. /\ val[e].at = "look" /\ UNCHANGED <<given, setup, gate, sends, global, op, faults, broke>>
      /\ \/ /\ eps[t].local < given.localMax /\ eps' = [eps EXCEPT ![t].local = @ + 1]
            /\ val' = [val EXCEPT ![e].at = "global"]
         \/ val' = [val EXCEPT ![e].at = "await"] /\ eps' = eps
  BY DEF ValLocal, ValOnly
<1>2. t \in Endpoint
  BY <1>1, Targets
<1>3. /\ eps \in [Endpoint -> EpRec] /\ eps[t].local \in Int /\ eps[t].inflight \in Int
      /\ eps[e].local \in Int /\ eps[e].inflight \in Int /\ global \in Int
  BY <1>2, EpFields DEF Types
<1>4. \A p \in Op : Agree(op[p], op'[p]) /\ op'[p].current = op[p].current
  BY <1>1 DEF Agree
<1>5. op' \in [Op -> OpRec] /\ global' = global + 0
  BY <1>1, <1>3 DEF Types
<1> HIDE DEF t
<1>6. CASE /\ eps[t].local < given.localMax /\ eps' = [eps EXCEPT ![t].local = @ + 1]
           /\ val' = [val EXCEPT ![e].at = "global"]
  <2> DEFINE k == eps[t].local + 1
  <2>1. k \in Int /\ eps' = [eps EXCEPT ![t].local = k]
    BY <1>2, <1>3, <1>6
  <2> HIDE DEF k
  <2>2. /\ eps' \in [Endpoint -> EpRec] /\ eps'[t].local = k /\ eps'[t].inflight = eps[t].inflight
        /\ \A d \in Endpoint \ {t} : eps'[d] = eps[d]
        /\ SameCircuit(t) /\ Flags
        /\ \A d \in Endpoint : eps'[d].validating = eps[d].validating
    BY <1>2, <2>1, Permits
  <2>3. /\ val' \in [Endpoint -> TaskRec] /\ val'[e].at = "global" /\ val'[e].step = val[e].step
        /\ val'[e].ref = val[e].ref /\ \A d \in Endpoint \ {e} : AgreeV(val[d], val'[d])
    BY <1>6, Tasked DEF OnWay
  <2>4. eps'[t].local = eps[t].local + 1 /\ eps'[t].inflight = eps[t].inflight + 0
    BY <1>3, <2>2 DEF k
  <2>5. \A d \in Endpoint : SameCircuit(d)
    BY <2>2 DEF SameCircuit
  <2>6. ValMoved(e, t, 1, 0, 0)
    BY <1>1, <1>4, <1>5, <2>2, <2>3, <2>4, <2>5 DEF ValMoved, Flags
  <2> QED
    BY <1>1, <1>2, <1>6, <2>2, <2>3, <2>6 DEF t, SameFlags, Flags
<1>7. CASE val' = [val EXCEPT ![e].at = "await"] /\ eps' = eps
  <2>3. /\ val' \in [Endpoint -> TaskRec] /\ val'[e].at = "await" /\ val'[e].step = val[e].step
        /\ val'[e].ref = val[e].ref /\ \A d \in Endpoint \ {e} : AgreeV(val[d], val'[d])
    BY <1>7, Tasked DEF OnWay
  <2>4. eps'[e].local = eps[e].local + 0 /\ eps'[e].inflight = eps[e].inflight + 0 /\ eps' \in [Endpoint -> EpRec]
    BY <1>3, <1>7
  <2>6. ValMoved(e, e, 0, 0, 0)
    BY <1>1, <1>4, <1>5, <1>7, <2>3, <2>4 DEF ValMoved, SameCircuit
  <2> QED
    BY <1>1, <1>2, <1>7, <2>3, <2>6 DEF t, SameFlags
<1> QED
  BY <1>1, <1>6, <1>7 DEF t

(* It takes the global permit and counts its call as in flight, or gives *)
(* the first one back. *)
LEMMA ValGlobals ==
  ASSUME Types, Places, NEW e \in Endpoint, ValGlobal(e)
  PROVE  /\ val[e].at = "global" /\ Target(e) \in Endpoint /\ SameFlags(e) /\ UNCHANGED <<faults, broke>>
         /\ val'[e].step = val[e].step /\ val'[e].ref = val[e].ref
         /\ \/ /\ ValMoved(e, Target(e), 0, 1, 1) /\ val'[e].at = "rpc" /\ global < given.globalMax
            \/ ValMoved(e, Target(e), 0 - 1, 0, 0) /\ val'[e].at = "await"
<1> DEFINE t == Target(e)
<1>1. /\ val[e].at = "global" /\ UNCHANGED <<given, setup, gate, sends, op, faults, broke>>
      /\ \/ /\ global < given.globalMax /\ global' = global + 1 /\ eps' = [eps EXCEPT ![t].inflight = @ + 1]
            /\ val' = [val EXCEPT ![e].at = "rpc"]
         \/ /\ val' = [val EXCEPT ![e].at = "await"] /\ eps' = [eps EXCEPT ![t].local = @ - 1]
            /\ global' = global
  BY DEF ValGlobal, ValOnly
<1>2. t \in Endpoint
  BY <1>1, Targets
<1>3. /\ eps \in [Endpoint -> EpRec] /\ eps[t] \in EpRec /\ eps[t].local \in Int /\ eps[t].inflight \in Int
      /\ global \in Int
  BY <1>2, EpFields DEF Types
<1>4. \A p \in Op : Agree(op[p], op'[p]) /\ op'[p].current = op[p].current
  BY <1>1 DEF Agree
<1>5. op' \in [Op -> OpRec]
  BY <1>1 DEF Types
<1> HIDE DEF t
<1>6. CASE /\ global < given.globalMax /\ global' = global + 1 /\ eps' = [eps EXCEPT ![t].inflight = @ + 1]
           /\ val' = [val EXCEPT ![e].at = "rpc"]
  <2> DEFINE b == [eps[t] EXCEPT !.inflight = @ + 1]
  <2>1. /\ b \in EpRec /\ b.inflight = eps[t].inflight + 1 /\ b.local = eps[t].local
        /\ b.circuit = eps[t].circuit /\ b.probes = eps[t].probes /\ b.validated = eps[t].validated
        /\ b.rejected = eps[t].rejected /\ b.validating = eps[t].validating
    BY <1>3 DEF EpRec
  <2>2. eps' = [eps EXCEPT ![t] = b]
    BY <1>3, <1>6
  <2> HIDE DEF b
  <2>3. eps' \in [Endpoint -> EpRec] /\ eps'[t] = b /\ \A d \in Endpoint \ {t} : eps'[d] = eps[d]
    BY <1>2, <1>3, <2>1, <2>2
  <2>4. /\ val' \in [Endpoint -> TaskRec] /\ val'[e].at = "rpc" /\ val'[e].step = val[e].step
        /\ val'[e].ref = val[e].ref /\ \A d \in Endpoint \ {e} : AgreeV(val[d], val'[d])
    BY <1>6, Tasked DEF OnWay
  <2>5. \A d \in Endpoint : /\ SameCircuit(d) /\ eps'[d].validated = eps[d].validated
                            /\ eps'[d].rejected = eps[d].rejected /\ eps'[d].validating = eps[d].validating
    BY <2>1, <2>3 DEF SameCircuit
  <2>6. eps'[t].local = eps[t].local + 0 /\ eps'[t].inflight = eps[t].inflight + 1
    BY <1>3, <2>1, <2>3
  <2>7. ValMoved(e, t, 0, 1, 1)
    BY <1>1, <1>4, <1>5, <1>6, <2>3, <2>4, <2>5, <2>6 DEF ValMoved
  <2> QED
    BY <1>1, <1>2, <1>6, <2>4, <2>5, <2>7 DEF t, SameFlags
<1>7. CASE /\ val' = [val EXCEPT ![e].at = "await"] /\ eps' = [eps EXCEPT ![t].local = @ - 1]
           /\ global' = global
  <2> DEFINE k == eps[t].local - 1
  <2>1. k \in Int /\ eps' = [eps EXCEPT ![t].local = k]
    BY <1>2, <1>3, <1>7
  <2> HIDE DEF k
  <2>2. /\ eps' \in [Endpoint -> EpRec] /\ eps'[t].local = k /\ eps'[t].inflight = eps[t].inflight
        /\ \A d \in Endpoint \ {t} : eps'[d] = eps[d]
        /\ SameCircuit(t) /\ Flags
        /\ \A d \in Endpoint : eps'[d].validating = eps[d].validating
    BY <1>2, <2>1, Permits
  <2>3. /\ val' \in [Endpoint -> TaskRec] /\ val'[e].at = "await" /\ val'[e].step = val[e].step
        /\ val'[e].ref = val[e].ref /\ \A d \in Endpoint \ {e} : AgreeV(val[d], val'[d])
    BY <1>7, Tasked DEF OnWay
  <2>4. /\ eps'[t].local = eps[t].local + (0 - 1) /\ eps'[t].inflight = eps[t].inflight + 0
        /\ global' = global + 0
    BY <1>3, <1>7, <2>2 DEF k
  <2>5. \A d \in Endpoint : SameCircuit(d)
    BY <2>2 DEF SameCircuit
  <2>6. ValMoved(e, t, 0 - 1, 0, 0)
    BY <1>1, <1>4, <1>5, <2>2, <2>3, <2>4, <2>5 DEF ValMoved, Flags
  <2> QED
    BY <1>1, <1>2, <2>2, <2>3, <2>6 DEF t, SameFlags, Flags
<1> QED
  BY <1>1, <1>6, <1>7 DEF t

(* How a call of a validation may end: the next call, or one of the verdicts *)
Passed(e) == "ok" \in StepOutcomes(e)
ValGoes(e) ==
  /\ SameFlags(e) /\ val'[e].ref = val[e].ref
  /\ \/ Passed(e) /\ val[e].step # Steps /\ val'[e].at = "gate" /\ val'[e].step = val[e].step + 1
     \/ /\ val'[e].step = val[e].step
        /\ \/ val'[e].at = "valid" /\ Passed(e) /\ val[e].step = Steps
           \/ val'[e].at = "rejected" /\ ("mismatch" \in StepOutcomes(e) \/ {e, Refusal} \cap broke'[e] # {})
           \/ val'[e].at = "deferred"

(* However its call ends, both permits and the count go back, and it goes *)
(* on or ends with a verdict that the call justifies. *)
LEMMA ValDone ==
  ASSUME Types, Places, NEW e \in Endpoint, ValReturns(e)
  PROVE  /\ val[e].at = "rpc" /\ Target(e) \in Endpoint
         /\ ValMoved(e, Target(e), 0 - 1, 0 - 1, 0 - 1) /\ ValGoes(e)
         /\ faults' \in 0..MaxFaults /\ broke' \in [Op \cup Endpoint -> SUBSET Culprit]
         /\ \A p \in Op : broke'[p] = broke[p]
         /\ \A d \in Endpoint : broke[d] \subseteq broke'[d]
<1> DEFINE t == Target(e)
<1>1. val[e].at = "rpc" /\ UNCHANGED <<given, setup, gate, sends>>
  BY DEF ValReturns, ValOnly
<1>2. t \in Endpoint /\ val[e] \in TaskRec /\ val[e].step \in 1..Steps /\ val[e].ref \in Endpoint
  BY <1>1, Targets
<1>3. /\ faults' \in 0..MaxFaults /\ broke' \in [Op \cup Endpoint -> SUBSET Culprit]
      /\ \A p \in Op : broke'[p] = broke[p]
      /\ \A d \in Endpoint : broke[d] \subseteq broke'[d]
  <2>1. faults' = faults \/ (faults < MaxFaults /\ faults' = faults + 1)
    BY DEF ValReturns, Fault
  <2>2. broke' = broke \/ \E c \in Culprit : broke' = [broke EXCEPT ![e] = @ \cup {c}]
    BY <1>2 DEF ValReturns, Culprit
  <2>3. \A p \in Op : p # e
    BY Constants
  <2>4. broke \in [Op \cup Endpoint -> SUBSET Culprit] /\ faults \in 0..MaxFaults
    BY DEF Types
  <2>5. faults' \in 0..MaxFaults
    BY <2>1, <2>4, Constants
  <2>6. CASE broke' = broke
    BY <2>4, <2>5, <2>6
  <2>7. ASSUME NEW c \in Culprit, broke' = [broke EXCEPT ![e] = @ \cup {c}]
        PROVE  /\ broke' \in [Op \cup Endpoint -> SUBSET Culprit]
               /\ \A p \in Op : broke'[p] = broke[p]
               /\ \A d \in Endpoint : broke[d] \subseteq broke'[d]
    BY <2>3, <2>4, <2>7
  <2> QED
    BY <2>2, <2>5, <2>6, <2>7
<1>4. PICK outcome : /\ ValEnds(e, outcome)
                     /\ outcome = "ok" => Passed(e)
                     /\ outcome = "mismatch" => "mismatch" \in StepOutcomes(e)
                     /\ outcome = "contract" /\ Target(e) = e => {e, Refusal} \cap broke'[e] # {}
                     /\ outcome = "refused" => {e, Refusal} \cap broke'[e] # {}
  <2>0. broke \in [Op \cup Endpoint -> SUBSET Culprit]
    BY DEF Types
  <2>1. CASE \E outcome \in StepOutcomes(e) : ValEnds(e, outcome)
    BY <2>1 DEF StepOutcomes, Passed
  <2>2. CASE ValEnds(e, "transport")
    BY <2>2
  <2>3. CASE ValEnds(e, "contract") /\ broke' = [broke EXCEPT ![e] = @ \cup {Target(e)}]
    BY <2>0, <2>3
  <2>4. CASE ValEnds(e, "refused") /\ broke' = [broke EXCEPT ![e] = @ \cup {IF Target(e) = e THEN e ELSE Refusal}]
    BY <2>0, <2>4
  <2> QED
    BY <2>1, <2>2, <2>3, <2>4 DEF ValReturns
<1> DEFINE v == ValOutcome(e, outcome)
<1> DEFINE k == IF v = "gate" THEN val[e].step + 1 ELSE val[e].step
<1> DEFINE nv == [val[e] EXCEPT !.at = v, !.step = k]
<1>5. /\ global' = global - 1 /\ op' = WakeOps(op) /\ val' = WakeVals([val EXCEPT ![e] = nv])
      /\ eps' = [eps EXCEPT ![t] = Returned([@ EXCEPT !.local = eps[t].local - 1])]
  BY <1>4 DEF ValEnds
<1>6. \/ v = "valid" /\ Passed(e) /\ val[e].step = Steps
      \/ v = "rejected" /\ ("mismatch" \in StepOutcomes(e) \/ {e, Refusal} \cap broke'[e] # {})
      \/ v = "gate" /\ Passed(e) /\ val[e].step # Steps
      \/ v = "deferred"
  BY <1>4 DEF Blamed, ValOutcome
<1> HIDE DEF v, t
<1>7. /\ eps \in [Endpoint -> EpRec] /\ eps[t] \in EpRec /\ eps[t].local \in Int /\ eps[t].inflight \in Int
      /\ global \in Int /\ op \in [Op -> OpRec] /\ val \in [Endpoint -> TaskRec]
  BY <1>2, EpFields DEF Types
<1>8. /\ op' \in [Op -> OpRec] /\ \A p \in Op : Agree(op[p], op'[p]) /\ op'[p].current = op[p].current
  BY <1>5, <1>7, WakeOpsKeeps
<1>9. /\ val' \in [Endpoint -> TaskRec] /\ \A d \in Endpoint \ {e} : AgreeV(val[d], val'[d])
      /\ val'[e].at = v /\ val'[e].step = k /\ val'[e].ref = val[e].ref
  <2>1. /\ nv \in TaskRec /\ nv.at = v /\ nv.step = k /\ nv.ref = val[e].ref
    <3>1. k \in 0..Steps
      BY <1>2, <1>6 DEF Steps
    <3>2. v \in {"none"} \cup OnWay \cup Ended
      BY <1>6 DEF OnWay, Ended
    <3> HIDE DEF k
    <3> QED
      BY <1>2, <3>1, <3>2 DEF TaskRec
  <2> DEFINE vals == [val EXCEPT ![e] = nv]
  <2> HIDE DEF nv
  <2>2. vals \in [Endpoint -> TaskRec] /\ vals[e] = nv /\ \A d \in Endpoint \ {e} : vals[d] = val[d]
    BY <1>7, <2>1
  <2>3. val' = WakeVals(vals)
    BY <1>5
  <2> HIDE DEF vals, k
  <2>4. val' \in [Endpoint -> TaskRec] /\ \A d \in Endpoint : AgreeV(vals[d], val'[d])
    BY <2>2, <2>3, WakeValsKeeps
  <2> QED
    BY <2>1, <2>2, <2>4 DEF AgreeV
<1>10. /\ eps' \in [Endpoint -> EpRec]
       /\ eps'[t].local = eps[t].local - 1 /\ eps'[t].inflight = eps[t].inflight - 1
       /\ \A d \in Endpoint \ {t} : eps'[d].local = eps[d].local /\ eps'[d].inflight = eps[d].inflight
       /\ \A d \in Endpoint : SameCircuit(d) /\ SameFlags(d)
  <2> DEFINE c == [eps[t] EXCEPT !.local = eps[t].local - 1]
  <2>1. /\ c \in EpRec /\ c.local = eps[t].local - 1 /\ c.inflight = eps[t].inflight
        /\ c.circuit = eps[t].circuit /\ c.probes = eps[t].probes /\ c.validated = eps[t].validated
        /\ c.rejected = eps[t].rejected /\ c.validating = eps[t].validating
    BY <1>7 DEF EpRec
  <2>2. eps' = [eps EXCEPT ![t] = Returned(c)]
    BY <1>2, <1>5, <1>7
  <2> HIDE DEF c
  <2>3. /\ Returned(c) \in EpRec /\ Returned(c).inflight = c.inflight - 1 /\ Returned(c).local = c.local
        /\ Returned(c).circuit = c.circuit /\ Returned(c).probes = c.probes
        /\ Returned(c).validated = c.validated /\ Returned(c).rejected = c.rejected
        /\ Returned(c).validating = c.validating
    BY <2>1, Returns
  <2>4. eps' \in [Endpoint -> EpRec] /\ eps'[t] = Returned(c) /\ \A d \in Endpoint \ {t} : eps'[d] = eps[d]
    BY <1>2, <1>7, <2>2, <2>3
  <2> QED
    BY <1>2, <2>1, <2>3, <2>4 DEF SameCircuit, SameFlags
<1>11. ValMoved(e, t, 0 - 1, 0 - 1, 0 - 1)
  <2>1. /\ global' = global + (0 - 1) /\ eps'[t].local = eps[t].local + (0 - 1)
        /\ eps'[t].inflight = eps[t].inflight + (0 - 1)
    <3>1. global' = global - 1
      BY <1>5
    <3>2. eps'[t].local = eps[t].local - 1 /\ eps'[t].inflight = eps[t].inflight - 1
      BY <1>10
    <3> QED
      BY <1>7, <3>1, <3>2
  <2>2. \A d \in Endpoint : eps[d].validated => eps'[d].validated
    BY <1>10 DEF SameFlags
  <2> QED
    BY <1>1, <1>8, <1>9, <1>10, <2>1, <2>2 DEF ValMoved, SameFlags
<1>12. ValGoes(e)
  BY <1>6, <1>9, <1>10 DEF ValGoes
<1> QED
  BY <1>1, <1>2, <1>3, <1>11, <1>12 DEF t

(* The verdict of a validation is stored, and its task is over. *)
ValStored(e) ==
  /\ val[e].at \in Ended /\ val'[e].at = "none" /\ ~eps'[e].validating
  /\ eps'[e].validated = (eps[e].validated \/ val[e].at = "valid")
  /\ eps'[e].rejected = (eps[e].rejected \/ val[e].at = "rejected")

(* Storing it moves no permit. *)
LEMMA ValStores ==
  ASSUME Types, NEW e \in Endpoint, ValVerdict(e)
  PROVE  ValMoved(e, e, 0, 0, 0) /\ ValStored(e) /\ UNCHANGED <<faults, broke>>
<1> DEFINE f == [eps[e] EXCEPT !.validated = eps[e].validated \/ val[e].at = "valid",
                               !.rejected = eps[e].rejected \/ val[e].at = "rejected", !.validating = FALSE]
<1> DEFINE vals == [val EXCEPT ![e] = NoTask]
<1>0. /\ eps \in [Endpoint -> EpRec] /\ eps[e] \in EpRec /\ eps[e].local \in Int /\ eps[e].inflight \in Int
      /\ eps[e].validated \in BOOLEAN /\ eps[e].rejected \in BOOLEAN
      /\ global \in Int /\ op \in [Op -> OpRec] /\ val \in [Endpoint -> TaskRec]
  BY EpFields DEF Types
<1>1. /\ val[e].at \in Ended /\ UNCHANGED <<given, setup, gate, sends, global, faults, broke>>
      /\ op' = WakeOps(op) /\ val' = WakeVals(vals) /\ eps' = [eps EXCEPT ![e] = f]
  <2>1. val[e].at \in Ended /\ UNCHANGED <<given, setup, gate, sends, global, faults, broke>>
    BY DEF ValVerdict, ValOnly, Ended
  <2>2. op' = WakeOps(op) /\ val' = WakeVals(vals)
    BY DEF ValVerdict
  <2>3. eps' = [eps EXCEPT ![e] = f]
    BY DEF ValVerdict
  <2> QED
    BY <2>1, <2>2, <2>3
<1>2. NoTask \in TaskRec /\ NoTask.at = "none"
  BY DEF NoTask, TaskRec, Steps
<1>3. vals \in [Endpoint -> TaskRec] /\ vals[e] = NoTask /\ \A d \in Endpoint \ {e} : vals[d] = val[d]
  BY <1>0, <1>2
<1>4. /\ f \in EpRec /\ f.local = eps[e].local /\ f.inflight = eps[e].inflight
      /\ f.circuit = eps[e].circuit /\ f.probes = eps[e].probes
      /\ f.validated = (eps[e].validated \/ val[e].at = "valid")
      /\ f.rejected = (eps[e].rejected \/ val[e].at = "rejected")
      /\ f.validating = FALSE
  BY ZenonT(60), <1>0 DEF EpRec
<1> HIDE DEF f, vals
<1>5. /\ op' \in [Op -> OpRec] /\ \A p \in Op : Agree(op[p], op'[p]) /\ op'[p].current = op[p].current
  BY <1>0, <1>1, WakeOpsKeeps
<1>6. val' \in [Endpoint -> TaskRec] /\ \A d \in Endpoint : AgreeV(vals[d], val'[d])
  BY <1>1, <1>3, WakeValsKeeps
<1>7. eps' \in [Endpoint -> EpRec] /\ eps'[e] = f /\ \A d \in Endpoint \ {e} : eps'[d] = eps[d]
  BY <1>0, <1>1, <1>4
<1>8. val'[e].at = "none" /\ \A d \in Endpoint \ {e} : AgreeV(val[d], val'[d])
  BY <1>2, <1>3, <1>6 DEF AgreeV
<1>9. /\ global' = global + 0 /\ eps'[e].local = eps[e].local + 0 /\ eps'[e].inflight = eps[e].inflight + 0
  BY <1>0, <1>1, <1>4, <1>7
<1>10. \A d \in Endpoint : SameCircuit(d) /\ (eps[d].validated => eps'[d].validated)
  BY <1>4, <1>7 DEF SameCircuit
<1>11. ValMoved(e, e, 0, 0, 0)
  BY <1>1, <1>5, <1>6, <1>7, <1>8, <1>9, <1>10 DEF ValMoved
<1>12. ValStored(e)
  BY <1>1, <1>4, <1>7, <1>8 DEF ValStored
<1> QED
  BY <1>1, <1>11, <1>12

(* The fields of the construction. *)
LEMMA SetupFields ==
  ASSUME NEW s \in SetupRec
  PROVE  /\ s.at \in {"probe", "cross", "serve", "refused"} /\ s.next \in Nat /\ s.tries \in Nat
         /\ s.reachable \in Seq(Endpoint) /\ s.down \in SUBSET Endpoint /\ s.canary \in Key \cup {"none"}
  BY DEF SetupRec

(* A construction that is refused promises nothing. *)
LEMMA Refuses ==
  ASSUME NEW s \in SetupRec
  PROVE  LET q == [s EXCEPT !.at = "refused"]
         IN  q \in SetupRec /\ q.at = "refused" /\ ProbingOf(q)
<1> DEFINE q == [s EXCEPT !.at = "refused"]
<1>1. q \in SetupRec /\ q.at = "refused"
  BY DEF SetupRec
<1> HIDE DEF q
<1>2. ProbingOf(q)
  BY <1>1 DEF ProbingOf
<1> QED
  BY <1>1, <1>2 DEF q

(* The next endpoint, or the comparison of those that were reached, from a *)
(* probe that is done with one endpoint. *)
LEMMA Advances ==
  ASSUME NEW s \in SetupRec, s.at = "probe", s.next \in Endpoint,
         \A e \in 1..s.next : e \in s.down \/ Reached(s, e),
         \A i \in 1..Len(s.reachable) : Sound(s.reachable[i], s.canary)
  PROVE  Advance(s) \in SetupRec /\ Advance(s).at # "serve" /\ ProbingOf(Advance(s))
<1> DEFINE done == [s EXCEPT !.next = @ + 1, !.tries = 0]
<1>0. /\ s.next \in Nat /\ s.reachable \in Seq(Endpoint) /\ 1 <= s.next /\ s.next <= Peers /\ Peers \in Nat
      /\ Len(s.reachable) \in Nat
  BY SetupFields, Constants
<1>1. /\ done \in SetupRec /\ done.at = "probe" /\ done.next = s.next + 1 /\ done.reachable = s.reachable
      /\ done.down = s.down /\ done.canary = s.canary
  <2>1. s.next + 1 \in Nat /\ 0 \in Nat
    BY <1>0
  <2>2. done = [s EXCEPT !.next = s.next + 1, !.tries = 0]
    OBVIOUS
  <2> QED
    BY <2>1, <2>2 DEF SetupRec
<1>2. Advance(s) = IF done.next <= Peers THEN done
                   ELSE IF done.reachable = <<>> THEN [done EXCEPT !.at = "refused"]
                   ELSE [done EXCEPT !.at = "cross", !.next = 2]
  BY DEF Advance
<1> HIDE DEF done
<1>3. CASE done.next <= Peers
  <2>1. Advance(s) = done
    BY <1>2, <1>3
  <2>2. done.next \in Endpoint
    BY <1>0, <1>1, <1>3, Constants
  <2>3. \A e \in 1..(done.next - 1) : e \in done.down \/ Reached(done, e)
    BY <1>0, <1>1 DEF Reached
  <2>4. ProbingOf(done)
    BY <1>1, <2>2, <2>3 DEF ProbingOf
  <2> QED
    BY <1>1, <2>1, <2>4
<1>4. CASE ~(done.next <= Peers) /\ done.reachable = <<>>
  BY <1>2, <1>4, <1>1, Refuses
<1>5. CASE ~(done.next <= Peers) /\ done.reachable # <<>>
  <2> DEFINE q == [done EXCEPT !.at = "cross", !.next = 2]
  <2>1. Advance(s) = q
    BY <1>2, <1>5
  <2>2. /\ q \in SetupRec /\ q.at = "cross" /\ q.next = 2 /\ q.reachable = s.reachable /\ q.down = s.down
        /\ q.canary = s.canary
    BY <1>1 DEF SetupRec
  <2> HIDE DEF q
  <2>3. s.next = Peers
    BY <1>0, <1>1, <1>5
  <2>4. \A e \in Endpoint : e \in q.down \/ Reached(q, e)
    BY <1>0, <2>3, Constants, <2>2 DEF Reached
  <2>5. Len(q.reachable) >= 1
    BY <1>0, <1>1, <1>5, <2>2
  <2>6. \A i \in 1..Len(q.reachable) : i < q.next => given.key[q.reachable[i]] = given.key[q.reachable[1]]
    BY <2>2
  <2>7. ProbingOf(q)
    BY <2>2, <2>4, <2>5, <2>6 DEF ProbingOf
  <2> QED
    BY <2>1, <2>2, <2>7
<1> QED
  BY <1>3, <1>4, <1>5

(* A probe keeps what dispatch_endpoint_set has established: every *)
(* endpoint behind the cursor is reached and sound, or down. *)
LEMMA Probes ==
  ASSUME Types, Probing, Probe
  PROVE  /\ setup' \in SetupRec /\ setup'.at # "serve" /\ ProbingOf(setup') /\ faults' \in 0..MaxFaults
         /\ setup.at = "probe" /\ UNCHANGED <<given, eps, global, gate, op, val, sends, broke>>
<1> DEFINE e == setup.next
<1>0. setup \in SetupRec /\ setup.at = "probe" /\ UNCHANGED <<given, eps, global, gate, op, val, sends, broke>>
  BY DEF Probe, SetupOnly, Types
<1>1. /\ setup.next \in Nat /\ setup.tries \in Nat /\ setup.reachable \in Seq(Endpoint)
      /\ setup.down \in SUBSET Endpoint /\ setup.canary \in Key \cup {"none"}
      /\ Len(setup.reachable) \in Nat
  BY <1>0, SetupFields
<1>2. /\ e \in Endpoint
      /\ \A d \in 1..(e - 1) : d \in setup.down \/ Reached(setup, d)
      /\ \A i \in 1..Len(setup.reachable) : Sound(setup.reachable[i], setup.canary)
  BY <1>0 DEF Probing, ProbingOf
<1>3. faults' \in 0..MaxFaults
  BY Constants DEF Probe, Fault, Types
<1>4. e \in Nat /\ \A d \in 1..e : d \in 1..(e - 1) \/ d = e
  BY <1>2, Constants
<1>5. CASE /\ Peers > 1 => SelfTestPasses(e) /\ KeyProved(e)
           /\ setup' = Advance([setup EXCEPT !.reachable = Append(@, e),
                                             !.canary = IF Peers > 1 THEN Canary(e) ELSE @])
  <2> DEFINE c == IF Peers > 1 THEN Canary(e) ELSE setup.canary
  <2> DEFINE s == [setup EXCEPT !.reachable = Append(setup.reachable, e), !.canary = c]
  <2>1. setup' = Advance(s)
    BY <1>5
  <2>2. c \in Key \cup {"none"}
    BY <1>2, GivenFields, <1>1 DEF Canary
  <2>3. Sound(e, c)
    <3>1. CASE Peers > 1
      <4>1. SelfTestPasses(e) /\ KeyProved(e) /\ c = Canary(e)
        BY <1>5, <3>1
      <4>2. CASE setup.canary # "none"
        BY <4>1, <4>2 DEF Sound, Canary, KeyProved
      <4>3. CASE setup.canary = "none"
        BY <1>2, <4>1, <4>3, GivenFields DEF Canary, Key, Sound, Decrypts
      <4> QED
        BY <4>2, <4>3
    <3>2. CASE ~(Peers > 1)
      BY <3>2 DEF Sound
    <3> QED
      BY <3>1, <3>2
  <2>4. \A i \in 1..Len(setup.reachable) : Sound(setup.reachable[i], c)
    <3>1. CASE Peers > 1
      <4>1. c = Canary(e)
        BY <3>1
      <4>2. ASSUME NEW i \in 1..Len(setup.reachable) PROVE Sound(setup.reachable[i], c)
        BY <1>2, <3>1, <4>1 DEF Sound, Canary
      <4> QED
        BY <4>2
    <3>2. CASE ~(Peers > 1)
      BY <3>2 DEF Sound
    <3> QED
      BY <3>1, <3>2
  <2> HIDE DEF c
  <2>5. /\ s \in SetupRec /\ s.at = "probe" /\ s.next = e /\ s.reachable = Append(setup.reachable, e)
        /\ s.down = setup.down /\ s.canary = c
    <3>1. Append(setup.reachable, e) \in Seq(Endpoint)
      BY <1>1, <1>2
    <3> QED
      BY <1>0, <2>2, <3>1 DEF SetupRec
  <2> HIDE DEF s
  <2>6. /\ Len(s.reachable) = Len(setup.reachable) + 1 /\ s.reachable[Len(setup.reachable) + 1] = e
        /\ \A i \in 1..Len(setup.reachable) : s.reachable[i] = setup.reachable[i]
    BY <1>1, <1>2, <2>5
  <2>7. \A i \in 1..Len(s.reachable) : Sound(s.reachable[i], s.canary)
    BY <1>1, <2>3, <2>4, <2>5, <2>6
  <2>8. \A d \in 1..s.next : d \in s.down \/ Reached(s, d)
    <3>1. Reached(s, e)
      BY <1>1, <2>6 DEF Reached
    <3>2. \A d : Reached(setup, d) => Reached(s, d)
      BY <1>1, <2>6 DEF Reached
    <3> QED
      BY <1>2, <1>4, <2>5, <3>1, <3>2
  <2>9. Advance(s) \in SetupRec /\ Advance(s).at # "serve" /\ ProbingOf(Advance(s))
    BY <1>2, <2>5, <2>7, <2>8, Advances
  <2> QED
    BY <1>0, <1>3, <2>1, <2>9
<1>6. CASE setup' = IF setup.tries + 1 < ProbeAttempts
                    THEN [setup EXCEPT !.tries = @ + 1]
                    ELSE Advance([setup EXCEPT !.down = @ \cup {e}])
  <2>1. CASE setup' = [setup EXCEPT !.tries = @ + 1]
    BY <1>0, <1>1, <2>1, <1>2, <1>3 DEF SetupRec, ProbingOf, Reached
  <2>2. CASE setup' = Advance([setup EXCEPT !.down = @ \cup {e}])
    <3> DEFINE s == [setup EXCEPT !.down = @ \cup {e}]
    <3>1. /\ s \in SetupRec /\ s.at = "probe" /\ s.next = e /\ s.reachable = setup.reachable
          /\ s.down = setup.down \cup {e} /\ s.canary = setup.canary
      BY <1>0, <1>1, <1>2 DEF SetupRec
    <3>2. setup' = Advance(s)
      BY <2>2
    <3> HIDE DEF s
    <3>3. \A d \in 1..s.next : d \in s.down \/ Reached(s, d)
      BY <1>2, <1>4, <3>1 DEF Reached
    <3>4. Advance(s) \in SetupRec /\ Advance(s).at # "serve" /\ ProbingOf(Advance(s))
      BY <1>2, <3>1, <3>3, Advances
    <3> QED
      BY <1>0, <1>3, <3>2, <3>4
  <2> QED
    BY <1>6, <2>1, <2>2
<1>7. CASE setup' = [setup EXCEPT !.at = "refused"]
  BY <1>0, <1>3, <1>7, Refuses
<1> QED
  BY <1>5, <1>6, <1>7 DEF Probe

(* So does the comparison with the first endpoint that was reached. *)
LEMMA Crosses ==
  ASSUME Types, Probing, Cross
  PROVE  /\ setup' \in SetupRec /\ setup'.at # "serve" /\ ProbingOf(setup') /\ faults' \in 0..MaxFaults
         /\ setup.at = "cross" /\ UNCHANGED <<given, eps, global, gate, op, val, sends, broke>>
<1> DEFINE e == setup.reachable[setup.next]
<1>0. /\ setup \in SetupRec /\ setup.at = "cross" /\ setup.next <= Len(setup.reachable)
      /\ UNCHANGED <<given, eps, global, gate, op, val, sends, broke>>
  BY DEF Cross, SetupOnly, Types
<1>1. /\ setup.next \in Nat /\ setup.reachable \in Seq(Endpoint) /\ setup.down \in SUBSET Endpoint
      /\ Len(setup.reachable) \in Nat
  BY <1>0, SetupFields
<1>2. /\ \A d \in Endpoint : d \in setup.down \/ Reached(setup, d)
      /\ \A i \in 1..Len(setup.reachable) : Sound(setup.reachable[i], setup.canary)
      /\ setup.next >= 2 /\ Len(setup.reachable) >= 1
      /\ \A i \in 1..Len(setup.reachable) : i < setup.next =>
           setup.reachable[i] \in setup.down \/ given.key[setup.reachable[i]] = given.key[setup.reachable[1]]
  BY <1>0 DEF Probing, ProbingOf
<1>3. faults' \in 0..MaxFaults
  BY Constants DEF Cross, Fault, Types
<1>4. e \in Endpoint
  BY <1>0, <1>1, <1>2
<1>5. ASSUME NEW more \in SUBSET Endpoint, more # {} \/ given.key[e] = given.key[setup.reachable[1]],
             more \subseteq {e},
             setup' = [setup EXCEPT !.next = @ + 1, !.down = @ \cup more]
      PROVE  setup' \in SetupRec /\ setup'.at # "serve" /\ ProbingOf(setup')
  <2>1. /\ setup' \in SetupRec /\ setup'.at = "cross" /\ setup'.next = setup.next + 1
        /\ setup'.reachable = setup.reachable /\ setup'.down = setup.down \cup more
        /\ setup'.canary = setup.canary
    <3>1. setup.next + 1 \in Nat /\ setup.down \cup more \in SUBSET Endpoint
      BY <1>1
    <3>2. setup' = [setup EXCEPT !.next = setup.next + 1, !.down = setup.down \cup more]
      BY <1>5
    <3> QED
      BY <1>0, <3>1, <3>2 DEF SetupRec
  <2>2. \A i \in 1..Len(setup.reachable) : i < setup.next + 1 =>
           \/ setup.reachable[i] \in setup.down \cup more
           \/ given.key[setup.reachable[i]] = given.key[setup.reachable[1]]
    <3>1. ASSUME NEW i \in 1..Len(setup.reachable), i < setup.next + 1
          PROVE  \/ setup.reachable[i] \in setup.down \cup more
                 \/ given.key[setup.reachable[i]] = given.key[setup.reachable[1]]
      <4>1. i < setup.next \/ i = setup.next
        BY <1>1, <3>1
      <4>2. CASE i < setup.next
        BY <1>2, <4>2
      <4>3. CASE i = setup.next
        BY <1>5, <4>3
      <4> QED
        BY <4>1, <4>2, <4>3
    <3> QED
      BY <3>1
  <2>3. setup.next + 1 >= 2
    BY <1>1, <1>2
  <2>4. ProbingOf(setup')
    BY <1>2, <2>1, <2>2, <2>3 DEF ProbingOf, Reached
  <2> QED
    BY <2>1, <2>4
<1>6. CASE given.key[e] = given.key[setup.reachable[1]] /\ setup' = [setup EXCEPT !.next = @ + 1]
  <2>1. {} \in SUBSET Endpoint /\ {} \subseteq {e} /\ setup.down \cup {} = setup.down
    OBVIOUS
  <2>2. setup' = [setup EXCEPT !.next = @ + 1, !.down = @ \cup {}]
    BY <1>0, <1>6, <2>1 DEF SetupRec
  <2> QED
    BY <1>0, <1>3, <1>5, <1>6, <2>1, <2>2
<1>7. CASE setup' = [setup EXCEPT !.next = @ + 1, !.down = @ \cup {e}]
  BY <1>4, <1>0, <1>3, <1>5, <1>7
<1>8. CASE setup' = [setup EXCEPT !.at = "refused"]
  BY <1>0, <1>3, <1>8, Refuses
<1> QED
  BY <1>6, <1>7, <1>8 DEF Cross

(* The set that is built serves from the endpoints that are reached, sound *)
(* and of one key. *)
LEMMA Builds ==
  ASSUME Types, Probing, Build
  PROVE  /\ setup' \in SetupRec /\ setup'.at = "serve" /\ setup'.canary = setup.canary /\ setup.at = "cross"
         /\ eps' \in [Endpoint -> EpRec]
         /\ \A e \in Endpoint : eps'[e] \in {Endpoint0(TRUE), Endpoint0(FALSE)}
         /\ \A e \in Endpoint : eps'[e].validated =>
              Sound(e, setup.canary) /\ given.key[e] = given.key[setup.reachable[1]]
         /\ UNCHANGED <<given, global, gate, op, val, sends, broke, faults>>
<1>0. /\ setup \in SetupRec /\ setup.at = "cross" /\ setup.next > Len(setup.reachable)
      /\ setup' = [setup EXCEPT !.at = "serve", !.next = 0, !.tries = 0, !.reachable = <<>>, !.down = {}]
      /\ eps' = [e \in Endpoint |-> Endpoint0(e \notin setup.down)]
      /\ UNCHANGED <<given, global, gate, op, val, sends, broke, faults>>
  BY DEF Build, SetupOnly, Types
<1>1. setup' \in SetupRec /\ setup'.at = "serve" /\ setup'.canary = setup.canary
  <2>1. <<>> \in Seq(Endpoint) /\ {} \in SUBSET Endpoint /\ 0 \in Nat
    OBVIOUS
  <2> QED
    BY <1>0, <2>1 DEF SetupRec
<1>2. \A e \in Endpoint : eps'[e] = Endpoint0(e \notin setup.down)
  BY <1>0
<1>3. \A e \in Endpoint : eps'[e] \in {Endpoint0(TRUE), Endpoint0(FALSE)}
  <2>1. ASSUME NEW e \in Endpoint PROVE eps'[e] \in {Endpoint0(TRUE), Endpoint0(FALSE)}
    <3>1. CASE e \in setup.down
      BY <3>1, <1>2
    <3>2. CASE e \notin setup.down
      BY <3>2, <1>2
    <3> QED
      BY <3>1, <3>2
  <2> QED
    BY <2>1
<1>4. eps' \in [Endpoint -> EpRec]
  <2>1. Endpoint0(TRUE) \in EpRec /\ Endpoint0(FALSE) \in EpRec
    BY Constants, Acquires DEF Types
  <2>2. eps' = [e \in Endpoint |-> eps'[e]]
    BY <1>0
  <2> QED
    BY <1>3, <2>1, <2>2
<1>5. ASSUME NEW e \in Endpoint, eps'[e].validated
      PROVE  Sound(e, setup.canary) /\ given.key[e] = given.key[setup.reachable[1]]
  <2>1. e \notin setup.down
    <3>1. SUFFICES ASSUME e \in setup.down PROVE FALSE
      OBVIOUS
    <3>2. (e \notin setup.down) = FALSE
      BY <3>1
    <3>3. eps'[e] = Endpoint0(FALSE)
      BY <1>2, <3>2
    <3>4. ~Endpoint0(FALSE).validated
      BY DEF Endpoint0
    <3> QED
      BY <1>5, <3>3, <3>4
  <2>2. PICK i \in 1..Len(setup.reachable) : setup.reachable[i] = e
    BY <1>0, <2>1 DEF Probing, ProbingOf, Reached
  <2>3. i < setup.next
    BY <1>0, <2>2, SetupFields
  <2> QED
    BY <1>0, <2>1, <2>2, <2>3 DEF Probing, ProbingOf
<1> QED
  BY <1>0, <1>1, <1>3, <1>4, <1>5

(* Time changes nothing but that an interval is over. *)
LEMMA Cools ==
  ASSUME Types, NEW e \in Endpoint, Cool(e)
  PROVE  /\ eps' \in [Endpoint -> EpRec] /\ Flags
         /\ \A d \in Endpoint : /\ SameCircuit(d) /\ eps'[d].validating = eps[d].validating
                                /\ eps'[d].local = eps[d].local /\ eps'[d].inflight = eps[d].inflight
         /\ UNCHANGED <<given, setup, global, gate, op, val, faults, sends, broke>>
<1>0. /\ eps' = [eps EXCEPT ![e].cooled = TRUE] /\ eps \in [Endpoint -> EpRec] /\ eps[e] \in EpRec
      /\ UNCHANGED <<given, setup, global, gate, op, val, faults, sends, broke>>
  BY DEF Cool, Types
<1> DEFINE b == [eps[e] EXCEPT !.cooled = TRUE]
<1>1. /\ b \in EpRec /\ b.local = eps[e].local /\ b.inflight = eps[e].inflight /\ b.circuit = eps[e].circuit
      /\ b.probes = eps[e].probes /\ b.validated = eps[e].validated /\ b.rejected = eps[e].rejected
      /\ b.validating = eps[e].validating
  BY <1>0 DEF EpRec
<1>2. eps' = [eps EXCEPT ![e] = b]
  BY <1>0
<1> HIDE DEF b
<1>3. eps' \in [Endpoint -> EpRec] /\ eps'[e] = b /\ \A d \in Endpoint \ {e} : eps'[d] = eps[d]
  BY <1>0, <1>1, <1>2
<1> QED
  BY <1>0, <1>1, <1>3 DEF Flags, SameCircuit

(* The part of the invariant that is not about numbers *)
Core == Types /\ Fresh /\ Places /\ Sending /\ Probing /\ Vetted /\ ServingUniform

(* What an operation has established stays established while no endpoint *)
(* loses its validation. *)
LEMMA SendingLater ==
  ASSUME op' \in [Op -> OpRec], sends' \in [Op -> Seq(Endpoint)], NEW p \in Op,
         SendingOf(op'[p], sends'[p], broke'[p]),
         op'[p].ep # NoEndpoint <=> op'[p].at \in Held,
         \A d \in Endpoint : eps[d].validated => eps'[d].validated, given' = given
  PROVE  SendingOf(op[p], sends[p], broke[p])'
<1> DEFINE r == op'[p]
<1> DEFINE s == sends'[p]
<1>1. /\ r.ep \in Endpoint \cup {NoEndpoint} /\ r.todo \in Seq(Endpoint) /\ s \in Seq(Endpoint)
  BY OpFields
<1>2. r.at \in Held => r.ep \in Endpoint
  BY <1>1
<1>3. ResendSafe' = ResendSafe
  BY DEF ResendSafe
<1>4. \A i \in 1..Len(s) : s[i] \in Endpoint
  BY <1>1
<1>5. \A i \in 1..Len(r.todo) : r.todo[i] \in Endpoint
  BY <1>1
<1>6. /\ \A i \in 1..Len(s) : eps'[s[i]].validated
      /\ r.at \in {"try", "global", "recheck"} =>
           \A i \in 1..Len(r.todo) : eps'[r.todo[i]].validated /\ r.todo[i] \notin r.excluded
      /\ r.at \in Held => eps'[r.ep].validated /\ r.ep \notin r.failed
  BY <1>2, <1>4, <1>5 DEF SendingOf
<1> QED
  BY <1>3, <1>6 DEF SendingOf

(* And while the operation keeps its place. *)
LEMMA SendingStays ==
  ASSUME Types, Sending, NEW p \in Op, Agree(op[p], op'[p]), sends'[p] = sends[p], broke'[p] = broke[p]
  PROVE  SendingOf(op'[p], sends'[p], broke'[p])
  BY DEF Sending, SendingOf, Agree

(* What the steps of operation o have in common *)
NewTask(d) == ~eps[d].validating /\ eps'[d].validating /\ \E ref \in Endpoint : eps[ref].validated /\ val'[d] = Task(ref)

(* What the steps of operation o have in common. *)
OpMoves(o) ==
  /\ op' \in [Op -> OpRec] /\ eps' \in [Endpoint -> EpRec] /\ val' \in [Endpoint -> TaskRec]
  /\ faults' \in 0..MaxFaults /\ sends' \in [Op -> Seq(Endpoint)] /\ broke' \in [Op \cup Endpoint -> SUBSET Culprit]
  /\ global' \in Int
  /\ Others(o) /\ Flags
  /\ \A d \in Endpoint : (AgreeV(val[d], val'[d]) /\ eps'[d].validating = eps[d].validating) \/ NewTask(d)
  /\ op'[o].ep # NoEndpoint <=> op'[o].at \in Held
  /\ op'[o].at # "idle"
  /\ SendingOf(op'[o], sends'[o], broke'[o])
  /\ UNCHANGED <<given, setup>>

(* A quiet step concerns one operation. *)
LEMMA QuietOthers ==
  ASSUME Types, NEW o \in Op, Quiet(o), UNCHANGED <<sends, broke>>
  PROVE  /\ op' \in [Op -> OpRec] /\ Others(o) /\ \A p \in Op \ {o} : op'[p] = op[p]
  BY PlainOp DEF Quiet, Others, Agree

(* Every step of an operation is like that. *)
LEMMA OpMoving ==
  ASSUME Types, Places, Sending, NEW o \in Op, OpStep(o)
  PROVE  OpMoves(o)
<1>0. /\ global \in Int /\ op \in [Op -> OpRec] /\ eps \in [Endpoint -> EpRec] /\ val \in [Endpoint -> TaskRec]
      /\ faults \in 0..MaxFaults /\ sends \in [Op -> Seq(Endpoint)]
      /\ broke \in [Op \cup Endpoint -> SUBSET Culprit]
  BY DEF Types
<1>1. CASE QuietStep(o)
  BY <1>1, QuietSteps, QuietOthers, <1>0 DEF Flags, AgreeV, OpMoves, Quiet
<1>2. CASE StartPass(o)
  BY <1>2, PassSteps, QuietOthers, <1>0 DEF NewTask, AgreeV, OpMoves, Quiet
<1>3. ASSUME NEW e \in Endpoint, NEW l \in Int, NEW g \in Int, NEW i \in Int, Moved(o, e, l, g, i)
      PROVE  OpMoves(o)
  BY <1>0, <1>3 DEF Moved, OpMoves, Tasks
<1>4. CASE TakeStep(o)
  BY <1>3, <1>4, TakeSteps
<1>5. CASE AdmitGlobal(o)
  BY <1>3, <1>5, GlobalSteps
<1>9. CASE AdmitRecheck(o)
  BY <1>3, <1>9, RecheckSteps
<1>6. CASE Refrain(o)
  BY <1>3, <1>6, RefrainSteps
<1>7. CASE Call(o)
  BY <1>3, <1>7, CallSteps
<1>8. CASE RpcEnd(o)
  BY <1>3, <1>8, RpcSteps
<1> QED
  BY <1>1, <1>2, <1>4, <1>5, <1>6, <1>7, <1>8, <1>9, OpKinds

(* No operation moves before the set is built. *)
LEMMA OpServes ==
  ASSUME NEW o, OpStep(o)
  PROVE  setup.at = "serve" \/ op[o].at # "idle"
  BY DEF OpStep, Begin, Step, Abandon, StartPass, Admission, AdmitRegister, AdmitLook, AdmitTry, AdmitGlobal,
         AdmitRecheck, AdmitWake, Refrain, Call, Rpc, RpcOk, RpcFails, RpcContract, RpcRejected, Backoff

(* The construction is over when operations run. *)
LEMMA ProbingStays ==
  ASSUME Probing, UNCHANGED <<given, setup>>
  PROVE  Probing'
  BY DEF Probing, ProbingOf, Sound, Reached, SelfTestPasses, Decrypts

(* What condemns an endpoint stays. *)
LEMMA CondemnedStays ==
  ASSUME NEW e \in Endpoint, Condemned(e), UNCHANGED <<given, setup>>, broke[e] \subseteq broke'[e],
         \A d \in Endpoint : eps[d].validated => eps'[d].validated
  PROVE  Condemned(e)'
  BY DEF Condemned, Decrypts

(* Those who serve stay interchangeable while no flag changes. *)
LEMMA UniformStays ==
  ASSUME ServingUniform, Flags, UNCHANGED <<given, setup>>, \A d \in Endpoint : broke[d] \subseteq broke'[d]
  PROVE  ServingUniform'
<1>1. /\ \A d \in Endpoint : eps'[d].validated = eps[d].validated /\ eps'[d].rejected = eps[d].rejected
  BY DEF Flags
<1>2. /\ \A d, e \in Endpoint : eps'[d].validated /\ eps'[e].validated => given'.key[d] = given'.key[e]
  BY <1>1 DEF ServingUniform
<1>3. \A e \in Endpoint : eps'[e].validated /\ Peers > 1 => given'.key[e] # "plain" /\ Decrypts(e, setup.canary)'
  BY <1>1 DEF ServingUniform, Decrypts
<1>4. ASSUME NEW e \in Endpoint, eps'[e].rejected
      PROVE  \/ {e, Refusal} \cap broke'[e] # {} \/ given'.key[e] = "plain" \/ ~Decrypts(e, setup.canary)'
             \/ \E d \in Endpoint : eps'[d].validated /\ given'.key[d] # given'.key[e]
  BY <1>1, <1>4 DEF ServingUniform, Decrypts
<1> QED
  BY <1>2, <1>3, <1>4 DEF ServingUniform

(* The steps of operations keep Core. *)
LEMMA OpKeeps ==
  ASSUME Core, NEW o \in Op, OpStep(o)
  PROVE  Core'
<1>0. Types /\ Fresh /\ Places /\ Sending /\ Probing /\ Vetted /\ ServingUniform
  BY DEF Core
<1>1. OpMoves(o)
  BY <1>0, OpMoving
<1>2. /\ \A p \in Op \ {o} : Agree(op[p], op'[p]) /\ sends'[p] = sends[p] /\ broke'[p] = broke[p]
      /\ \A d \in Endpoint : broke'[d] = broke[d]
      /\ UNCHANGED <<given, setup>>
  BY <1>1 DEF OpMoves, Others
<1>3. /\ \A d \in Endpoint : eps'[d].validated = eps[d].validated /\ eps'[d].rejected = eps[d].rejected
  BY <1>1 DEF OpMoves, Flags
<1>4. Types'
  BY <1>0, <1>1 DEF Types, OpMoves
<1>5. Fresh'
  BY <1>0, OpServes, <1>2 DEF Fresh
<1>6. Places'
  <2>1. ASSUME NEW p \in Op
        PROVE  /\ op'[p].ep # NoEndpoint <=> op'[p].at \in Held
               /\ op'[p].at = "idle" => sends'[p] = <<>> /\ broke'[p] = {}
    <3>1. CASE p = o
      BY <1>1, <3>1 DEF OpMoves
    <3>2. CASE p # o
      BY <1>2, <3>2, <1>0 DEF Places, Agree
    <3> QED
      BY <3>1, <3>2
  <2>2. ASSUME NEW d \in Endpoint
        PROVE  /\ eps'[d].validating <=> val'[d].at # "none"
               /\ val'[d].at # "none" =>
                    val'[d].step \in 1..Steps /\ val'[d].ref \in Endpoint /\ eps'[val'[d].ref].validated
    <3>1. CASE AgreeV(val[d], val'[d]) /\ eps'[d].validating = eps[d].validating
      BY <1>0, <1>3, <3>1 DEF Places, AgreeV
    <3>2. CASE NewTask(d)
      BY <3>2, <1>3 DEF NewTask, Task, Steps
    <3> QED
      BY <1>1, <3>1, <3>2 DEF OpMoves
  <2> QED
    BY <2>1, <2>2 DEF Places
<1>7. Sending'
  <2>1. ASSUME NEW p \in Op PROVE SendingOf(op[p], sends[p], broke[p])'
    <3>1. SendingOf(op'[p], sends'[p], broke'[p])
      BY <1>1, <1>0, <1>2, SendingStays DEF OpMoves
    <3>2. op'[p].ep # NoEndpoint <=> op'[p].at \in Held
      BY <1>6 DEF Places
    <3> QED
      BY <1>1, <1>2, <1>3, <3>1, <3>2, SendingLater DEF OpMoves
  <2> QED
    BY <2>1 DEF Sending
<1>8. Probing'
  BY <1>0, <1>2, ProbingStays
<1>9. Vetted'
  <2>1. ASSUME NEW d \in Endpoint, val'[d].at # "none"
        PROVE  /\ val'[d].step > 1 => SelfTestPasses(d)'
               /\ val'[d].step > 2 => Decrypts(d, setup.canary)'
               /\ val'[d].step > 4 => Decrypts(d, given.key[val[d].ref])'
               /\ val'[d].at = "valid" => val'[d].step = Steps /\ Decrypts(val[d].ref, given.key[d])'
               /\ val'[d].at = "rejected" => Condemned(d)'
    <3>1. CASE AgreeV(val[d], val'[d])
      <4>1. Condemned(d) => Condemned(d)'
        BY <1>2, <1>3, CondemnedStays
      <4> QED
        BY <1>0, <1>2, <2>1, <3>1, <4>1 DEF Vetted, AgreeV, SelfTestPasses, Decrypts
    <3>2. CASE NewTask(d)
      BY <3>2 DEF NewTask, Task
    <3> QED
      BY <1>1, <3>1, <3>2 DEF OpMoves
  <2> QED
    BY <2>1 DEF Vetted
<1>10. ServingUniform'
  BY <1>1, <1>2, <1>0, UniformStays DEF OpMoves
<1> QED
  BY <1>4, <1>5, <1>6, <1>7, <1>8, <1>9, <1>10 DEF Core

(* What an answer of the called endpoint proves, and what a mismatch does: *)
(* exactly the comparison of that step. *)
LEMMA Outcomes ==
  ASSUME NEW e \in Endpoint
  PROVE  /\ Passed(e) => /\ val[e].step = 1 => SelfTestPasses(e)
                         /\ val[e].step = 2 => Decrypts(e, setup.canary)
                         /\ val[e].step = 4 => Decrypts(e, given.key[val[e].ref])
                         /\ val[e].step = 6 => Decrypts(val[e].ref, given.key[e])
         /\ "mismatch" \in StepOutcomes(e) =>
              \/ ~SelfTestPasses(e) \/ ~Decrypts(e, setup.canary)
              \/ ~Decrypts(e, given.key[val[e].ref]) \/ ~Decrypts(val[e].ref, given.key[e])
<1>1. CASE val[e].step = 1 /\ ~SelfTestPasses(e)
  BY <1>1 DEF StepOutcomes, Passed
<1>2. CASE val[e].step = 2 /\ ~Decrypts(e, setup.canary)
  BY <1>2 DEF StepOutcomes, Passed
<1>3. CASE val[e].step = 4 /\ ~Decrypts(e, given.key[val[e].ref])
  BY <1>3 DEF StepOutcomes, Passed
<1>4. CASE val[e].step = 6 /\ ~Decrypts(val[e].ref, given.key[e])
  BY <1>4 DEF StepOutcomes, Passed
<1>5. CASE /\ ~(val[e].step = 1 /\ ~SelfTestPasses(e))
           /\ ~(val[e].step = 2 /\ ~Decrypts(e, setup.canary))
           /\ ~(val[e].step = 4 /\ ~Decrypts(e, given.key[val[e].ref]))
           /\ ~(val[e].step = 6 /\ ~Decrypts(val[e].ref, given.key[e]))
  BY <1>5 DEF StepOutcomes
<1> QED
  BY <1>1, <1>2, <1>3, <1>4, <1>5

(* Two endpoints that decrypt what the other encrypts encrypt with one *)
(* key: a rotated key is found out by the way back. *)
LEMMA SameKey ==
  ASSUME NEW d, NEW e, Decrypts(e, given.key[d]), Decrypts(d, given.key[e])
  PROVE  given.key[d] = given.key[e]
  BY DEF Decrypts

(* What the steps of endpoint e's validation have in common *)
ValStays(e) == SameFlags(e) /\ val'[e].at \in OnWay /\ val'[e].step = val[e].step /\ val'[e].ref = val[e].ref
ValChange(e) ==
  /\ val[e].at # "none"
  /\ \E t \in Endpoint, l, g, i \in Int : ValMoved(e, t, l, g, i)
  /\ ValStays(e) \/ ValGoes(e) \/ ValStored(e)
  /\ faults' \in 0..MaxFaults /\ broke' \in [Op \cup Endpoint -> SUBSET Culprit]
  /\ \A p \in Op : broke'[p] = broke[p]
  /\ \A d \in Endpoint : broke[d] \subseteq broke'[d]

(* Every step of a validation is like that. *)
LEMMA ValChanges ==
  ASSUME Types, Places, NEW e \in Endpoint, Validation(e)
  PROVE  ValChange(e)
<1>0. faults \in 0..MaxFaults /\ broke \in [Op \cup Endpoint -> SUBSET Culprit]
  BY DEF Types
<1>1. 0 \in Int /\ 1 \in Int /\ 0 - 1 \in Int
  OBVIOUS
<1>2. CASE ValRegister(e) \/ ValWake(e)
  BY <1>2, ValRegisters, <1>0, <1>1 DEF ValChange, ValStays, OnWay
<1>3. CASE ValLocal(e)
  BY <1>3, ValLocals, <1>0, <1>1 DEF ValChange, ValStays, OnWay
<1>4. CASE ValGlobal(e)
  BY <1>4, ValGlobals, <1>0, <1>1 DEF ValChange, ValStays, OnWay
<1>5. CASE ValReturns(e)
  BY <1>5, ValDone, <1>1 DEF ValChange
<1>6. CASE ValVerdict(e)
  BY <1>6, ValStores, <1>0, <1>1 DEF ValChange, ValStored, Ended
<1> QED
  BY <1>2, <1>3, <1>4, <1>5, <1>6 DEF Validation

(* The steps of validations keep Core: who is promoted has passed all six *)
(* calls, who is rejected failed one, broke the contract itself, or was *)
(* refused by the reference. *)
LEMMA ValKeeps ==
  ASSUME Core, NEW e \in Endpoint, Validation(e)
  PROVE  Core'
<1>0. Types /\ Fresh /\ Places /\ Sending /\ Probing /\ Vetted /\ ServingUniform
  BY DEF Core
<1>1. ValChange(e)
  BY <1>0, ValChanges
<1>2. PICK t \in Endpoint, l \in Int, g \in Int, i \in Int : ValMoved(e, t, l, g, i)
  BY <1>1 DEF ValChange
<1>3. /\ op' \in [Op -> OpRec] /\ eps' \in [Endpoint -> EpRec] /\ val' \in [Endpoint -> TaskRec]
      /\ global' = global + g
      /\ \A d \in Endpoint : eps[d].validated => eps'[d].validated
      /\ \A d \in Endpoint \ {e} :
           /\ AgreeV(val[d], val'[d]) /\ eps'[d].validated = eps[d].validated /\ eps'[d].rejected = eps[d].rejected
           /\ eps'[d].validating = eps[d].validating
      /\ \A p \in Op : Agree(op[p], op'[p])
      /\ UNCHANGED <<given, setup, sends>>
  BY <1>2 DEF ValMoved
<1>4. /\ val[e].at # "none"
      /\ faults' \in 0..MaxFaults /\ broke' \in [Op \cup Endpoint -> SUBSET Culprit]
      /\ \A p \in Op : broke'[p] = broke[p]
      /\ \A d \in Endpoint : broke[d] \subseteq broke'[d]
      /\ ValStays(e) \/ ValGoes(e) \/ ValStored(e)
  BY <1>1 DEF ValChange
<1>5. /\ val[e].step \in 1..Steps /\ val[e].ref \in Endpoint /\ eps[val[e].ref].validated /\ eps[e].validating
      /\ val[e].step > 1 => SelfTestPasses(e)
      /\ val[e].step > 2 => Decrypts(e, setup.canary)
      /\ val[e].step > 4 => Decrypts(e, given.key[val[e].ref])
  BY <1>0, <1>4 DEF Places, Vetted
<1>6. Types'
  BY <1>0, <1>3, <1>4 DEF Types
<1>7. Fresh'
  BY <1>0, <1>4, <1>3 DEF Fresh
<1>8. Places'
  <2>1. ASSUME NEW p \in Op
        PROVE  /\ op'[p].ep # NoEndpoint <=> op'[p].at \in Held
               /\ op'[p].at = "idle" => sends'[p] = <<>> /\ broke'[p] = {}
    BY <1>0, <1>3, <1>4 DEF Places, Agree
  <2>2. ASSUME NEW d \in Endpoint
        PROVE  /\ eps'[d].validating <=> val'[d].at # "none"
               /\ val'[d].at # "none" =>
                    val'[d].step \in 1..Steps /\ val'[d].ref \in Endpoint /\ eps'[val'[d].ref].validated
    <3>1. CASE d # e
      BY <1>3, <3>1, <1>0 DEF Places, AgreeV
    <3>2. CASE d = e /\ ValStays(e)
      BY <1>3, <1>4, <1>5, <3>2 DEF ValStays, SameFlags, OnWay
    <3>3. CASE d = e /\ ValGoes(e)
      BY <1>3, <1>5, <3>3 DEF ValGoes, SameFlags, Steps
    <3>4. CASE d = e /\ ValStored(e)
      BY <3>4 DEF ValStored
    <3> QED
      BY <1>4, <3>1, <3>2, <3>3, <3>4
  <2> QED
    BY <2>1, <2>2 DEF Places
<1>9. Sending'
  <2>1. ASSUME NEW p \in Op PROVE SendingOf(op[p], sends[p], broke[p])'
    BY <1>0, <1>3, <1>4, SendingStays, <1>8, <1>6, SendingLater DEF Places, Types
  <2> QED
    BY <2>1 DEF Sending
<1>10. Probing'
  BY <1>0, <1>3, ProbingStays
<1>11. Vetted'
  <2>1. ASSUME NEW d \in Endpoint, val'[d].at # "none"
        PROVE  /\ val'[d].step > 1 => SelfTestPasses(d)'
               /\ val'[d].step > 2 => Decrypts(d, setup.canary)'
               /\ val'[d].step > 4 => Decrypts(d, given.key[val[d].ref])'
               /\ val'[d].at = "valid" => val'[d].step = Steps /\ Decrypts(val[d].ref, given.key[d])'
               /\ val'[d].at = "rejected" => Condemned(d)'
    <3>0. SelfTestPasses(d)' = SelfTestPasses(d) /\ Decrypts(d, setup.canary)' = Decrypts(d, setup.canary)
      BY <1>3 DEF SelfTestPasses, Decrypts
    <3>1. CASE d # e
      <4>1. Condemned(d) => Condemned(d)'
        BY <1>3, <1>4, CondemnedStays
      <4> QED
        BY <1>0, <1>3, <2>1, <3>1, <4>1 DEF Vetted, AgreeV, SelfTestPasses, Decrypts
    <3>2. CASE d = e /\ ValStays(e)
      BY <1>3, <1>5, <3>0, <3>2 DEF ValStays, OnWay, Decrypts
    <3>3. CASE d = e /\ ValGoes(e)
      <4>0. val'[e].ref = val[e].ref
        BY <3>3 DEF ValGoes
      <4>1. /\ Decrypts(d, given.key[val[d].ref])' = Decrypts(d, given.key[val[d].ref])
            /\ Decrypts(val[d].ref, given.key[d])' = Decrypts(val[d].ref, given.key[d])
        BY <1>3, <3>3, <4>0 DEF Decrypts
      <4>2. CASE Passed(e) /\ val'[e].at = "gate" /\ val'[e].step = val[e].step + 1
        BY <4>2, Outcomes, <1>5, <3>0, <3>3, <4>1 DEF Steps
      <4>3. CASE val'[e].step = val[e].step /\ val'[e].at = "valid" /\ Passed(e) /\ val[e].step = Steps
        BY <4>3, Outcomes, <1>5, <3>0, <3>3, <4>1 DEF Steps
      <4>4. CASE /\ val'[e].step = val[e].step /\ val'[e].at = "rejected"
                 /\ "mismatch" \in StepOutcomes(e) \/ {e, Refusal} \cap broke'[e] # {}
        <5>1. CASE "mismatch" \in StepOutcomes(e)
          <6>1. Condemned(e)
            BY <5>1, Outcomes, <1>5 DEF Condemned, Decrypts, SelfTestPasses
          <6> QED
            BY <1>3, <1>4, <1>5, <3>0, <3>3, <4>1, <4>4, <6>1, CondemnedStays
        <5>2. CASE {e, Refusal} \cap broke'[e] # {}
          BY <1>5, <3>0, <3>3, <4>1, <4>4, <5>2 DEF Condemned
        <5> QED
          BY <4>4, <5>1, <5>2
      <4>5. CASE val'[e].step = val[e].step /\ val'[e].at = "deferred"
        BY <1>5, <3>0, <3>3, <4>1, <4>5
      <4> QED
        BY <3>3, <4>2, <4>3, <4>4, <4>5 DEF ValGoes
    <3>4. CASE d = e /\ ValStored(e)
      BY <2>1, <3>4 DEF ValStored
    <3> QED
      BY <1>4, <3>1, <3>2, <3>3, <3>4
  <2> QED
    BY <2>1 DEF Vetted
<1>12. ServingUniform'
  <2>1. CASE eps'[e].validated = eps[e].validated /\ eps'[e].rejected = eps[e].rejected
    BY <1>3, <2>1, <1>0, <1>4, UniformStays DEF Flags
  <2>2. CASE /\ val[e].at = "valid" /\ eps'[e].validated /\ eps'[e].rejected = eps[e].rejected
    <3>1. /\ SelfTestPasses(e) /\ Decrypts(e, setup.canary) /\ Decrypts(e, given.key[val[e].ref])
          /\ Decrypts(val[e].ref, given.key[e])
      BY <1>0, <1>5, <2>2 DEF Vetted, Steps
    <3>3. given.key[e] = given.key[val[e].ref]
      BY <3>1, SameKey
    <3>4. \A d \in Endpoint : eps'[d].validated => given.key[d] = given.key[e]
      BY <1>0, <1>3, <1>5, <3>3 DEF ServingUniform
    <3>5. \A d, f \in Endpoint : eps'[d].validated /\ eps'[f].validated => given.key[d] = given.key[f]
      BY <3>4
    <3>6. \A d \in Endpoint : eps'[d].validated /\ Peers > 1 => given.key[d] # "plain" /\ Decrypts(d, setup.canary)
      BY <3>1, <1>0, <1>3 DEF SelfTestPasses, ServingUniform
    <3>7. ASSUME NEW d \in Endpoint, eps'[d].rejected
          PROVE  Condemned(d)'
      <4>1. Condemned(d)
        BY <1>0, <1>3, <2>2, <3>7 DEF ServingUniform, Condemned
      <4> QED
        BY <1>3, <1>4, <4>1, CondemnedStays
    <3>8. \A d \in Endpoint : Decrypts(d, setup.canary)' = Decrypts(d, setup.canary)
      BY <1>3 DEF Decrypts
    <3> QED
      BY <1>3, <3>5, <3>6, <3>7, <3>8 DEF ServingUniform, Condemned
  <2>3. CASE /\ val[e].at = "rejected" /\ eps'[e].validated = eps[e].validated
    <3>0. \A d \in Endpoint : eps'[d].validated = eps[d].validated
      BY <1>3, <2>3
    <3>1. Condemned(e)
      BY <1>0, <2>3 DEF Vetted
    <3>2. ASSUME NEW d \in Endpoint, eps'[d].rejected
          PROVE  Condemned(d)'
      <4>1. Condemned(d)
        BY <1>0, <1>3, <3>1, <3>2 DEF ServingUniform, Condemned
      <4> QED
        BY <1>3, <1>4, <4>1, CondemnedStays
    <3>8. \A d \in Endpoint : Decrypts(d, setup.canary)' = Decrypts(d, setup.canary)
      BY <1>3 DEF Decrypts
    <3> QED
      BY <1>0, <1>3, <3>0, <3>2, <3>8 DEF ServingUniform, Condemned
  <2>4. CASE ValStored(e)
    <3>1. eps[e].validated \in BOOLEAN /\ eps[e].rejected \in BOOLEAN
      BY <1>0, EpFields DEF Types
    <3> QED
      BY <2>1, <2>2, <2>3, <2>4, <3>1 DEF ValStored, Ended
  <2> QED
    BY <1>4, <2>1, <2>4 DEF ValStays, ValGoes, SameFlags
<1> QED
  BY <1>6, <1>7, <1>8, <1>9, <1>10, <1>11, <1>12 DEF Core

(* An endpoint as it is made. *)
LEMMA FreshFields ==
  /\ ~Endpoint0(FALSE).validated /\ ~Endpoint0(FALSE).rejected /\ ~Endpoint0(FALSE).validating
  /\ ~Endpoint0(TRUE).rejected /\ ~Endpoint0(TRUE).validating
  /\ Endpoint0(TRUE).local = 0 /\ Endpoint0(TRUE).inflight = 0 /\ Endpoint0(TRUE).circuit = "closed"
  /\ Endpoint0(TRUE).probes = 0
  /\ Endpoint0(FALSE).local = 0 /\ Endpoint0(FALSE).inflight = 0 /\ Endpoint0(FALSE).circuit = "closed"
  /\ Endpoint0(FALSE).probes = 0
  BY DEF Endpoint0

(* An operation that has not begun has sent nothing. *)
LEMMA IdleSends ==
  ASSUME Types, Places, NEW p \in Op, op[p].at = "idle"
  PROVE  SendingOf(op[p], sends[p], broke[p])
  BY DEF Places, SendingOf, Held

(* Probing and comparing keep Core. *)
LEMMA BuildingKeeps ==
  ASSUME Core, Probe \/ Cross
  PROVE  Core'
<1>0. Types /\ Fresh /\ Places /\ Sending /\ Probing /\ Vetted /\ ServingUniform
  BY DEF Core
<1>1. /\ setup' \in SetupRec /\ setup'.at # "serve" /\ ProbingOf(setup') /\ faults' \in 0..MaxFaults
      /\ setup.at \in {"probe", "cross"} /\ UNCHANGED <<given, eps, global, gate, op, val, sends, broke>>
  BY <1>0, Probes, Crosses
<1>2. /\ \A d \in Endpoint : eps[d] = Endpoint0(FALSE) /\ val[d].at = "none"
      /\ \A p \in Op : op[p].at = "idle"
  BY <1>0, <1>1 DEF Fresh
<1>3. Types'
  BY <1>0, <1>1 DEF Types
<1>4. Fresh'
  BY <1>1, <1>2 DEF Fresh
<1>5. Places'
  BY <1>0, <1>1 DEF Places
<1>6. Sending'
  BY <1>0, <1>1 DEF Sending, SendingOf, ResendSafe
<1>7. Probing'
  BY <1>1 DEF Probing, ProbingOf, Sound, Reached, SelfTestPasses, Decrypts
<1>8. Vetted'
  BY <1>1, <1>2 DEF Vetted
<1>9. ServingUniform'
  BY <1>1, <1>2, FreshFields DEF ServingUniform
<1> QED
  BY <1>3, <1>4, <1>5, <1>6, <1>7, <1>8, <1>9 DEF Core

(* Building the set keeps Core. *)
LEMMA BuildKeeps ==
  ASSUME Core, Build
  PROVE  Core'
<1>0. Types /\ Fresh /\ Places /\ Sending /\ Probing /\ Vetted /\ ServingUniform
  BY DEF Core
<1>1. /\ setup' \in SetupRec /\ setup'.at = "serve" /\ setup'.canary = setup.canary /\ setup.at = "cross"
      /\ eps' \in [Endpoint -> EpRec]
      /\ \A e \in Endpoint : eps'[e] \in {Endpoint0(TRUE), Endpoint0(FALSE)}
      /\ \A e \in Endpoint : eps'[e].validated =>
           Sound(e, setup.canary) /\ given.key[e] = given.key[setup.reachable[1]]
      /\ UNCHANGED <<given, global, gate, op, val, sends, broke, faults>>
  BY <1>0, Builds
<1>2. /\ \A d \in Endpoint : eps[d] = Endpoint0(FALSE) /\ val[d].at = "none"
      /\ \A p \in Op : op[p].at = "idle"
  BY <1>0, <1>1 DEF Fresh
<1>3. Types'
  BY <1>0, <1>1 DEF Types
<1>4. Fresh'
  BY <1>1 DEF Fresh
<1>5. Places'
  BY <1>1, FreshFields, <1>0, <1>2 DEF Places
<1>6. Sending'
  <2>1. ASSUME NEW p \in Op PROVE SendingOf(op[p], sends[p], broke[p])'
    BY <1>0, <1>1, <1>2 DEF Places, SendingOf, Held
  <2> QED
    BY <2>1 DEF Sending
<1>7. Probing'
  BY <1>1 DEF Probing, ProbingOf
<1>8. Vetted'
  BY <1>1, <1>2 DEF Vetted
<1>9. ServingUniform'
  BY <1>1, FreshFields DEF Sound, SelfTestPasses, Decrypts, ServingUniform
<1> QED
  BY <1>3, <1>4, <1>5, <1>6, <1>7, <1>8, <1>9 DEF Core

(* Time keeps Core. *)
LEMMA CoolKeeps ==
  ASSUME Core, NEW e \in Endpoint, Cool(e)
  PROVE  Core'
<1>0. Types /\ Fresh /\ Places /\ Sending /\ Probing /\ Vetted /\ ServingUniform
  BY DEF Core
<1>1. /\ eps' \in [Endpoint -> EpRec] /\ Flags
      /\ \A d \in Endpoint : eps'[d].validating = eps[d].validating
      /\ UNCHANGED <<given, setup, global, gate, op, val, faults, sends, broke>>
  BY <1>0, Cools
<1>2. \A d \in Endpoint : eps'[d].validated = eps[d].validated
  BY <1>1 DEF Flags
<1>3. Types'
  BY <1>0, <1>1 DEF Types
<1>4. Fresh'
  <2>1. setup.at = "serve"
    BY <1>0, FreshFields DEF Cool, Cooling, Fresh
  <2> QED
    BY <1>1, <2>1 DEF Fresh
<1>5. Places'
  BY <1>0, <1>1, <1>2 DEF Places
<1>6. Sending'
  <2>1. ASSUME NEW p \in Op PROVE SendingOf(op[p], sends[p], broke[p])'
    BY <1>0, <1>1, SendingStays, <1>5, <1>3, <1>2, SendingLater DEF Agree, Places, Types
  <2> QED
    BY <2>1 DEF Sending
<1>7. Probing'
  BY <1>0, <1>1, ProbingStays
<1>8. Vetted'
  BY <1>0, <1>1, <1>2, CondemnedStays DEF Vetted, SelfTestPasses, Decrypts
<1>9. ServingUniform'
  BY <1>0, <1>1, UniformStays
<1> QED
  BY <1>3, <1>4, <1>5, <1>6, <1>7, <1>8, <1>9 DEF Core

(* One if b, and nothing otherwise. *)
Bit(b) == IF b THEN 1 ELSE 0

(* Two subsets of a finite set that differ at most in x differ in number *)
(* by whether x is in them. *)
LEMMA CountMoved ==
  ASSUME NEW S, IsFiniteSet(S), NEW A \in SUBSET S, NEW B \in SUBSET S, NEW x \in S, A \ {x} = B \ {x}
  PROVE  /\ Cardinality(A) \in Nat /\ Cardinality(B) \in Nat
         /\ Cardinality(B) = Cardinality(A) - Bit(x \in A) + Bit(x \in B)
         /\ x \in A => Cardinality(A) >= 1
<1>1. IsFiniteSet(A) /\ IsFiniteSet(B) /\ IsFiniteSet(A \ {x})
  BY FS_Subset
<1>2. Cardinality(A) \in Nat /\ Cardinality(B) \in Nat /\ Cardinality(A \ {x}) \in Nat
  BY <1>1, FS_CardinalityType
<1>3. x \in A => Cardinality(A \ {x}) = Cardinality(A) - 1
  BY <1>1, FS_RemoveElement
<1>4. x \in B => Cardinality(A \ {x}) = Cardinality(B) - 1
  BY <1>1, FS_RemoveElement
<1>5. x \notin A => Cardinality(A \ {x}) = Cardinality(A)
  OBVIOUS
<1>6. x \notin B => Cardinality(A \ {x}) = Cardinality(B)
  OBVIOUS
<1>7. CASE x \in A /\ x \in B
  BY <1>2, <1>3, <1>4, <1>7 DEF Bit
<1>8. CASE x \in A /\ x \notin B
  BY <1>2, <1>3, <1>6, <1>8 DEF Bit
<1>9. CASE x \notin A /\ x \in B
  BY <1>2, <1>4, <1>5, <1>9 DEF Bit
<1>10. CASE x \notin A /\ x \notin B
  BY <1>2, <1>5, <1>6, <1>10 DEF Bit
<1> QED
  BY <1>7, <1>8, <1>9, <1>10

(* The numbers of tasks are natural numbers. *)
LEMMA SetsFinite ==
  ASSUME NEW e \in Endpoint
  PROVE  /\ Cardinality(HoldO(e)) \in Nat /\ Cardinality(HoldV(e)) \in Nat
         /\ Cardinality(RpcO(e)) \in Nat /\ Cardinality(RpcV(e)) \in Nat
         /\ Cardinality(ProbeO(e)) \in Nat /\ Cardinality(GlobO) \in Nat /\ Cardinality(GlobV) \in Nat
  BY Constants, FS_Subset, FS_CardinalityType DEF HoldO, RpcO, ProbeO, GlobO, HoldV, RpcV, GlobV

(* The sets of operations, when only operation o moves *)
LEMMA OpCounts ==
  ASSUME NEW o \in Op, \A p \in Op \ {o} : Agree(op[p], op'[p])
  PROVE  /\ Cardinality(GlobO') = Cardinality(GlobO) - Bit(op[o].at \in {"recheck", "admitted", "rpc"})
                                                     + Bit(op'[o].at \in {"recheck", "admitted", "rpc"})
         /\ \A d \in Endpoint :
              /\ Cardinality(HoldO(d)') = Cardinality(HoldO(d)) - Bit(op[o].ep = d) + Bit(op'[o].ep = d)
              /\ Cardinality(RpcO(d)') = Cardinality(RpcO(d)) - Bit(op[o].at = "rpc" /\ op[o].ep = d)
                                                              + Bit(op'[o].at = "rpc" /\ op'[o].ep = d)
<1>0. IsFiniteSet(Op)
  BY Constants
<1>1. Cardinality(GlobO') = Cardinality(GlobO) - Bit(op[o].at \in {"recheck", "admitted", "rpc"})
                                               + Bit(op'[o].at \in {"recheck", "admitted", "rpc"})
  <2> DEFINE A == GlobO
  <2> DEFINE B == GlobO'
  <2>1. A \in SUBSET Op /\ B \in SUBSET Op
    BY DEF GlobO
  <2>2. A \ {o} = B \ {o}
    BY DEF GlobO, Agree
  <2>3. (o \in A) = (op[o].at \in {"recheck", "admitted", "rpc"}) /\ (o \in B) = (op'[o].at \in {"recheck", "admitted", "rpc"})
    BY DEF GlobO
  <2> HIDE DEF A, B
  <2>4. Cardinality(B) = Cardinality(A) - Bit(o \in A) + Bit(o \in B)
    BY <1>0, <2>1, <2>2, CountMoved
  <2> QED
    BY <2>3, <2>4 DEF A, B
<1>2. ASSUME NEW d \in Endpoint
      PROVE  Cardinality(HoldO(d)') = Cardinality(HoldO(d)) - Bit(op[o].ep = d) + Bit(op'[o].ep = d)
  <2> DEFINE A == HoldO(d)
  <2> DEFINE B == HoldO(d)'
  <2>1. A \in SUBSET Op /\ B \in SUBSET Op
    BY DEF HoldO
  <2>2. A \ {o} = B \ {o}
    BY DEF HoldO, Agree
  <2>3. (o \in A) = (op[o].ep = d) /\ (o \in B) = (op'[o].ep = d)
    BY DEF HoldO
  <2> HIDE DEF A, B
  <2>4. Cardinality(B) = Cardinality(A) - Bit(o \in A) + Bit(o \in B)
    BY <1>0, <2>1, <2>2, CountMoved
  <2> QED
    BY <2>3, <2>4 DEF A, B
<1>3. ASSUME NEW d \in Endpoint
      PROVE  Cardinality(RpcO(d)') = Cardinality(RpcO(d)) - Bit(op[o].at = "rpc" /\ op[o].ep = d)
                                                          + Bit(op'[o].at = "rpc" /\ op'[o].ep = d)
  <2> DEFINE A == RpcO(d)
  <2> DEFINE B == RpcO(d)'
  <2>1. A \in SUBSET Op /\ B \in SUBSET Op
    BY DEF RpcO
  <2>2. A \ {o} = B \ {o}
    BY DEF RpcO, Agree
  <2>3. /\ (o \in A) = (op[o].at = "rpc" /\ op[o].ep = d)
        /\ (o \in B) = (op'[o].at = "rpc" /\ op'[o].ep = d)
    BY DEF RpcO
  <2> HIDE DEF A, B
  <2>4. Cardinality(B) = Cardinality(A) - Bit(o \in A) + Bit(o \in B)
    BY <1>0, <2>1, <2>2, CountMoved
  <2> QED
    BY <2>3, <2>4 DEF A, B
<1> QED
  BY <1>1, <1>2, <1>3

(* The permits of the present generation, when the circuit does not change *)
LEMMA ProbeCounts ==
  ASSUME NEW o \in Op, NEW d \in Endpoint,
         \A p \in Op \ {o} : Agree(op[p], op'[p]) /\ (op[p].ep = d => op'[p].current = op[p].current)
  PROVE  /\ Cardinality(ProbeO(d)') = Cardinality(ProbeO(d)) - Bit(o \in ProbeO(d)) + Bit(o \in ProbeO(d)')
         /\ o \in ProbeO(d) => Cardinality(ProbeO(d)) >= 1
<1> DEFINE A == ProbeO(d)
<1> DEFINE B == ProbeO(d)'
<1>1. A \in SUBSET Op /\ B \in SUBSET Op
  BY DEF ProbeO
<1>2. A \ {o} = B \ {o}
  BY DEF ProbeO, Agree
<1> HIDE DEF A, B
<1>3. Cardinality(B) = Cardinality(A) - Bit(o \in A) + Bit(o \in B) /\ (o \in A => Cardinality(A) >= 1)
  BY <1>1, <1>2, CountMoved, Constants
<1> QED
  BY <1>3 DEF A, B

(* The sets of validations, when none of them moves. *)
LEMMA TasksCount ==
  ASSUME \A d \in Endpoint : AgreeV(val[d], val'[d])
  PROVE  /\ GlobV' = GlobV
         /\ \A d \in Endpoint : HoldV(d)' = HoldV(d) /\ RpcV(d)' = RpcV(d)
  BY DEF AgreeV, Target, GlobV, HoldV, RpcV

(* The part of the invariant that is about numbers. *)
Numbers == Counts /\ Limits
(* The counts of an endpoint in the next state *)
CountsAt(d) ==
  /\ eps'[d].local = Cardinality(HoldO(d)') + Cardinality(HoldV(d)')
  /\ eps'[d].inflight = Cardinality(RpcO(d)') + Cardinality(RpcV(d)')
  /\ eps'[d].circuit = "half" => eps'[d].probes = Cardinality(ProbeO(d)')

(* And its limits. *)
LimitsAt(d) == eps'[d].local <= given.localMax /\ eps'[d].probes \in 0..HalfOpenMax

(* The numbers hold next if they hold at every endpoint. *)
LEMMA NumbersFrom ==
  ASSUME global' = Cardinality(GlobO') + Cardinality(GlobV'), global' <= given.globalMax, given' = given,
         \A d \in Endpoint : CountsAt(d) /\ LimitsAt(d)
  PROVE  Numbers'
  BY DEF Counts, CountsAt, Limits, LimitsAt, Numbers

(* The numbers, spelled out at one endpoint. *)
LEMMA NumberTypes ==
  ASSUME Types, Numbers, NEW d \in Endpoint
  PROVE  /\ global \in Int /\ eps[d].local \in Int /\ eps[d].inflight \in Int /\ eps[d].probes \in Int
         /\ HalfOpenMax \in Nat /\ HalfOpenMax >= 1 /\ given.localMax \in Int /\ given.globalMax \in Int
         /\ global = Cardinality(GlobO) + Cardinality(GlobV) /\ global <= given.globalMax
         /\ eps[d].local = Cardinality(HoldO(d)) + Cardinality(HoldV(d))
         /\ eps[d].inflight = Cardinality(RpcO(d)) + Cardinality(RpcV(d))
         /\ eps[d].circuit = "half" => eps[d].probes = Cardinality(ProbeO(d))
         /\ eps[d].local <= given.localMax /\ eps[d].probes \in 0..HalfOpenMax
  BY EpFields, Constants, GivenFields DEF Numbers, Counts, Limits, Types

(* A step of operation o at endpoint e: the permits move with it *)
LEMMA MovedCounts ==
  ASSUME Types, Numbers, NEW o \in Op, NEW e \in Endpoint, NEW l \in Int, NEW g \in Int, NEW i \in Int,
         Moved(o, e, l, g, i), {op[o].ep, op'[o].ep} \subseteq {e, NoEndpoint},
         op[o].at = "rpc" => op[o].ep = e, op'[o].at = "rpc" => op'[o].ep = e,
         l = Bit(op'[o].ep = e) - Bit(op[o].ep = e),
         g = Bit(op'[o].at \in {"recheck", "admitted", "rpc"}) - Bit(op[o].at \in {"recheck", "admitted", "rpc"}),
         i = Bit(op'[o].at = "rpc") - Bit(op[o].at = "rpc"),
         eps[e].local + l <= given.localMax, global + g <= given.globalMax,
         eps'[e].circuit = "half" => eps'[e].probes = Cardinality(ProbeO(e)'),
         eps'[e].probes \in 0..HalfOpenMax
  PROVE  Numbers'
<1>1. /\ \A p \in Op \ {o} : Agree(op[p], op'[p])
      /\ \A p \in Op \ {o} : op'[p].current = (op[p].current /\ ~(eps'[e].circuit # eps[e].circuit /\ op[p].ep = e))
      /\ \A d \in Endpoint : AgreeV(val[d], val'[d])
      /\ \A d \in Endpoint \ {e} : eps'[d] = eps[d]
      /\ global' = global + g
      /\ eps'[e].local = eps[e].local + l /\ eps'[e].inflight = eps[e].inflight + i
      /\ given' = given
  BY DEF Moved, Others, Tasks
<1>2. /\ GlobV' = GlobV
      /\ \A d \in Endpoint : HoldV(d)' = HoldV(d) /\ RpcV(d)' = RpcV(d)
  BY <1>1, TasksCount
<1>3. /\ Cardinality(GlobO') = Cardinality(GlobO) - Bit(op[o].at \in {"recheck", "admitted", "rpc"})
                                                  + Bit(op'[o].at \in {"recheck", "admitted", "rpc"})
      /\ \A d \in Endpoint :
           /\ Cardinality(HoldO(d)') = Cardinality(HoldO(d)) - Bit(op[o].ep = d) + Bit(op'[o].ep = d)
           /\ Cardinality(RpcO(d)') = Cardinality(RpcO(d)) - Bit(op[o].at = "rpc" /\ op[o].ep = d)
                                                           + Bit(op'[o].at = "rpc" /\ op'[o].ep = d)
  BY <1>1, OpCounts
<1>4. /\ global \in Int /\ given.globalMax \in Int
      /\ Cardinality(GlobO) \in Nat /\ Cardinality(GlobV) \in Nat
      /\ global = Cardinality(GlobO) + Cardinality(GlobV)
  BY NumberTypes, SetsFinite
<1>5. \A b : Bit(b) \in {0, 1}
  BY DEF Bit
<1>6. global' = Cardinality(GlobO') + Cardinality(GlobV') /\ global' <= given.globalMax
  <2> DEFINE x == Bit(op[o].at \in {"recheck", "admitted", "rpc"})
  <2> DEFINE y == Bit(op'[o].at \in {"recheck", "admitted", "rpc"})
  <2>1. x \in Int /\ y \in Int
    BY <1>5
  <2>2. g = y - x /\ Cardinality(GlobO') = Cardinality(GlobO) - x + y
    BY <1>3
  <2> HIDE DEF x, y
  <2> QED
    BY <1>1, <1>2, <1>4, <2>1, <2>2
<1>7. ASSUME NEW d \in Endpoint, d # e
      PROVE  CountsAt(d) /\ LimitsAt(d)
  <2>1. eps'[d] = eps[d]
    BY <1>1, <1>7
  <2>2. op[o].ep # d /\ op'[o].ep # d
    BY <1>7, Constants
  <2>3. Bit(op[o].ep = d) = 0 /\ Bit(op'[o].ep = d) = 0
    BY <2>2 DEF Bit
  <2>4. Bit(op[o].at = "rpc" /\ op[o].ep = d) = 0 /\ Bit(op'[o].at = "rpc" /\ op'[o].ep = d) = 0
    BY <2>2 DEF Bit
  <2>5. /\ Cardinality(HoldO(d)) \in Nat /\ Cardinality(RpcO(d)) \in Nat /\ Cardinality(ProbeO(d)) \in Nat
    BY SetsFinite
  <2>6. Cardinality(HoldO(d)') = Cardinality(HoldO(d)) /\ Cardinality(RpcO(d)') = Cardinality(RpcO(d))
    BY <1>3, <2>3, <2>4, <2>5
  <2>7. Cardinality(ProbeO(d)') = Cardinality(ProbeO(d))
    <3>1. \A p \in Op \ {o} : Agree(op[p], op'[p]) /\ (op[p].ep = d => op'[p].current = op[p].current)
      BY TypesHere, <1>1, <1>7
    <3>2. o \notin ProbeO(d) /\ o \notin ProbeO(d)'
      BY <2>2 DEF ProbeO
    <3>3. Cardinality(ProbeO(d)') = Cardinality(ProbeO(d)) - Bit(o \in ProbeO(d)) + Bit(o \in ProbeO(d)')
      BY <3>1, ProbeCounts
    <3>4. Bit(o \in ProbeO(d)) = 0 /\ Bit(o \in ProbeO(d)') = 0
      BY <3>2 DEF Bit
    <3> QED
      BY <2>5, <3>3, <3>4
  <2>8. /\ eps[d].local = Cardinality(HoldO(d)) + Cardinality(HoldV(d))
        /\ eps[d].inflight = Cardinality(RpcO(d)) + Cardinality(RpcV(d))
        /\ eps[d].circuit = "half" => eps[d].probes = Cardinality(ProbeO(d))
        /\ eps[d].local <= given.localMax /\ eps[d].probes \in 0..HalfOpenMax
    BY NumberTypes
  <2> QED
    BY <1>2, <2>1, <2>6, <2>7, <2>8 DEF CountsAt, LimitsAt
<1>8. CountsAt(e) /\ LimitsAt(e)
  <2>1. /\ eps[e].local = Cardinality(HoldO(e)) + Cardinality(HoldV(e))
        /\ eps[e].inflight = Cardinality(RpcO(e)) + Cardinality(RpcV(e))
    BY NumberTypes
  <2>2. /\ Cardinality(HoldO(e)) \in Nat /\ Cardinality(RpcO(e)) \in Nat
        /\ Cardinality(HoldV(e)) \in Nat /\ Cardinality(RpcV(e)) \in Nat
    BY SetsFinite
  <2>3. eps'[e].local = Cardinality(HoldO(e)') + Cardinality(HoldV(e)')
    <3> DEFINE x == Bit(op[o].ep = e)
    <3> DEFINE y == Bit(op'[o].ep = e)
    <3>1. x \in Int /\ y \in Int
      BY <1>5
    <3>2. l = y - x /\ Cardinality(HoldO(e)') = Cardinality(HoldO(e)) - x + y
      BY <1>3
    <3> HIDE DEF x, y
    <3> QED
      BY <1>1, <1>2, <2>1, <2>2, <3>1, <3>2
  <2>4. eps'[e].inflight = Cardinality(RpcO(e)') + Cardinality(RpcV(e)')
    <3> DEFINE x == Bit(op[o].at = "rpc")
    <3> DEFINE y == Bit(op'[o].at = "rpc")
    <3>1. x \in Int /\ y \in Int
      BY <1>5
    <3>2. Bit(op[o].at = "rpc" /\ op[o].ep = e) = x /\ Bit(op'[o].at = "rpc" /\ op'[o].ep = e) = y
      BY DEF Bit
    <3>3. i = y - x /\ Cardinality(RpcO(e)') = Cardinality(RpcO(e)) - x + y
      BY <1>3, <3>2
    <3> HIDE DEF x, y
    <3> QED
      BY <1>1, <1>2, <2>1, <2>2, <3>1, <3>3
  <2> QED
    BY <1>1, <2>3, <2>4 DEF CountsAt, LimitsAt
<1> QED
  BY <1>1, <1>6, <1>7, <1>8, NumbersFrom

(* A step that leaves the permits where they are *)
LEMMA StillCounts ==
  ASSUME Types, Numbers, UNCHANGED <<given, global>>,
         \A d \in Endpoint : eps'[d].local = eps[d].local /\ eps'[d].inflight = eps[d].inflight /\ SameCircuit(d),
         GlobO' = GlobO, GlobV' = GlobV,
         \A d \in Endpoint : HoldO(d)' = HoldO(d) /\ RpcO(d)' = RpcO(d) /\ ProbeO(d)' = ProbeO(d),
         \A d \in Endpoint : HoldV(d)' = HoldV(d) /\ RpcV(d)' = RpcV(d)
  PROVE  Numbers'
<1>1. ASSUME NEW d \in Endpoint
      PROVE  /\ CountsAt(d) /\ LimitsAt(d)
             /\ global' = Cardinality(GlobO') + Cardinality(GlobV') /\ global' <= given.globalMax
  BY NumberTypes DEF SameCircuit, CountsAt, LimitsAt
<1> QED
  BY <1>1, NumbersFrom, Constants

(* A quiet step leaves every set of operations alone. *)
LEMMA QuietCounts ==
  ASSUME Types, Places, NEW o \in Op, Quiet(o)
  PROVE  /\ GlobO' = GlobO
         /\ \A d \in Endpoint : HoldO(d)' = HoldO(d) /\ RpcO(d)' = RpcO(d) /\ ProbeO(d)' = ProbeO(d)
<1>1. /\ op' \in [Op -> OpRec] /\ \A p \in Op \ {o} : op'[p] = op[p]
  BY PlainOp DEF Quiet
<1>2. /\ op[o].at \notin {"recheck", "admitted", "rpc"} /\ op'[o].at \notin {"recheck", "admitted", "rpc"}
      /\ op[o].ep = NoEndpoint /\ op'[o].ep = NoEndpoint
  BY DEF Quiet, Held, Places
<1>3. GlobO' = GlobO
  BY <1>1, <1>2 DEF GlobO
<1>4. ASSUME NEW d \in Endpoint
      PROVE  HoldO(d)' = HoldO(d) /\ RpcO(d)' = RpcO(d) /\ ProbeO(d)' = ProbeO(d)
  BY <1>2, Constants, <1>1 DEF HoldO, RpcO, ProbeO
<1> QED
  BY <1>3, <1>4

(* Steps without a permit, and the beginning of a pass, keep the numbers. *)
LEMMA QuietNumbers ==
  ASSUME Types, Places, Sending, Numbers, NEW o \in Op, QuietStep(o) \/ StartPass(o)
  PROVE  Numbers'
<1>1. CASE QuietStep(o)
  BY <1>1, QuietSteps, QuietCounts, TasksCount, StillCounts DEF SameCircuit, AgreeV
<1>2. CASE StartPass(o)
  <2>1. /\ Quiet(o) /\ UNCHANGED <<given, setup, global, faults, sends, broke>>
        /\ \A d \in Endpoint :
             /\ eps'[d].local = eps[d].local /\ eps'[d].inflight = eps[d].inflight /\ SameCircuit(d)
             /\ val'[d] = val[d] \/ (~eps[d].validating /\ \E ref \in Endpoint : val'[d] = Task(ref))
    BY <1>2, PassSteps
  <2>2. \A d \in Endpoint : \/ val'[d] = val[d]
                            \/ val[d].at = "none" /\ val'[d].at = "gate"
    <3>1. \A d \in Endpoint : eps[d].validating <=> val[d].at # "none"
      BY DEF Places
    <3>2. \A ref : Task(ref).at = "gate"
      BY DEF Task
    <3> QED
      BY <2>1, <3>1, <3>2
  <2>3. GlobV' = GlobV
    BY <2>2 DEF GlobV
  <2>4. ASSUME NEW d \in Endpoint PROVE HoldV(d)' = HoldV(d) /\ RpcV(d)' = RpcV(d)
    BY <2>2 DEF Target, HoldV, RpcV
  <2> QED
    BY <2>1, <2>3, <2>4, QuietCounts, StillCounts
<1> QED
  BY <1>1, <1>2

(* The probes of the endpoint that an operation's step is at *)
LEMMA ProbesThere ==
  ASSUME Types, Numbers, NEW o \in Op, NEW e \in Endpoint, NEW l, NEW g, NEW i, Moved(o, e, l, g, i)
  PROVE  /\ Cardinality(ProbeO(e)) \in Nat
         /\ o \in ProbeO(e) => Cardinality(ProbeO(e)) >= 1
         /\ eps'[e].circuit = eps[e].circuit =>
              Cardinality(ProbeO(e)') = Cardinality(ProbeO(e)) - Bit(o \in ProbeO(e)) + Bit(o \in ProbeO(e)')
         /\ eps'[e].circuit # eps[e].circuit /\ o \notin ProbeO(e)' => Cardinality(ProbeO(e)') = 0
         /\ eps'[e].circuit # eps[e].circuit /\ o \in ProbeO(e)' => Cardinality(ProbeO(e)') = 1
         /\ eps[e].circuit = "half" => eps[e].probes = Cardinality(ProbeO(e))
         /\ eps[e].probes \in 0..HalfOpenMax /\ HalfOpenMax \in Nat /\ HalfOpenMax >= 1
<1>1. /\ \A p \in Op \ {o} : Agree(op[p], op'[p])
      /\ \A p \in Op \ {o} : op'[p].current = (op[p].current /\ ~(eps'[e].circuit # eps[e].circuit /\ op[p].ep = e))
      /\ \A p \in Op : op[p].current \in BOOLEAN
  BY TypesHere DEF Moved, Others
<1>2. Cardinality(ProbeO(e)) \in Nat
  BY SetsFinite
<1>3. o \in ProbeO(e) => Cardinality(ProbeO(e)) >= 1
  <2>1. SUFFICES ASSUME o \in ProbeO(e) PROVE Cardinality(ProbeO(e)) >= 1
    OBVIOUS
  <2>2. IsFiniteSet(ProbeO(e))
    BY Constants, FS_Subset DEF ProbeO
  <2>3. Cardinality(ProbeO(e)) # 0
    BY <2>1, <2>2, FS_EmptySet
  <2> QED
    BY <1>2, <2>3
<1>4. ASSUME eps'[e].circuit = eps[e].circuit
      PROVE  Cardinality(ProbeO(e)') = Cardinality(ProbeO(e)) - Bit(o \in ProbeO(e)) + Bit(o \in ProbeO(e)')
  BY <1>1, <1>4, ProbeCounts
<1>5. ASSUME eps'[e].circuit # eps[e].circuit
      PROVE  ProbeO(e)' \subseteq {o}
  BY <1>1, <1>5 DEF ProbeO, Agree
<1>6. ASSUME eps'[e].circuit # eps[e].circuit
      PROVE  /\ o \notin ProbeO(e)' => Cardinality(ProbeO(e)') = 0
             /\ o \in ProbeO(e)' => Cardinality(ProbeO(e)') = 1
  <2> DEFINE S == ProbeO(e)'
  <2>1. S \subseteq {o}
    BY <1>5, <1>6
  <2> HIDE DEF S
  <2>2. CASE o \in S
    BY <2>1, <2>2, FS_Singleton DEF S
  <2>3. CASE o \notin S
    BY <2>1, <2>3, FS_EmptySet DEF S
  <2> QED
    BY <2>2, <2>3
<1>7. /\ eps[e].circuit = "half" => eps[e].probes = Cardinality(ProbeO(e))
      /\ eps[e].probes \in 0..HalfOpenMax /\ HalfOpenMax \in Nat /\ HalfOpenMax >= 1
  BY NumberTypes
<1> QED
  BY <1>2, <1>3, <1>4, <1>6, <1>7

(* Taking an endpoint's permit keeps the numbers. *)
LEMMA TakeNumbers ==
  ASSUME Types, Places, Sending, Numbers, NEW o \in Op, TakeStep(o)
  PROVE  Numbers'
<1>1. PICK e \in Endpoint : /\ Moved(o, e, 1, 0, 0) /\ SameCircuit(e)
                            /\ eps[e].local < given.localMax
                            /\ op[o].at = "try" /\ op'[o].at = "global" /\ op'[o].ep = e
  BY TakeSteps
<1>2. op[o].ep = NoEndpoint /\ e # NoEndpoint
  BY <1>1, Constants DEF Places, Held
<1>3. o \notin ProbeO(e) /\ o \notin ProbeO(e)'
  BY <1>1 DEF ProbeO
<1>4. eps'[e].circuit = eps[e].circuit /\ eps'[e].probes = eps[e].probes
  BY <1>1 DEF SameCircuit
<1>5. /\ Cardinality(ProbeO(e)) \in Nat
      /\ Cardinality(ProbeO(e)') = Cardinality(ProbeO(e)) - Bit(o \in ProbeO(e)) + Bit(o \in ProbeO(e)')
      /\ eps[e].circuit = "half" => eps[e].probes = Cardinality(ProbeO(e))
      /\ eps[e].probes \in 0..HalfOpenMax
  BY <1>1, <1>4, ProbesThere
<1>6. /\ eps'[e].circuit = "half" => eps'[e].probes = Cardinality(ProbeO(e)')
      /\ eps'[e].probes \in 0..HalfOpenMax
  BY <1>3, <1>4, <1>5 DEF Bit
<1>7. /\ 1 = Bit(op'[o].ep = e) - Bit(op[o].ep = e)
      /\ 0 = Bit(op'[o].at \in {"recheck", "admitted", "rpc"}) - Bit(op[o].at \in {"recheck", "admitted", "rpc"})
      /\ 0 = Bit(op'[o].at = "rpc") - Bit(op[o].at = "rpc")
  BY <1>1, <1>2 DEF Bit
<1>8. eps[e].local + 1 <= given.localMax /\ global + 0 <= given.globalMax
  BY <1>1, NumberTypes
<1>9. /\ {op[o].ep, op'[o].ep} \subseteq {e, NoEndpoint}
      /\ op[o].at # "rpc" /\ op'[o].at # "rpc" /\ 1 \in Int /\ 0 \in Int
  BY <1>1, <1>2
<1> QED
  BY <1>1, <1>6, <1>7, <1>8, <1>9, MovedCounts

(* Taking the global permit, or giving the first one back, keeps the *)
(* numbers. *)
LEMMA GlobalNumbers ==
  ASSUME Types, Places, Sending, Numbers, NEW o \in Op, AdmitGlobal(o)
  PROVE  Numbers'
<1>0. PICK e \in Endpoint : op[o].ep = e
  BY GlobalSteps
<1>1. /\ op[o].at = "global" /\ e \in Endpoint /\ SameCircuit(e)
      /\ \/ /\ Moved(o, e, 0, 1, 0) /\ global < given.globalMax
            /\ op'[o].at = "recheck" /\ op'[o].ep = e
         \/ /\ Moved(o, e, 0 - 1, 0, 0)
            /\ op'[o].at = "try" /\ op'[o].ep = NoEndpoint
  BY <1>0, GlobalSteps
<1>2. e # NoEndpoint
  BY <1>1, Constants
<1>3. o \notin ProbeO(e) /\ o \notin ProbeO(e)'
  BY <1>1 DEF ProbeO
<1>4. eps'[e].circuit = eps[e].circuit /\ eps'[e].probes = eps[e].probes
  BY <1>1 DEF SameCircuit
<1>5. /\ Cardinality(ProbeO(e)) \in Nat
      /\ Cardinality(ProbeO(e)') = Cardinality(ProbeO(e)) - Bit(o \in ProbeO(e)) + Bit(o \in ProbeO(e)')
      /\ eps[e].circuit = "half" => eps[e].probes = Cardinality(ProbeO(e))
      /\ eps[e].probes \in 0..HalfOpenMax
  BY <1>1, <1>4, ProbesThere
<1>6. /\ eps'[e].circuit = "half" => eps'[e].probes = Cardinality(ProbeO(e)')
      /\ eps'[e].probes \in 0..HalfOpenMax
  BY <1>3, <1>4, <1>5 DEF Bit
<1>7. /\ {op[o].ep, op'[o].ep} \subseteq {e, NoEndpoint} /\ op[o].at # "rpc" /\ op'[o].at # "rpc"
      /\ 0 \in Int /\ 1 \in Int /\ 0 - 1 \in Int
      /\ 0 = Bit(op'[o].at = "rpc") - Bit(op[o].at = "rpc")
  BY <1>0, <1>1 DEF Bit
<1>8. CASE /\ Moved(o, e, 0, 1, 0) /\ global < given.globalMax /\ op'[o].at = "recheck" /\ op'[o].ep = e
  BY <1>0, <1>1, <1>8, NumberTypes, <1>6, <1>7, MovedCounts DEF Bit
<1>9. CASE Moved(o, e, 0 - 1, 0, 0) /\ op'[o].at = "try" /\ op'[o].ep = NoEndpoint
  BY <1>0, <1>1, <1>2, <1>9, NumberTypes, <1>6, <1>7, MovedCounts DEF Bit
<1> QED
  BY <1>1, <1>8, <1>9

(* Being admitted, or giving both permits back, keeps the numbers. *)
LEMMA RecheckNumbers ==
  ASSUME Types, Places, Sending, Numbers, NEW o \in Op, AdmitRecheck(o)
  PROVE  Numbers'
<1>0. PICK e \in Endpoint : op[o].ep = e
  BY RecheckSteps
<1>1. /\ op[o].at = "recheck" /\ e \in Endpoint /\ SameCircuit(e)
      /\ \/ /\ Moved(o, e, 0, 0, 0)
            /\ op'[o].at = "admitted" /\ op'[o].ep = e
         \/ /\ Moved(o, e, 0 - 1, 0 - 1, 0)
            /\ op'[o].at = "try" /\ op'[o].ep = NoEndpoint
  BY <1>0, RecheckSteps
<1>2. e # NoEndpoint
  BY <1>1, Constants
<1>3. o \notin ProbeO(e) /\ o \notin ProbeO(e)'
  BY <1>1 DEF ProbeO
<1>4. eps'[e].circuit = eps[e].circuit /\ eps'[e].probes = eps[e].probes
  BY <1>1 DEF SameCircuit
<1>5. /\ Cardinality(ProbeO(e)) \in Nat
      /\ Cardinality(ProbeO(e)') = Cardinality(ProbeO(e)) - Bit(o \in ProbeO(e)) + Bit(o \in ProbeO(e)')
      /\ eps[e].circuit = "half" => eps[e].probes = Cardinality(ProbeO(e))
      /\ eps[e].probes \in 0..HalfOpenMax
  BY <1>1, <1>4, ProbesThere
<1>6. /\ eps'[e].circuit = "half" => eps'[e].probes = Cardinality(ProbeO(e)')
      /\ eps'[e].probes \in 0..HalfOpenMax
  BY <1>3, <1>4, <1>5 DEF Bit
<1>7. /\ {op[o].ep, op'[o].ep} \subseteq {e, NoEndpoint} /\ op[o].at # "rpc" /\ op'[o].at # "rpc"
      /\ 0 \in Int /\ 1 \in Int /\ 0 - 1 \in Int
      /\ 0 = Bit(op'[o].at = "rpc") - Bit(op[o].at = "rpc")
  BY <1>0, <1>1 DEF Bit
<1>8. CASE /\ Moved(o, e, 0, 0, 0) /\ op'[o].at = "admitted" /\ op'[o].ep = e
  BY <1>0, <1>1, <1>8, NumberTypes, <1>6, <1>7, MovedCounts DEF Bit
<1>9. CASE Moved(o, e, 0 - 1, 0 - 1, 0) /\ op'[o].at = "try" /\ op'[o].ep = NoEndpoint
  BY <1>0, <1>1, <1>2, <1>9, NumberTypes, <1>6, <1>7, MovedCounts DEF Bit
<1> QED
  BY <1>1, <1>8, <1>9

(* Refraining from the call keeps the numbers. *)
LEMMA RefrainNumbers ==
  ASSUME Types, Places, Sending, Numbers, NEW o \in Op, Refrain(o)
  PROVE  Numbers'
<1>0. PICK e \in Endpoint : op[o].ep = e
  BY RefrainSteps
<1>1. /\ op[o].at = "admitted" /\ e \in Endpoint /\ Moved(o, e, 0 - 1, 0 - 1, 0)
      /\ op'[o].at \in {"gate", "done"} /\ op'[o].ep = NoEndpoint
      /\ \/ SameCircuit(e)
         \/ eps[e].circuit = "open" /\ eps'[e].circuit = "half" /\ eps'[e].probes = 0
  BY <1>0, RefrainSteps
<1>2. e # NoEndpoint
  BY <1>1, Constants
<1>3. o \notin ProbeO(e) /\ o \notin ProbeO(e)'
  BY <1>1 DEF ProbeO
<1>4. Bit(o \in ProbeO(e)) = 0 /\ Bit(o \in ProbeO(e)') = 0
  BY <1>3 DEF Bit
<1>5. /\ Cardinality(ProbeO(e)) \in Nat
      /\ eps'[e].circuit = eps[e].circuit =>
           Cardinality(ProbeO(e)') = Cardinality(ProbeO(e)) - Bit(o \in ProbeO(e)) + Bit(o \in ProbeO(e)')
      /\ eps'[e].circuit # eps[e].circuit => Cardinality(ProbeO(e)') = 0
      /\ eps[e].circuit = "half" => eps[e].probes = Cardinality(ProbeO(e))
      /\ eps[e].probes \in 0..HalfOpenMax /\ HalfOpenMax \in Nat
  BY <1>1, <1>3, ProbesThere
<1>6. /\ eps'[e].circuit = "half" => eps'[e].probes = Cardinality(ProbeO(e)')
      /\ eps'[e].probes \in 0..HalfOpenMax
  BY <1>4, <1>5, <1>1 DEF SameCircuit
<1>7. /\ 0 - 1 = Bit(op'[o].ep = e) - Bit(op[o].ep = e)
      /\ 0 - 1 = Bit(op'[o].at \in {"recheck", "admitted", "rpc"}) - Bit(op[o].at \in {"recheck", "admitted", "rpc"})
      /\ 0 = Bit(op'[o].at = "rpc") - Bit(op[o].at = "rpc")
  BY <1>0, <1>1, <1>2 DEF Bit
<1>8. eps[e].local + (0 - 1) <= given.localMax /\ global + (0 - 1) <= given.globalMax
  BY <1>1, NumberTypes
<1>9. /\ {op[o].ep, op'[o].ep} \subseteq {e, NoEndpoint} /\ op[o].at # "rpc" /\ op'[o].at # "rpc"
      /\ 0 \in Int /\ 0 - 1 \in Int
  BY <1>0, <1>1
<1> QED
  BY <1>1, <1>6, <1>7, <1>8, <1>9, MovedCounts

(* The call keeps the numbers: the slot it takes is its own. *)
LEMMA CallNumbers ==
  ASSUME Types, Places, Sending, Numbers, NEW o \in Op, Call(o)
  PROVE  Numbers'
<1>0. PICK e \in Endpoint : op[o].ep = e
  BY CallSteps
<1>1. /\ op[o].at = "admitted" /\ e \in Endpoint /\ Moved(o, e, 0, 0, 1)
      /\ op'[o].at = "rpc" /\ op'[o].ep = e /\ op'[o].current
      /\ \/ eps[e].circuit = "closed" /\ SameCircuit(e)
         \/ eps[e].circuit = "open" /\ eps'[e].circuit = "half" /\ eps'[e].probes = 1
         \/ /\ eps[e].circuit = "half" /\ eps'[e].circuit = "half" /\ eps[e].probes < HalfOpenMax
            /\ eps'[e].probes = eps[e].probes + 1
  BY <1>0, CallSteps
<1>3. o \notin ProbeO(e) /\ o \in ProbeO(e)'
  BY <1>0, <1>1 DEF ProbeO
<1>4. Bit(o \in ProbeO(e)) = 0 /\ Bit(o \in ProbeO(e)') = 1
  BY <1>3 DEF Bit
<1>5. /\ Cardinality(ProbeO(e)) \in Nat
      /\ eps'[e].circuit = eps[e].circuit =>
           Cardinality(ProbeO(e)') = Cardinality(ProbeO(e)) - Bit(o \in ProbeO(e)) + Bit(o \in ProbeO(e)')
      /\ eps'[e].circuit # eps[e].circuit => Cardinality(ProbeO(e)') = 1
      /\ eps[e].circuit = "half" => eps[e].probes = Cardinality(ProbeO(e))
      /\ eps[e].probes \in 0..HalfOpenMax /\ HalfOpenMax \in Nat /\ HalfOpenMax >= 1
  BY <1>1, <1>3, ProbesThere
<1>6. /\ eps'[e].circuit = "half" => eps'[e].probes = Cardinality(ProbeO(e)')
      /\ eps'[e].probes \in 0..HalfOpenMax
  BY <1>5, <1>4, <1>1 DEF SameCircuit
<1>7. /\ 0 = Bit(op'[o].ep = e) - Bit(op[o].ep = e)
      /\ 0 = Bit(op'[o].at \in {"recheck", "admitted", "rpc"}) - Bit(op[o].at \in {"recheck", "admitted", "rpc"})
      /\ 1 = Bit(op'[o].at = "rpc") - Bit(op[o].at = "rpc")
  BY <1>0, <1>1 DEF Bit
<1>8. eps[e].local + 0 <= given.localMax /\ global + 0 <= given.globalMax
  BY <1>1, NumberTypes
<1>9. /\ {op[o].ep, op'[o].ep} \subseteq {e, NoEndpoint} /\ op[o].ep = e /\ op'[o].ep = e
      /\ 0 \in Int /\ 1 \in Int
  BY <1>0, <1>1
<1> QED
  BY <1>1, <1>6, <1>7, <1>8, <1>9, MovedCounts

(* The end of a call keeps the numbers: a stale permit returns no slot, a *)
(* present one exactly its own. *)
LEMMA RpcNumbers ==
  ASSUME Types, Places, Sending, Numbers, NEW o \in Op, RpcEnd(o)
  PROVE  Numbers'
<1>0. PICK e \in Endpoint : op[o].ep = e
  BY RpcSteps
<1>1. /\ op[o].at = "rpc" /\ e \in Endpoint /\ Moved(o, e, 0 - 1, 0 - 1, 0 - 1)
      /\ op'[o].at \in {"pass", "gate", "done"} /\ op'[o].ep = NoEndpoint
      /\ ~op[o].current => SameCircuit(e)
      /\ eps[e].circuit # "half" => eps'[e].circuit # "half" /\ eps'[e].probes = eps[e].probes
      /\ op[o].current /\ eps[e].circuit = "half" =>
           \/ eps'[e].circuit = "half" /\ eps'[e].probes = eps[e].probes - 1
           \/ eps'[e].circuit = "closed" /\ eps'[e].probes = eps[e].probes - 1
           \/ eps'[e].circuit = "open" /\ eps'[e].probes = 0
  BY <1>0, RpcSteps
<1>2. e # NoEndpoint
  BY <1>1, Constants
<1>3. (op[o].current => o \in ProbeO(e)) /\ (~op[o].current => o \notin ProbeO(e)) /\ o \notin ProbeO(e)'
  BY <1>0, <1>1, <1>2 DEF ProbeO
<1>4. Bit(o \in ProbeO(e)') = 0
  BY <1>3 DEF Bit
<1>5. /\ Cardinality(ProbeO(e)) \in Nat
      /\ o \in ProbeO(e) => Cardinality(ProbeO(e)) >= 1
      /\ eps'[e].circuit = eps[e].circuit =>
           Cardinality(ProbeO(e)') = Cardinality(ProbeO(e)) - Bit(o \in ProbeO(e)) + Bit(o \in ProbeO(e)')
      /\ eps[e].circuit = "half" => eps[e].probes = Cardinality(ProbeO(e))
      /\ eps[e].probes \in 0..HalfOpenMax /\ HalfOpenMax \in Nat /\ HalfOpenMax >= 1
  BY <1>1, ProbesThere
<1>6. /\ eps'[e].circuit = "half" => eps'[e].probes = Cardinality(ProbeO(e)')
      /\ eps'[e].probes \in 0..HalfOpenMax
  <2>1. CASE eps[e].circuit # "half"
    BY <1>1, <1>5, <2>1
  <2>2. CASE eps[e].circuit = "half" /\ ~op[o].current
    BY <1>3, <2>2, <1>1, <1>4, <1>5 DEF Bit, SameCircuit
  <2>3. CASE eps[e].circuit = "half" /\ op[o].current
    BY <1>3, <1>5, <2>3, <1>4, <1>1 DEF Bit
  <2> QED
    BY <2>1, <2>2, <2>3
<1>7. /\ 0 - 1 = Bit(op'[o].ep = e) - Bit(op[o].ep = e)
      /\ 0 - 1 = Bit(op'[o].at \in {"recheck", "admitted", "rpc"}) - Bit(op[o].at \in {"recheck", "admitted", "rpc"})
      /\ 0 - 1 = Bit(op'[o].at = "rpc") - Bit(op[o].at = "rpc")
  BY <1>0, <1>1, <1>2 DEF Bit
<1>8. eps[e].local + (0 - 1) <= given.localMax /\ global + (0 - 1) <= given.globalMax
  BY <1>1, NumberTypes
<1>9. /\ {op[o].ep, op'[o].ep} \subseteq {e, NoEndpoint} /\ op[o].ep = e /\ op'[o].at # "rpc" /\ 0 - 1 \in Int
  BY <1>0, <1>1
<1> QED
  BY <1>1, <1>6, <1>7, <1>8, <1>9, MovedCounts

(* The sets of validations, when only that of endpoint e moves *)
LEMMA ValCounts ==
  ASSUME NEW e \in Endpoint, \A d \in Endpoint \ {e} : AgreeV(val[d], val'[d])
  PROVE  /\ Cardinality(GlobV') = Cardinality(GlobV) - Bit(val[e].at = "rpc") + Bit(val'[e].at = "rpc")
         /\ \A c \in Endpoint :
              /\ Cardinality(HoldV(c)') = Cardinality(HoldV(c)) - Bit(val[e].at \in {"global", "rpc"} /\ Target(e) = c)
                                             + Bit(val'[e].at \in {"global", "rpc"} /\ Target(e)' = c)
              /\ Cardinality(RpcV(c)') = Cardinality(RpcV(c)) - Bit(val[e].at = "rpc" /\ Target(e) = c)
                                             + Bit(val'[e].at = "rpc" /\ Target(e)' = c)
<1>0. IsFiniteSet(Endpoint)
  BY Constants
<1>1. \A d \in Endpoint \ {e} : Target(d)' = Target(d) /\ val'[d].at = val[d].at
  BY DEF AgreeV, Target
<1>2. Cardinality(GlobV') = Cardinality(GlobV) - Bit(val[e].at = "rpc") + Bit(val'[e].at = "rpc")
  <2> DEFINE A == GlobV
  <2> DEFINE B == GlobV'
  <2>1. A \in SUBSET Endpoint /\ B \in SUBSET Endpoint
    BY DEF GlobV
  <2>2. A \ {e} = B \ {e}
    BY <1>1 DEF GlobV
  <2>3. (e \in A) = (val[e].at = "rpc") /\ (e \in B) = (val'[e].at = "rpc")
    BY DEF GlobV
  <2> HIDE DEF A, B
  <2>4. Cardinality(B) = Cardinality(A) - Bit(e \in A) + Bit(e \in B)
    BY <1>0, <2>1, <2>2, CountMoved
  <2> QED
    BY <2>3, <2>4 DEF A, B
<1>3. ASSUME NEW c \in Endpoint
      PROVE  Cardinality(HoldV(c)') = Cardinality(HoldV(c)) - Bit(val[e].at \in {"global", "rpc"} /\ Target(e) = c)
                                             + Bit(val'[e].at \in {"global", "rpc"} /\ Target(e)' = c)
  <2> DEFINE A == HoldV(c)
  <2> DEFINE B == HoldV(c)'
  <2>1. A \in SUBSET Endpoint /\ B \in SUBSET Endpoint
    BY DEF HoldV
  <2>2. A \ {e} = B \ {e}
    BY <1>1 DEF HoldV
  <2>3. /\ (e \in A) = (val[e].at \in {"global", "rpc"} /\ Target(e) = c)
        /\ (e \in B) = (val'[e].at \in {"global", "rpc"} /\ Target(e)' = c)
    BY DEF HoldV
  <2> HIDE DEF A, B
  <2>4. Cardinality(B) = Cardinality(A) - Bit(e \in A) + Bit(e \in B)
    BY <1>0, <2>1, <2>2, CountMoved
  <2> QED
    BY <2>3, <2>4 DEF A, B
<1>4. ASSUME NEW c \in Endpoint
      PROVE  Cardinality(RpcV(c)') = Cardinality(RpcV(c)) - Bit(val[e].at = "rpc" /\ Target(e) = c)
                                             + Bit(val'[e].at = "rpc" /\ Target(e)' = c)
  <2> DEFINE A == RpcV(c)
  <2> DEFINE B == RpcV(c)'
  <2>1. A \in SUBSET Endpoint /\ B \in SUBSET Endpoint
    BY DEF RpcV
  <2>2. A \ {e} = B \ {e}
    BY <1>1 DEF RpcV
  <2>3. /\ (e \in A) = (val[e].at = "rpc" /\ Target(e) = c)
        /\ (e \in B) = (val'[e].at = "rpc" /\ Target(e)' = c)
    BY DEF RpcV
  <2> HIDE DEF A, B
  <2>4. Cardinality(B) = Cardinality(A) - Bit(e \in A) + Bit(e \in B)
    BY <1>0, <2>1, <2>2, CountMoved
  <2> QED
    BY <2>3, <2>4 DEF A, B
<1> QED
  BY <1>2, <1>3, <1>4

(* The sets of operations, when none of them moves. *)
LEMMA OpsStill ==
  ASSUME \A p \in Op : Agree(op[p], op'[p]) /\ op'[p].current = op[p].current
  PROVE  /\ GlobO' = GlobO
         /\ \A d \in Endpoint : HoldO(d)' = HoldO(d) /\ RpcO(d)' = RpcO(d) /\ ProbeO(d)' = ProbeO(d)
  BY DEF Agree, GlobO, HoldO, RpcO, ProbeO

(* A step of endpoint e's validation at endpoint t: the permits move with it *)
LEMMA ValMovedCounts ==
  ASSUME Types, Numbers, NEW e \in Endpoint, NEW t \in Endpoint, NEW l \in Int, NEW g \in Int,
         ValMoved(e, t, l, g, g),
         val[e].at \in {"global", "rpc"} => Target(e) = t,
         val'[e].at \in {"global", "rpc"} => Target(e)' = t,
         l = Bit(val'[e].at \in {"global", "rpc"}) - Bit(val[e].at \in {"global", "rpc"}),
         g = Bit(val'[e].at = "rpc") - Bit(val[e].at = "rpc"),
         eps[t].local + l <= given.localMax, global + g <= given.globalMax
  PROVE  Numbers'
<1>1. /\ \A p \in Op : Agree(op[p], op'[p]) /\ op'[p].current = op[p].current
      /\ \A d \in Endpoint \ {e} : AgreeV(val[d], val'[d])
      /\ \A d \in Endpoint \ {t} : eps'[d].local = eps[d].local /\ eps'[d].inflight = eps[d].inflight
      /\ global' = global + g /\ eps'[t].local = eps[t].local + l /\ eps'[t].inflight = eps[t].inflight + g
      /\ \A d \in Endpoint : eps'[d].circuit = eps[d].circuit /\ eps'[d].probes = eps[d].probes
      /\ given' = given
  BY DEF ValMoved, SameCircuit
<1>2. /\ GlobO' = GlobO
      /\ \A d \in Endpoint : HoldO(d)' = HoldO(d) /\ RpcO(d)' = RpcO(d) /\ ProbeO(d)' = ProbeO(d)
  BY <1>1, OpsStill
<1>3. /\ Cardinality(GlobV') = Cardinality(GlobV) - Bit(val[e].at = "rpc") + Bit(val'[e].at = "rpc")
      /\ \A c \in Endpoint :
           /\ Cardinality(HoldV(c)') = Cardinality(HoldV(c)) - Bit(val[e].at \in {"global", "rpc"} /\ Target(e) = c)
                                          + Bit(val'[e].at \in {"global", "rpc"} /\ Target(e)' = c)
           /\ Cardinality(RpcV(c)') = Cardinality(RpcV(c)) - Bit(val[e].at = "rpc" /\ Target(e) = c)
                                          + Bit(val'[e].at = "rpc" /\ Target(e)' = c)
  BY <1>1, ValCounts
<1>4. \A b : Bit(b) \in {0, 1}
  BY DEF Bit
<1>5. ASSUME NEW d \in Endpoint
      PROVE  /\ eps[d].local = Cardinality(HoldO(d)) + Cardinality(HoldV(d))
             /\ eps[d].inflight = Cardinality(RpcO(d)) + Cardinality(RpcV(d))
             /\ eps[d].circuit = "half" => eps[d].probes = Cardinality(ProbeO(d))
             /\ eps[d].local <= given.localMax /\ eps[d].probes \in 0..HalfOpenMax
             /\ global = Cardinality(GlobO) + Cardinality(GlobV)
             /\ Cardinality(HoldO(d)) \in Nat /\ Cardinality(RpcO(d)) \in Nat
             /\ Cardinality(HoldV(d)) \in Nat /\ Cardinality(RpcV(d)) \in Nat
             /\ Cardinality(GlobO) \in Nat /\ Cardinality(GlobV) \in Nat
  BY NumberTypes, SetsFinite
<1>6. global' = Cardinality(GlobO') + Cardinality(GlobV') /\ global' <= given.globalMax
  <2> DEFINE x == Bit(val[e].at = "rpc")
  <2> DEFINE y == Bit(val'[e].at = "rpc")
  <2>1. x \in Int /\ y \in Int
    BY <1>4
  <2>2. g = y - x /\ Cardinality(GlobV') = Cardinality(GlobV) - x + y
    BY <1>3
  <2> HIDE DEF x, y
  <2> QED
    BY <1>1, <1>2, <1>5, <2>1, <2>2
<1>7. ASSUME NEW d \in Endpoint, d # t
      PROVE  CountsAt(d) /\ LimitsAt(d)
  BY <1>7, <1>3, <1>5, <1>1, <1>2 DEF Bit, CountsAt, LimitsAt
<1>8. CountsAt(t) /\ LimitsAt(t)
  <2>1. eps'[t].local = Cardinality(HoldO(t)') + Cardinality(HoldV(t)')
    <3> DEFINE x == Bit(val[e].at \in {"global", "rpc"})
    <3> DEFINE y == Bit(val'[e].at \in {"global", "rpc"})
    <3>1. x \in Int /\ y \in Int
      BY <1>4
    <3>2. /\ Bit(val[e].at \in {"global", "rpc"} /\ Target(e) = t) = x
          /\ Bit(val'[e].at \in {"global", "rpc"} /\ Target(e)' = t) = y
      BY DEF Bit
    <3>3. l = y - x /\ Cardinality(HoldV(t)') = Cardinality(HoldV(t)) - x + y
      BY <1>3, <3>2
    <3> HIDE DEF x, y
    <3> QED
      BY <1>1, <1>2, <1>5, <3>1, <3>3
  <2>2. eps'[t].inflight = Cardinality(RpcO(t)') + Cardinality(RpcV(t)')
    <3> DEFINE x == Bit(val[e].at = "rpc")
    <3> DEFINE y == Bit(val'[e].at = "rpc")
    <3>1. x \in Int /\ y \in Int
      BY <1>4
    <3>2. Bit(val[e].at = "rpc" /\ Target(e) = t) = x /\ Bit(val'[e].at = "rpc" /\ Target(e)' = t) = y
      BY DEF Bit
    <3>3. g = y - x /\ Cardinality(RpcV(t)') = Cardinality(RpcV(t)) - x + y
      BY <1>3, <3>2
    <3> HIDE DEF x, y
    <3> QED
      BY <1>1, <1>2, <1>5, <3>1, <3>3
  <2> QED
    BY <1>1, <1>2, <1>5, <2>1, <2>2 DEF CountsAt, LimitsAt
<1> QED
  BY <1>1, <1>6, <1>7, <1>8, NumbersFrom

(* Every step of a validation keeps the numbers. *)
LEMMA ValNumbers ==
  ASSUME Types, Places, Numbers, NEW e \in Endpoint, Validation(e)
  PROVE  Numbers'
<1>0. /\ 0 \in Int /\ 1 \in Int /\ 0 - 1 \in Int
      /\ \A d \in Endpoint : eps[d].local \in Int /\ eps[d].local <= given.localMax /\ given.localMax \in Int
      /\ global \in Int /\ global <= given.globalMax /\ given.globalMax \in Int
  BY NumberTypes
<1>1. val'[e].step = val[e].step /\ val'[e].ref = val[e].ref => Target(e)' = Target(e)
  BY DEF Target
<1>2. CASE ValRegister(e) \/ ValWake(e)
  BY <1>2, ValRegisters, <1>0, ValMovedCounts DEF Bit
<1>3. CASE ValLocal(e)
  <2>1. PICK t \in Endpoint : t = Target(e)
    BY <1>3, ValLocals
  <2>2. /\ val[e].at = "look"
        /\ val'[e].step = val[e].step /\ val'[e].ref = val[e].ref
        /\ \/ /\ ValMoved(e, t, 1, 0, 0) /\ val'[e].at = "global"
              /\ eps[t].local < given.localMax
           \/ ValMoved(e, e, 0, 0, 0) /\ val'[e].at = "await"
    BY <1>3, <2>1, ValLocals
  <2>3. Target(e)' = t
    BY <1>1, <2>1, <2>2
  <2>4. CASE ValMoved(e, t, 1, 0, 0) /\ val'[e].at = "global" /\ eps[t].local < given.localMax
    BY <2>2, <2>4, <1>0, <2>1, <2>3, ValMovedCounts DEF Bit
  <2>5. CASE ValMoved(e, e, 0, 0, 0) /\ val'[e].at = "await"
    BY <2>2, <2>5, <1>0, ValMovedCounts DEF Bit
  <2> QED
    BY <2>2, <2>4, <2>5
<1>4. CASE ValGlobal(e)
  <2>1. PICK t \in Endpoint : t = Target(e)
    BY <1>4, ValGlobals
  <2>2. /\ val[e].at = "global"
        /\ val'[e].step = val[e].step /\ val'[e].ref = val[e].ref
        /\ \/ /\ ValMoved(e, t, 0, 1, 1) /\ val'[e].at = "rpc" /\ global < given.globalMax
           \/ ValMoved(e, t, 0 - 1, 0, 0) /\ val'[e].at = "await"
    BY <1>4, <2>1, ValGlobals
  <2>3. Target(e)' = t
    BY <1>1, <2>1, <2>2
  <2>4. CASE ValMoved(e, t, 0, 1, 1) /\ val'[e].at = "rpc" /\ global < given.globalMax
    BY <2>2, <2>4, <1>0, <2>1, <2>3, ValMovedCounts DEF Bit
  <2>5. CASE ValMoved(e, t, 0 - 1, 0, 0) /\ val'[e].at = "await"
    BY <2>2, <2>5, <1>0, <2>1, <2>3, ValMovedCounts DEF Bit
  <2> QED
    BY <2>2, <2>4, <2>5
<1>5. CASE ValReturns(e)
  BY <1>5, ValDone, <1>0, ValMovedCounts DEF ValGoes, Bit
<1>6. CASE ValVerdict(e)
  BY <1>6, ValStores, <1>0, ValMovedCounts DEF ValStored, Ended, Bit
<1> QED
  BY <1>2, <1>3, <1>4, <1>5, <1>6 DEF Validation

(* Building the set keeps the numbers. *)
LEMMA SetupNumbers ==
  ASSUME Core, Numbers, Setup
  PROVE  Numbers'
<1>0. Types /\ Fresh /\ Probing
  BY DEF Core
<1>1. UNCHANGED <<given, global, op, val>>
  BY DEF Setup, Probe, Cross, Build, SetupOnly
<1>2. \A d \in Endpoint : eps'[d].local = eps[d].local /\ eps'[d].inflight = eps[d].inflight /\ SameCircuit(d)
  <2>1. CASE Probe \/ Cross
    BY <2>1 DEF Probe, Cross, SameCircuit
  <2>2. CASE Build
    BY <1>0, <2>2, Builds, FreshFields DEF Fresh, SameCircuit
  <2> QED
    BY <2>1, <2>2 DEF Setup
<1>3. \A p \in Op : Agree(op[p], op'[p]) /\ op'[p].current = op[p].current
  BY <1>1 DEF Agree
<1>4. \A d \in Endpoint : AgreeV(val[d], val'[d])
  BY <1>1 DEF AgreeV
<1> QED
  BY <1>0, <1>1, <1>2, <1>3, <1>4, OpsStill, TasksCount, StillCounts

(* Time keeps the numbers. *)
LEMMA CoolNumbers ==
  ASSUME Types, Numbers, NEW e \in Endpoint, Cool(e)
  PROVE  Numbers'
  BY Cools, OpsStill, TasksCount, StillCounts DEF Agree, AgreeV

(* The invariant is its two parts. *)
LEMMA Split == IInv <=> Core /\ Numbers
  BY DEF IInv, Core, Numbers

(* The initial states satisfy the invariant. *)
LEMMA InitHolds == Init => IInv
<1>0. SUFFICES ASSUME Init PROVE Core /\ Numbers
  BY Split
<1>1. /\ given \in Setting /\ global = 0 /\ faults = 0
      /\ \A o \in Op : op[o] = Idle /\ sends[o] = <<>> /\ broke[o] = {}
      /\ \A e \in Endpoint : eps[e] = Endpoint0(FALSE) /\ val[e] = NoTask /\ broke[e] = {}
      /\ setup = [at |-> "probe", next |-> 1, tries |-> 0, reachable |-> <<>>, down |-> {},
                  canary |-> IF given.proof = "canary" THEN "own" ELSE "none"]
  BY <1>0 DEF Init
<1>2. /\ Idle.at = "idle" /\ Idle.ep = NoEndpoint /\ NoTask.at = "none" /\ ~Idle.current
  BY DEF Idle, NoTask
<1>3. Types
  <2>1. Idle \in OpRec
    BY DEF OpAt, Idle, OpRec
  <2>2. NoTask \in TaskRec
    BY DEF TaskRec, NoTask, Steps
  <2>3. Endpoint0(FALSE) \in EpRec
    BY Constants DEF Endpoint0, EpRec, Circuit
  <2>4. setup \in SetupRec
    BY <1>1 DEF Key, SetupRec
  <2>5. /\ eps \in [Endpoint -> EpRec] /\ op \in [Op -> OpRec] /\ val \in [Endpoint -> TaskRec]
    BY <1>0, <2>1, <2>2, <2>3 DEF Init
  <2>6. sends \in [Op -> Seq(Endpoint)] /\ broke \in [Op \cup Endpoint -> SUBSET Culprit]
    BY <1>0 DEF Init
  <2>7. faults \in 0..MaxFaults /\ global \in Int
    BY <1>1, Constants
  <2> QED
    BY <1>1, <2>4, <2>5, <2>6, <2>7 DEF Types
<1>4. Fresh
  BY <1>1, <1>2 DEF Fresh
<1>5. Places
  BY <1>1, <1>2, FreshFields DEF Places, Held
<1>6. Sending
  BY <1>1, <1>2, <1>3, <1>5, IdleSends DEF Sending
<1>7. Probing
  BY <1>1, Constants DEF Probing, ProbingOf
<1>8. Vetted
  BY <1>1, <1>2 DEF Vetted
<1>9. ServingUniform
  BY <1>1, FreshFields DEF ServingUniform
<1>10. GlobO = {} /\ GlobV = {}
  BY <1>1, <1>2 DEF GlobO, GlobV
<1>11. ASSUME NEW e \in Endpoint
       PROVE  HoldO(e) = {} /\ HoldV(e) = {} /\ RpcO(e) = {} /\ RpcV(e) = {} /\ ProbeO(e) = {}
  <2>1. e # NoEndpoint
    BY Constants
  <2> QED
    BY <1>1, <1>2, <2>1 DEF HoldO, HoldV, RpcO, RpcV, ProbeO
<1>12. Cardinality({}) = 0
  BY FS_EmptySet
<1>13. Counts
  <2>1. global = Cardinality(GlobO) + Cardinality(GlobV)
    BY <1>1, <1>10, <1>12
  <2>2. ASSUME NEW e \in Endpoint
        PROVE  /\ eps[e].local = Cardinality(HoldO(e)) + Cardinality(HoldV(e))
               /\ eps[e].inflight = Cardinality(RpcO(e)) + Cardinality(RpcV(e))
               /\ eps[e].circuit = "half" => eps[e].probes = Cardinality(ProbeO(e))
    <3>1. eps[e].local = 0 /\ eps[e].inflight = 0 /\ eps[e].circuit = "closed"
      BY <1>1, FreshFields
    <3>2. /\ Cardinality(HoldO(e)) = 0 /\ Cardinality(HoldV(e)) = 0
          /\ Cardinality(RpcO(e)) = 0 /\ Cardinality(RpcV(e)) = 0
      BY <1>11, <1>12
    <3> QED
      BY <3>1, <3>2
  <2> QED
    BY <2>1, <2>2 DEF Counts
<1>14. Limits
  <2>1. given.globalMax \in Nat /\ given.localMax \in Nat /\ HalfOpenMax \in Nat
    BY <1>3, GivenFields, Constants
  <2>2. \A e \in Endpoint : eps[e].local = 0 /\ eps[e].probes = 0
    BY <1>1, FreshFields
  <2> QED
    BY <1>1, <2>1, <2>2 DEF Limits
<1> QED
  BY <1>3, <1>4, <1>5, <1>6, <1>7, <1>8, <1>9, <1>13, <1>14 DEF Core, Numbers

(* Every step of an operation keeps the numbers. *)
LEMMA OpNumbers ==
  ASSUME Core, Numbers, NEW o \in Op, OpStep(o)
  PROVE  Numbers'
  BY OpKinds, QuietNumbers, TakeNumbers, GlobalNumbers, RecheckNumbers, RefrainNumbers, CallNumbers, RpcNumbers DEF Core

(* Every step keeps the invariant. *)
LEMMA StepHolds == IInv /\ [Next]_vars => IInv'
<1>0. SUFFICES ASSUME Core, Numbers, [Next]_vars PROVE Core' /\ Numbers'
  BY Split DEF IInv, Core, Numbers
<1>1. CASE Setup
  BY <1>0, <1>1, BuildingKeeps, BuildKeeps, SetupNumbers DEF Setup
<1>2. ASSUME NEW o \in Op, OpStep(o) PROVE Core' /\ Numbers'
  BY <1>0, <1>2, OpKeeps, OpNumbers
<1>3. ASSUME NEW e \in Endpoint, Validation(e) PROVE Core' /\ Numbers'
  BY <1>0, <1>3, ValKeeps, ValNumbers DEF Core
<1>4. ASSUME NEW e \in Endpoint, Cool(e) PROVE Core' /\ Numbers'
  BY <1>0, <1>4, CoolKeeps, CoolNumbers DEF Core
<1>5. CASE UNCHANGED vars
  <2>1. UNCHANGED <<given, setup, eps, global, op, val, faults, sends, broke>>
    BY <1>5 DEF vars
  <2>2. Types /\ Fresh /\ Places /\ Sending /\ Probing /\ Vetted /\ ServingUniform
    BY <1>0 DEF Core
  <2>3. Types' /\ Fresh' /\ Places' /\ Vetted'
    <3>1. \A d \in Endpoint : Condemned(d) => Condemned(d)'
      BY <2>1, CondemnedStays
    <3> QED
      BY <2>1, <2>2, <3>1 DEF Types, Fresh, Places, Vetted, SelfTestPasses, Decrypts
  <2>4. Sending'
    BY <2>1, <2>2 DEF Sending, SendingOf, ResendSafe
  <2>5. Probing'
    BY <2>1, <2>2, ProbingStays
  <2>6. ServingUniform'
    BY <2>1, <2>2, UniformStays DEF Flags
  <2>7. Numbers'
    BY <2>1, <1>0, <2>2, OpsStill, TasksCount, StillCounts DEF Agree, AgreeV, SameCircuit
  <2> QED
    BY <2>3, <2>2, <2>4, <2>5, <2>6, <2>7 DEF Core
<1> QED
  BY <1>0, <1>1, <1>2, <1>3, <1>4, <1>5 DEF Next, OpStep

(* The invariant holds in every reachable state. *)
THEOREM Inductive == Spec => []IInv
<1>1. Init => IInv
  BY InitHolds
<1>2. IInv /\ [Next]_vars => IInv'
  BY StepHolds
<1> QED
  BY <1>1, <1>2, PTL DEF Spec

(* Permits, in-flight counts and half-open probe slots are exactly those *)
(* of the live tasks, and within their limits, however tasks are refused, *)
(* woken, dropped or fail (endpoint.rs admit_endpoint, ActivePermit and *)
(* the guards; breaker.rs): PermitsKept is an invariant, for all *)
(* constants. *)
THEOREM PermitsAreKept == Spec => []PermitsKept
<1>1. IInv => PermitsKept
  <2>0. SUFFICES ASSUME IInv PROVE PermitsKept
    OBVIOUS
  <2>1. Types /\ Numbers /\ Counts /\ Limits
    BY <2>0 DEF IInv, Numbers
  <2>2. TypeOK
    BY <2>1, TypesHere, Constants DEF Types, EpRec, Circuit, CreditMax, Limits, TypeOK, OpAt, Held
  <2>3. GlobalHolders = Cardinality(GlobO) + Cardinality(GlobV)
    BY DEF GlobalHolders, GlobO, GlobV
  <2>4. \A e \in Endpoint : /\ HoldersOf(e) = Cardinality(HoldO(e)) + Cardinality(HoldV(e))
                            /\ CallsTo(e) = Cardinality(RpcO(e)) + Cardinality(RpcV(e))
    BY DEF HoldersOf, CallsTo, HoldO, HoldV, RpcO, RpcV
  <2> QED
    BY <2>1, <2>2, <2>3, <2>4 DEF PermitsKept, Counts, Limits, ProbeO
<1> QED
  BY <1>1, Inductive, PTL

(* The endpoints that serve encrypt with one key, one that the canary *)
(* proves, and an endpoint is rejected only if it differs, broke the *)
(* contract itself, or had its ciphertext refused by the reference *)
(* (daemon.rs dispatch_endpoint_set, endpoint.rs promote_quarantined and *)
(* ValidationProvider): ServingUniform is an invariant, for all constants. *)
THEOREM ServingStaysUniform == Spec => []ServingUniform
<1>1. IInv => ServingUniform
  BY DEF IInv
<1> QED
  BY <1>1, Inductive, PTL

(* A request goes to validated endpoints only, more than once only if *)
(* configuration and endpoints allow it, and never again to an endpoint *)
(* that broke its contract (endpoint.rs dispatch): SendsAllowed is an *)
(* invariant, for all constants. *)
THEOREM SendsAreAllowed == Spec => []SendsAllowed
<1>1. IInv => SendsAllowed
  <2>0. SUFFICES ASSUME IInv, NEW o \in Op
                 PROVE  /\ \A i \in 1..Len(sends[o]) : eps[sends[o][i]].validated
                        /\ (given.cfgSafe /\ given.capSafe) \/ Len(sends[o]) <= 1
                        /\ op[o].at = "rpc" => op[o].ep \notin broke[o]
    BY DEF SendsAllowed
  <2>1. SendingOf(op[o], sends[o], broke[o])
    BY <2>0 DEF IInv, Sending
  <2> QED
    BY <2>1 DEF SendingOf, ResendSafe, Held
<1> QED
  BY <1>1, Inductive, PTL
=============================================================================
