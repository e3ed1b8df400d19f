---------------------------- MODULE EndpointSet ----------------------------
(***************************************************************************)
(* The endpoint set (maki-crypto endpoint.rs) and how a daemon builds it    *)
(* (maki-nbdkit daemon.rs dispatch_endpoint_set): endpoints are probed and  *)
(* compared when the volume is attached; those that could not be reached    *)
(* are quarantined and validated later, in the background; a request is     *)
(* admitted to the least busy endpoint whose circuit lets it in, and fails   *)
(* over to the others as long as it may be sent again.                      *)
(*                                                                          *)
(* Operations and validations are tasks on several threads: one action is   *)
(* one stretch without an await, cut where it meets state that the others   *)
(* change (registering for a notification, taking each of the two permits,  *)
(* the circuit).  An operation may be dropped at any await, by its deadline *)
(* or its caller.  A request of an operation is one permit of each kind:    *)
(* bytes and items are one count.                                           *)
(***************************************************************************)
EXTENDS EndpointState, FiniteSets, Sequences, FiniteSetsExt

CONSTANTS
    Op,            \* operations: encrypt_batch or decrypt_batch calls
    Peers,         \* how many endpoints there are, numbered in their order
    Setting,       \* what is given: see below
    MaxAttempts,   \* passes of a bounded operation
    MaxFaults      \* bound on the calls that fail

Endpoint == 1..Peers

\* What an endpoint does with the key of the volume's data: it has it ("own"),
\* it encrypts with a newer one that the others do not have and decrypts with
\* both ("rotated"), it has another one altogether ("foreign"), or it does not
\* encrypt at all ("plain").  What proves the key: the canary of the volume,
\* its data if it is from before there were canaries, or nothing yet.
Key == {"own", "rotated", "foreign", "plain"}

ASSUME SetAssumption ==
    /\ Setting \subseteq [key     : [Endpoint -> Key],
                          proof   : {"canary", "data", "none"},
                          chunks  : [Op -> Nat],   \* requests of an operation, 0: it fits none
                          cfgSafe : BOOLEAN,       \* config.retry_safe
                          capSafe : BOOLEAN,       \* what all endpoints declare
                          bounded : BOOLEAN,       \* availability policy bounded-error
                          globalMax : Nat \ {0},   \* global_max_inflight_batches
                          localMax  : Nat \ {0}]   \* per_endpoint_max_inflight
    /\ {Peers, MaxAttempts} \subseteq Nat \ {0}
    /\ MaxFaults \in Nat
    /\ IsFiniteSet(Op) /\ Op \cap Endpoint = {}    \* tasks have names of their own

VARIABLES
    given,    \* the member of Setting this is about
    setup,    \* the construction of the set
    eps,      \* the endpoints
    global,   \* global permits taken
    gate,     \* operations at admission_gate, in order; the first one has it
    op,       \* the operations
    val,      \* the validation task of each endpoint
    faults,   \* calls that have failed
    sends,    \* history: the endpoints the present request went to, in order
    broke     \* history: endpoints that broke the contract, for each operation's
              \* request and for each candidate's validation, and there also
              \* Refusal, where the reference refused the candidate's ciphertext

vars == <<given, setup, eps, global, gate, op, val, faults, sends, broke>>

NoEndpoint == 0
Refusal == 0

Idle == [at |-> "idle", chunk |-> 0, pass |-> 0, tried |-> {}, failed |-> {}, excluded |-> {},
         todo |-> <<>>, ep |-> NoEndpoint, woken |-> FALSE, timer |-> FALSE,
         current |-> FALSE, result |-> "none"]

NoTask == [at |-> "none", step |-> 0, ref |-> NoEndpoint, woken |-> FALSE]
Task(reference) == [at |-> "gate", step |-> 1, ref |-> reference, woken |-> FALSE]

Init ==
    /\ given \in Setting
    /\ setup = [at |-> "probe", next |-> 1, tries |-> 0, reachable |-> <<>>, down |-> {},
                canary |-> IF given.proof = "canary" THEN "own" ELSE "none"]
    /\ eps = [e \in Endpoint |-> Endpoint0(FALSE)]
    /\ global = 0
    /\ gate = <<>>
    /\ op = [o \in Op |-> Idle]
    /\ val = [e \in Endpoint |-> NoTask]
    /\ faults = 0
    /\ sends = [o \in Op |-> <<>>]
    /\ broke = [t \in Op \cup Endpoint |-> {}]

\* A call that fails for a reason of its own.
Fault == faults < MaxFaults /\ faults' = faults + 1

-----------------------------------------------------------------------------
(* Building the set: dispatch_endpoint_set. *)

SetupOnly == UNCHANGED <<given, global, gate, op, val, sends, broke>>

\* A probe is repeated only if its requests may be sent again.
ProbeAttempts == IF given.capSafe THEN 3 ELSE 1

\* The next endpoint, or the comparison of those that were reached.
Advance(s) ==
    LET done == [s EXCEPT !.next = @ + 1, !.tries = 0]
    IN  IF done.next <= Peers THEN done
        ELSE IF done.reachable = <<>> THEN [done EXCEPT !.at = "refused"]
        ELSE [done EXCEPT !.at = "cross", !.next = 2]

\* provider_self_test: what round-trips unchanged is not encrypted.
SelfTestPasses(e) == given.key[e] # "plain"

\* decrypt_probe: endpoint e decrypts what was encrypted with this key.
Decrypts(e, key) == key = given.key[e] \/ (key = "own" /\ given.key[e] = "rotated")

\* verify_key_canary: whether endpoint e has the key, and the canary that is
\* published then.  A pristine volume is bound to the first endpoint it meets,
\* one with data and no canary to the first that decrypts the data.
KeyProved(e) ==
    CASE setup.canary # "none"                           -> Decrypts(e, setup.canary)
      [] setup.canary = "none" /\ given.proof = "data"   -> Decrypts(e, "own")
      [] setup.canary = "none" /\ given.proof # "data"   -> TRUE
Canary(e) == IF setup.canary # "none" THEN setup.canary ELSE given.key[e]

\* The self test and the canary, of each endpoint on its own.
Probe ==
    /\ setup.at = "probe"
    /\ LET e == setup.next
       IN  \/ /\ Peers > 1 => SelfTestPasses(e) /\ KeyProved(e)
              /\ setup' = Advance([setup EXCEPT !.reachable = Append(@, e),
                                                !.canary = IF Peers > 1 THEN Canary(e) ELSE @])
              /\ UNCHANGED faults
           \/ /\ Peers > 1 /\ Fault
              /\ setup' = IF setup.tries + 1 < ProbeAttempts
                          THEN [setup EXCEPT !.tries = @ + 1]
                          ELSE Advance([setup EXCEPT !.down = @ \cup {e}])
           \/ /\ Peers > 1 /\ ~(SelfTestPasses(e) /\ KeyProved(e))
              /\ setup' = [setup EXCEPT !.at = "refused"]
              /\ UNCHANGED faults
           \/ /\ Peers > 1 /\ Fault     \* an answer that is no transport failure
              /\ setup' = [setup EXCEPT !.at = "refused"]
    /\ SetupOnly /\ UNCHANGED eps

\* cross_endpoint_self_test of an endpoint against the first one reached.
Cross ==
    /\ setup.at = "cross" /\ setup.next <= Len(setup.reachable)
    /\ LET e == setup.reachable[setup.next]
           same == given.key[e] = given.key[setup.reachable[1]]
       IN  \/ /\ same
              /\ setup' = [setup EXCEPT !.next = @ + 1]
              /\ UNCHANGED faults
           \/ /\ Fault
              /\ setup' = [setup EXCEPT !.next = @ + 1, !.down = @ \cup {e}]
           \/ /\ ~same
              /\ setup' = [setup EXCEPT !.at = "refused"]
              /\ UNCHANGED faults
           \/ /\ Fault
              /\ setup' = [setup EXCEPT !.at = "refused"]
    /\ SetupOnly /\ UNCHANGED eps

\* EndpointSet::with_quarantine
Build ==
    /\ setup.at = "cross" /\ setup.next > Len(setup.reachable)
    /\ setup' = [setup EXCEPT !.at = "serve", !.next = 0, !.tries = 0, !.reachable = <<>>, !.down = {}]
    /\ eps' = [e \in Endpoint |-> Endpoint0(e \notin setup.down)]
    /\ SetupOnly /\ UNCHANGED faults

-----------------------------------------------------------------------------
(* Notifications and permits. *)

\* Mutant: a waiter registers when it awaits.
ListeningAtAwait(at) == at = "await"

\* Where a task is registered for capacity_changed: from `enable' on.
Listening(at) == at \in {"look", "try", "global", "recheck", "await"}

\* notify_waiters, for the operations ops and the validations vals.
WakeOps(ops) == [o \in Op |-> IF Listening(ops[o].at) THEN [ops[o] EXCEPT !.woken = TRUE] ELSE ops[o]]
WakeVals(vals) ==
    [e \in Endpoint |-> IF Listening(vals[e].at) THEN [vals[e] EXCEPT !.woken = TRUE] ELSE vals[e]]

\* A new state b of endpoint e: permits of an older generation are stale.
Stale(ops, e, b) ==
    IF b.circuit = eps[e].circuit THEN ops
    ELSE [o \in Op |-> IF ops[o].ep = e THEN [ops[o] EXCEPT !.current = FALSE] ELSE ops[o]]

\* Operation o leaves the endpoint it was admitted to: first its verdict, then
\* both permits, then the notification; n is what it goes on as.
Leave(o, b, n) ==
    LET e == op[o].ep
    IN  /\ eps' = [eps EXCEPT ![e] = [b EXCEPT !.local = @ - 1]]
        /\ global' = global - 1
        /\ op' = WakeOps(Stale([op EXCEPT ![o] = [n EXCEPT !.ep = NoEndpoint]], e, b))
        /\ val' = WakeVals(val)

Verdict(o, verdict) ==
    IF op[o].current THEN Finish(eps[op[o].ep], verdict) ELSE eps[op[o].ep]

\* InflightGuard
Returned(b) == [b EXCEPT !.inflight = @ - 1]

-----------------------------------------------------------------------------
(* Operations. *)

Serving(o) == [Idle EXCEPT !.at = "pass", !.chunk = op[o].chunk + 1]
Done(o, result) == [Idle EXCEPT !.at = "done", !.result = result]

\* encrypt_batch and decrypt_batch: the common contract, the chunks, and the
\* checks that refuse a request before anything is sent.
Begin(o) ==
    /\ setup.at = "serve" /\ op[o].at = "idle"
    /\ op' = [op EXCEPT ![o] = IF given.chunks[o] = 0 THEN Done(o, "refused") ELSE Serving(o)]
    /\ UNCHANGED <<given, setup, eps, global, gate, val, faults, sends, broke>>

\* candidates
Candidates == {e \in Endpoint : eps[e].validated /\ WouldAllow(eps[e])}

\* promote_quarantined: the endpoints whose validation starts now, against the
\* first endpoint that serves.
Quarantined ==
    {e \in Endpoint : /\ ~eps[e].validated /\ ~eps[e].rejected /\ ~eps[e].validating
                      /\ WouldAllow(eps[e])}

\* Those of them whose validation_interval is over.
Promotions == IF Candidates = {} THEN {{}} ELSE SUBSET Quarantined

\* The beginning of a pass.
StartPass(o) ==
    /\ op[o].at = "pass"
    /\ IF given.bounded /\ op[o].pass >= MaxAttempts
       THEN /\ op' = [op EXCEPT ![o] = Done(o, "exhausted")]
            /\ UNCHANGED <<eps, val, gate>>
       ELSE /\ \E promoted \in Promotions :
                /\ eps' = [e \in Endpoint |-> [eps[e] EXCEPT !.validating = @ \/ e \in promoted]]
                /\ val' = [e \in Endpoint |-> IF e \in promoted THEN Task(Min(Candidates)) ELSE val[e]]
            /\ IF Candidates # {} /\ Candidates \subseteq op[o].failed
               THEN /\ op' = [op EXCEPT ![o] = Done(o, "contract")]
                    /\ UNCHANGED gate
               ELSE /\ op' = [op EXCEPT ![o] = [@ EXCEPT !.at = "gate", !.excluded = op[o].failed]]
                    /\ gate' = Append(gate, o)
    /\ UNCHANGED <<given, setup, global, faults, sends, broke>>

(* admit_endpoint *)

\* It is the operation's turn: register, then look.
AdmitRegister(o) ==
    /\ op[o].at = "gate" /\ gate # <<>> /\ Head(gate) = o
    /\ op' = [op EXCEPT ![o] = [@ EXCEPT !.at = "look", !.woken = FALSE, !.timer = FALSE]]
    /\ UNCHANGED <<given, setup, eps, global, gate, val, faults, sends, broke>>

\* The endpoints the operation may yet use.
Eligible(o) == {e \in Endpoint : eps[e].validated /\ e \notin op[o].excluded}

\* Least in flight first, and in their order otherwise: the orders of S that are
\* sorted so, of which there is one.
Before(d, e) == eps[d].inflight < eps[e].inflight \/ (eps[d].inflight = eps[e].inflight /\ d < e)
ByLoad(S) ==
    {s \in [1..Cardinality(S) -> S] : \A i, j \in DOMAIN s : i < j => Before(s[i], s[j])}

\* After the last pass the operation fails, or it backs off.
PassOver(o) ==
    IF given.bounded /\ op[o].pass + 1 >= MaxAttempts
    THEN Done(o, "exhausted")
    ELSE [op[o] EXCEPT !.at = "backoff"]

\* The candidates; with none, the first request waits for a circuit, a later
\* one ends the pass.
AdmitLook(o) ==
    /\ op[o].at = "look"
    /\ LET ready == {e \in Eligible(o) : WouldAllow(eps[e])}
       IN  \/ /\ ready = {} /\ (sends[o] # <<>> \/ Eligible(o) = {})
              /\ op' = [op EXCEPT ![o] = PassOver(o)]
              /\ gate' = Tail(gate)
           \/ /\ ready # {} \/ (sends[o] = <<>> /\ Eligible(o) # {})
              /\ \E order \in ByLoad(ready) :
                   op' = [op EXCEPT ![o] = [@ EXCEPT !.at = "try", !.todo = order,
                                                     !.timer = \E e \in Eligible(o) : Cooling(eps[e])]]
              /\ UNCHANGED gate
    /\ UNCHANGED <<given, setup, eps, global, val, faults, sends, broke>>

\* try_acquire of the candidate's permit; after the last candidate, wait.
AdmitTry(o) ==
    /\ op[o].at = "try"
    /\ \/ /\ op[o].todo = <<>>
          /\ op' = [op EXCEPT ![o].at = "await"]
          /\ UNCHANGED eps
       \/ /\ op[o].todo # <<>>
          /\ LET e == Head(op[o].todo)
             IN  IF eps[e].local < given.localMax
                 THEN /\ eps' = [eps EXCEPT ![e].local = @ + 1]
                      /\ op' = [op EXCEPT ![o] = [@ EXCEPT !.at = "global", !.ep = e,
                                                           !.todo = Tail(op[o].todo)]]
                 ELSE /\ op' = [op EXCEPT ![o].todo = Tail(@)]
                      /\ UNCHANGED eps
    /\ UNCHANGED <<given, setup, global, gate, val, faults, sends, broke>>

\* try_acquire of the global permit; without one the local one goes back.  What
\* is given back here is not announced.
AdmitGlobal(o) ==
    /\ op[o].at = "global"
    /\ IF global < given.globalMax
       THEN /\ global' = global + 1
            /\ op' = [op EXCEPT ![o].at = "recheck"]
            /\ UNCHANGED eps
       ELSE /\ eps' = [eps EXCEPT ![op[o].ep].local = @ - 1]
            /\ op' = [op EXCEPT ![o] = [@ EXCEPT !.at = "try", !.ep = NoEndpoint]]
            /\ UNCHANGED global
    /\ UNCHANGED <<given, setup, gate, val, faults, sends, broke>>

\* The circuit once more: admitted, or both permits go back, unannounced.
AdmitRecheck(o) ==
    /\ op[o].at = "recheck"
    /\ LET e == op[o].ep
       IN  IF WouldAllow(eps[e])
           THEN /\ gate' = Tail(gate)
                /\ op' = [op EXCEPT ![o] = [@ EXCEPT !.at = "admitted", !.todo = <<>>, !.woken = FALSE,
                                                     !.timer = FALSE]]
                /\ UNCHANGED <<eps, global>>
           ELSE /\ global' = global - 1
                /\ eps' = [eps EXCEPT ![e].local = @ - 1]
                /\ op' = [op EXCEPT ![o] = [@ EXCEPT !.at = "try", !.ep = NoEndpoint]]
                /\ UNCHANGED gate
    /\ UNCHANGED <<given, setup, val, faults, sends, broke>>

\* Woken by a release, a promotion, or the end of a cooling interval.
AdmitWake(o) ==
    /\ op[o].at = "await"
    /\ op[o].woken \/ (op[o].timer /\ \E e \in Eligible(o) : eps[e].circuit = "open" /\ eps[e].cooled)
    /\ op' = [op EXCEPT ![o].at = "gate"]
    /\ UNCHANGED <<given, setup, eps, global, gate, val, faults, sends, broke>>

\* Mutant: only the configuration is asked.
ResendByConfig == given.cfgSafe

\* A request may be sent again only if the configuration and every endpoint
\* say so.  The endpoints of a daemon have the capabilities of one
\* configuration, so that common_caps never meets another compatibility id.
ResendSafe == given.cfgSafe /\ given.capSafe

\* Once admitted, the circuit's permit and the rules on sending again.
Sendable(o) == WouldAllow(eps[op[o].ep]) /\ (sends[o] # <<>> => ResendSafe)
Repeat(o) == op[o].ep \in op[o].tried
Excluding(o) == [op[o] EXCEPT !.at = "gate", !.excluded = @ \cup {op[o].ep}]
Probed(o) == Acquire(eps[op[o].ep])

\* No call is made: the circuit has changed since, the request may have reached
\* a provider, or no retry was earned and no probe is due.
Refrain(o) ==
    /\ op[o].at = "admitted"
    /\ \/ /\ ~WouldAllow(eps[op[o].ep])
          /\ Leave(o, eps[op[o].ep], [op[o] EXCEPT !.at = "gate"])
          /\ gate' = Append(gate, o)
       \/ /\ WouldAllow(eps[op[o].ep]) /\ (~Sendable(o) \/ (Repeat(o) /\ ~Earned(eps[op[o].ep])))
          /\ Leave(o, Finish(Probed(o), "none"), IF Sendable(o) THEN Excluding(o) ELSE Done(o, "unsafe"))
          /\ gate' = IF Sendable(o) THEN Append(gate, o) ELSE gate
    /\ UNCHANGED <<given, setup, faults, sends, broke>>

Call(o) ==
    /\ op[o].at = "admitted" /\ Sendable(o)
    /\ LET e == op[o].ep
           b == IF Repeat(o) THEN ChargeRetry(Probed(o)) ELSE NoteRequest(Probed(o))
       IN  /\ eps' = [eps EXCEPT ![e] = [b EXCEPT !.inflight = @ + 1]]
           /\ op' = [Stale(op, e, b) EXCEPT ![o] = [Excluding(o) EXCEPT !.at = "rpc", !.current = TRUE,
                                                                         !.tried = @ \cup {e}]]
           /\ sends' = [sends EXCEPT ![o] = Append(@, e)]
    /\ UNCHANGED <<given, setup, global, gate, val, faults, broke>>

\* The request goes on to another endpoint of this pass.
NextEndpoint(o) == [op[o] EXCEPT !.at = "gate"]

\* The endpoint answers: the next chunk, or the end.
RpcOk(o) ==
    /\ op[o].at = "rpc"
    /\ LET more == op[o].chunk < given.chunks[o]
       IN  /\ Leave(o, Returned(Verdict(o, "success")), IF more THEN Serving(o) ELSE Done(o, "ok"))
           /\ sends' = IF more THEN [sends EXCEPT ![o] = <<>>] ELSE sends
           /\ broke' = IF more THEN [broke EXCEPT ![o] = {}] ELSE broke
    /\ UNCHANGED <<given, setup, gate, faults>>

\* Retryable, Throttled or, of an endpoint that is unusable, EndpointFatal.
RpcFails(o) ==
    /\ op[o].at = "rpc" /\ Fault
    /\ \E verdict \in {"failure", "fatal"} :
        LET b == Returned(Verdict(o, verdict))
        IN  IF ResendSafe
            THEN Leave(o, b, NextEndpoint(o)) /\ gate' = Append(gate, o)
            ELSE Leave(o, b, Done(o, "failed")) /\ UNCHANGED gate
    /\ UNCHANGED <<given, setup, sends, broke>>

\* Endpoints that this operation is never sent to again.
ContractFailed(o) == op[o].failed \cup {op[o].ep}

\* The answer breaks the contract: only an endpoint that was not tried helps.
RpcContract(o) ==
    /\ op[o].at = "rpc" /\ Fault
    /\ LET b == Returned(Verdict(o, "failure"))
           untried == {e \in Endpoint : /\ e \notin op[o].tried /\ eps[e].validated
                                        /\ WouldAllow(eps[e])}
       IN  IF ResendSafe /\ untried # {}
           THEN /\ Leave(o, b, [NextEndpoint(o) EXCEPT !.failed = ContractFailed(o)])
                /\ gate' = Append(gate, o)
           ELSE Leave(o, b, Done(o, "contract")) /\ UNCHANGED gate
    /\ broke' = [broke EXCEPT ![o] = @ \cup {op[o].ep}]
    /\ UNCHANGED <<given, setup, sends>>

\* The request is rejected, or the provider as a whole is unusable: no verdict.
RpcRejected(o) ==
    /\ op[o].at = "rpc" /\ Fault
    /\ Leave(o, Returned(Verdict(o, "none")), Done(o, "rejected"))
    /\ UNCHANGED <<given, setup, gate, sends, broke>>

\* The passes of an operation that retries for ever are not counted.
NextPass(o) == IF given.bounded THEN op[o].pass + 1 ELSE op[o].pass

Backoff(o) ==
    /\ op[o].at = "backoff"
    /\ op' = [op EXCEPT ![o] = [@ EXCEPT !.at = "pass", !.pass = NextPass(o)]]
    /\ UNCHANGED <<given, setup, eps, global, gate, val, faults, sends, broke>>

\* The deadline, or the caller drops the call, at an await: the permits, the
\* probe and the place at the gate go with it.
Abandon(o) ==
    /\ op[o].at \in {"gate", "await", "rpc", "backoff"}
    /\ gate' = SelectSeq(gate, LAMBDA p : p # o)
    /\ IF op[o].at = "rpc"
       THEN Leave(o, Returned(Verdict(o, "none")), Done(o, "deadline"))
       ELSE op' = [op EXCEPT ![o] = Done(o, "deadline")] /\ UNCHANGED <<eps, global, val>>
    /\ UNCHANGED <<given, setup, faults, sends, broke>>

-----------------------------------------------------------------------------
(* Validation of quarantined endpoints: the task of promote_quarantined, with *)
(* the validator of dispatch_endpoint_set and ValidationProvider.             *)

ValOnly == UNCHANGED <<given, setup, gate, sends>>

\* The calls of a validation: the candidate's own self test and the canary;
\* the reference encrypts and the candidate decrypts; the other way round.
Steps == 6
ByReference == {3, 6}
Target(e) == IF val[e].step \in ByReference THEN val[e].ref ELSE e

ValRegister(e) ==
    /\ val[e].at = "gate"
    /\ val' = [val EXCEPT ![e] = [@ EXCEPT !.at = "look", !.woken = FALSE]]
    /\ ValOnly /\ UNCHANGED <<eps, global, op, faults, broke>>

ValLocal(e) ==
    /\ val[e].at = "look"
    /\ IF eps[Target(e)].local < given.localMax
       THEN /\ eps' = [eps EXCEPT ![Target(e)].local = @ + 1]
            /\ val' = [val EXCEPT ![e].at = "global"]
       ELSE val' = [val EXCEPT ![e].at = "await"] /\ UNCHANGED eps
    /\ ValOnly /\ UNCHANGED <<global, op, faults, broke>>

\* Never wait with a permit: the local one is given back, unannounced.
ValGlobal(e) ==
    /\ val[e].at = "global"
    /\ IF global < given.globalMax
       THEN /\ global' = global + 1
            /\ eps' = [eps EXCEPT ![Target(e)].inflight = @ + 1]
            /\ val' = [val EXCEPT ![e].at = "rpc"]
       ELSE /\ eps' = [eps EXCEPT ![Target(e)].local = @ - 1]
            /\ val' = [val EXCEPT ![e].at = "await"]
            /\ UNCHANGED global
    /\ ValOnly /\ UNCHANGED <<op, faults, broke>>

ValWake(e) ==
    /\ val[e].at = "await" /\ val[e].woken
    /\ val' = [val EXCEPT ![e].at = "gate"]
    /\ ValOnly /\ UNCHANGED <<eps, global, op, faults, broke>>

\* The outcomes of a call, by the keys of the two endpoints.
StepOutcomes(e) ==
    LET ref == val[e].ref
    IN  CASE val[e].step = 1 /\ ~SelfTestPasses(e)          -> {"mismatch"}
          [] val[e].step = 2 /\ ~Decrypts(e, setup.canary)  -> {"integrity", "mismatch"}
          [] val[e].step = 4 /\ ~Decrypts(e, given.key[ref]) -> {"mismatch"}
          [] val[e].step = 6 /\ ~Decrypts(ref, given.key[e]) -> {"mismatch"}
          [] OTHER                                          -> {"ok"}

\* Mutant: a broken reference is held against the candidate.
BlamedAny(e) == TRUE

\* failure: what breaks at the reference is inconclusive for the candidate.
Blamed(e) == Target(e) = e

\* The calls by which one endpoint decrypts what the other encrypted.
CrossDecrypts == {4, 6}

\* A validation RPC ends with `outcome': its permits go back, and the next one
\* follows or the validator returns its verdict.  An answer that refuses the
\* other's ciphertext condemns the candidate, whoever gave it.
ValOutcome(e, outcome) ==
    CASE outcome = "ok" /\ val[e].step = Steps             -> "valid"
      [] outcome = "ok" /\ val[e].step # Steps             -> "gate"
      [] outcome \in {"mismatch", "refused"}               -> "rejected"
      [] outcome = "contract" /\ Blamed(e)                 -> "rejected"
      [] OTHER                                             -> "deferred"

ValEnds(e, outcome) ==
    LET t == Target(e)
        at == ValOutcome(e, outcome)
    IN  /\ global' = global - 1
        /\ eps' = [eps EXCEPT ![t] = Returned([@ EXCEPT !.local = eps[t].local - 1])]
        /\ op' = WakeOps(op)
        /\ val' = WakeVals([val EXCEPT ![e] = [@ EXCEPT !.at = at,
                                                        !.step = IF at = "gate" THEN val[e].step + 1 ELSE val[e].step]])

ValReturns(e) ==
    /\ val[e].at = "rpc"
    /\ \/ /\ \E outcome \in StepOutcomes(e) : ValEnds(e, outcome)
          /\ UNCHANGED <<faults, broke>>
       \/ /\ Fault
          /\ ValEnds(e, "transport")
          /\ UNCHANGED broke
       \/ /\ Fault
          /\ ValEnds(e, "contract")
          /\ broke' = [broke EXCEPT ![e] = @ \cup {Target(e)}]
       \/ /\ val[e].step \in CrossDecrypts /\ Fault
          /\ ValEnds(e, "refused")
          /\ broke' = [broke EXCEPT ![e] = @ \cup {IF Target(e) = e THEN e ELSE Refusal}]
    /\ ValOnly

\* The task stores the verdict, and its ValidationGuard ends and announces it.
ValVerdict(e) ==
    /\ val[e].at \in {"valid", "rejected", "deferred"}
    /\ eps' = [eps EXCEPT ![e] = [@ EXCEPT !.validated = eps[e].validated \/ val[e].at = "valid",
                                          !.rejected = eps[e].rejected \/ val[e].at = "rejected",
                                          !.validating = FALSE]]
    /\ op' = WakeOps(op)
    /\ val' = WakeVals([val EXCEPT ![e] = NoTask])
    /\ ValOnly /\ UNCHANGED <<global, faults, broke>>

-----------------------------------------------------------------------------
(* Time: an open interval ends. *)

Cool(e) ==
    /\ Cooling(eps[e])
    /\ eps' = [eps EXCEPT ![e].cooled = TRUE]
    /\ UNCHANGED <<given, setup, global, gate, op, val, faults, sends, broke>>

Setup == Probe \/ Cross \/ Build
Admission(o) == AdmitRegister(o) \/ AdmitLook(o) \/ AdmitTry(o) \/ AdmitGlobal(o) \/ AdmitRecheck(o)
                \/ AdmitWake(o)
Rpc(o) == RpcOk(o) \/ RpcFails(o) \/ RpcContract(o) \/ RpcRejected(o)
Step(o) == StartPass(o) \/ Admission(o) \/ Refrain(o) \/ Call(o) \/ Rpc(o) \/ Backoff(o)
Validation(e) == ValRegister(e) \/ ValLocal(e) \/ ValGlobal(e) \/ ValWake(e) \/ ValReturns(e)
                 \/ ValVerdict(e)

Next ==
    \/ Setup
    \/ \E o \in Op : Begin(o) \/ Step(o) \/ Abandon(o)
    \/ \E e \in Endpoint : Validation(e) \/ Cool(e)

\* The tasks run, time passes, a call to an endpoint ends at some time (its
\* transport has a timeout), and a probe of the minimum rate comes due.
Spec ==
    /\ Init /\ [][Next]_vars
    /\ \A o \in Op : WF_vars(Step(o)) /\ SF_vars(Call(o))
    /\ \A e \in Endpoint : WF_vars(Validation(e)) /\ WF_vars(Cool(e))

-----------------------------------------------------------------------------
(* Properties. *)

TypeOK ==
    /\ given \in Setting
    /\ \A e \in Endpoint : /\ eps[e].circuit \in {"closed", "open", "half"}
                           /\ eps[e].credit \in 0..(Burst * RequestsPerRetry)
                           /\ eps[e].probes \in 0..HalfOpenMax
    /\ \A o \in Op : op[o].at \in {"idle", "pass", "gate", "look", "try", "global", "recheck",
                                   "await", "admitted", "rpc", "backoff", "done"}
    /\ faults \in 0..MaxFaults

\* The tasks that hold the permit of endpoint e, or are about to ask for the
\* global one with it, and those with a call in flight.
HoldersOf(e) ==
    Cardinality({o \in Op : op[o].ep = e}) + Cardinality({d \in Endpoint : val[d].at \in {"global", "rpc"} /\ Target(d) = e})
CallsTo(e) ==
    Cardinality({o \in Op : op[o].at = "rpc" /\ op[o].ep = e})
        + Cardinality({d \in Endpoint : val[d].at = "rpc" /\ Target(d) = e})
GlobalHolders ==
    Cardinality({o \in Op : op[o].at \in {"recheck", "admitted", "rpc"}}) + Cardinality({d \in Endpoint : val[d].at = "rpc"})

\* Permits, in-flight counts and half-open probe slots are exactly those of
\* the live tasks, whichever of them were refused, woken or abandoned on the
\* way: none is lost, none is held in a backoff or in a wait, and the limits
\* hold for serving and validation together.
PermitsKept ==
    /\ TypeOK
    /\ global = GlobalHolders /\ global <= given.globalMax
    /\ \A e \in Endpoint :
        /\ eps[e].local = HoldersOf(e) /\ eps[e].local <= given.localMax
        /\ eps[e].inflight = CallsTo(e)
        /\ eps[e].circuit = "half" =>
             eps[e].probes = Cardinality({o \in Op : op[o].at = "rpc" /\ op[o].ep = e /\ op[o].current})

\* The endpoints that serve encrypt, with the same key, one that the volume's
\* canary decrypts with; and one that is rejected for good is not interchangeable
\* with them, or broke the contract itself, or had its ciphertext refused by the
\* reference: neither a race nor any other trouble of the reference decides.
ServingUniform ==
    /\ \A d, e \in Endpoint : eps[d].validated /\ eps[e].validated => given.key[d] = given.key[e]
    /\ \A e \in Endpoint : eps[e].validated /\ Peers > 1 => given.key[e] # "plain" /\ Decrypts(e, setup.canary)
    /\ \A e \in Endpoint : eps[e].rejected =>
         \/ {e, Refusal} \cap broke[e] # {} \/ given.key[e] = "plain" \/ ~Decrypts(e, setup.canary)
         \/ \E d \in Endpoint : eps[d].validated /\ given.key[d] # given.key[e]

\* A request goes to validated endpoints only; once, if the provider may not
\* be sent it again; and never again to an endpoint that broke its contract.
SendsAllowed ==
    \A o \in Op :
        /\ \A i \in 1..Len(sends[o]) : eps[sends[o][i]].validated
        /\ (given.cfgSafe /\ given.capSafe) \/ Len(sends[o]) <= 1
        /\ op[o].at = "rpc" => op[o].ep \notin broke[o]

\* Every operation ends, even one that may retry for ever, once the calls stop
\* failing: no waiter misses the permit, the promotion or the cooled circuit
\* it waits for, and no abandoned probe or validation keeps it out.
OperationsEnd == \A o \in Op : op[o].at \notin {"idle", "done"} ~> op[o].at = "done"
=============================================================================
