----------------------------- MODULE Scheduler -----------------------------
(***************************************************************************)
(* The batch scheduler in front of the crypto provider (maki-crypto        *)
(* scheduler.rs, and the semaphore of flow.rs): concurrent requests are     *)
(* admitted by a bound on what is pending, coalesced into batches by the    *)
(* task of a lane, sent to the provider by a task per batch that owns one   *)
(* of the lane's slots, and answered each with its own part of the result.  *)
(* A batch that the provider rejects for one of its requests is sent again  *)
(* request by request.  A caller may leave at any await (its deadline, or   *)
(* because it is dropped): its reply channel is closed then.                *)
(*                                                                          *)
(* The encrypt and the decrypt lane are the same code and share nothing but *)
(* the provider; this is one of them.  An item is one unit of the bounds,   *)
(* so that bytes and items are one count.  The provider is any              *)
(* CryptoProvider behind the checks of checked.rs.                          *)
(***************************************************************************)
EXTENDS Integers, FiniteSets, Sequences, Functions

None == "none"

CONSTANTS
    Caller,        \* each makes one request
    Workload,      \* what is given: the units of each request, the requests
                   \* whose data the provider rejects, and whether the
                   \* provider may be sent a request twice (caps.retry_safe);
                   \* and the slots of the lane (max_inflight_batches)
    TargetItems,   \* a batch of this many items waits for no more
    MaxItems,      \* and never holds more than this
    MaxPending     \* items queued at once (max_pending_items)

ASSUME SchedulerAssumption ==
    /\ \A w \in Workload : /\ w.units \in [Caller -> Seq(Nat)]
                           /\ \A c \in Caller : IsInjective(w.units[c])
                           /\ w.bad \subseteq Caller
                           /\ w.safe \in BOOLEAN
                           /\ w.slots \in Nat \ {0}
    /\ {TargetItems, MaxItems, MaxPending} \subseteq Nat \ {0}
    /\ MaxItems <= MaxPending
    /\ None \notin Caller

VARIABLES
    work,       \* the member of Workload this is about
    phase,      \* of each caller: "idle", "admit", "wait", "done" or "gone"
    reply,      \* what a caller that is done was told
    admitting,  \* callers waiting for pending capacity, a FIFO semaphore
    pending,    \* capacity taken (Lane::admission)
    channel,    \* groups sent to the lane and not received yet
    lane,       \* the task of the lane: where it is, its batch, its queue
    tasks,      \* the tasks of the batches in flight
    free,       \* slots that are free (the inflight semaphore)
    sent        \* how often the items of a caller were sent to the provider

vars == <<work, phase, reply, admitting, pending, channel, lane, tasks, free, sent>>

NoReply == [result |-> "none", part |-> <<>>]
Failed(class) == [result |-> class, part |-> <<>>]

Init ==
    /\ work \in Workload
    /\ phase = [c \in Caller |-> "idle"]
    /\ reply = [c \in Caller |-> NoReply]
    /\ admitting = <<>>
    /\ pending = 0
    /\ channel = <<>>
    /\ lane = [at |-> "recv", batch |-> <<>>, queued |-> <<>>]
    /\ tasks = {}
    /\ free = work.slots
    /\ sent = [c \in Caller |-> 0]

\* The items of a caller, and of the groups of a sequence: none has more than
\* MaxItems (see Admissible).
Items(c) == Len(work.units[c])
Charge(s) == Cardinality({p \in (1..Len(s)) \X (1..MaxItems) : p[2] <= Items(s[p[1]])})
UnitsOf(s) == UNION {Range(work.units[c]) : c \in Range(s)}

\* What is left of a queue when only the callers in S stay.
Keep(s, S) ==
    LET kept[n \in 0..Len(s)] ==
          IF n = 0 THEN <<>>
          ELSE IF s[n] \in S THEN Append(kept[n - 1], s[n]) ELSE kept[n - 1]
    IN  kept[Len(s)]

\* reply.is_closed
Gone(c) == phase[c] = "gone"
Live(s) == Keep(s, {c \in Caller : ~Gone(c)})
SomeGone(s) == \E c \in Range(s) : Gone(c)

-----------------------------------------------------------------------------
(* Callers: encrypt_batch, decrypt_batch, check_admissible and submit. *)

\* check_admissible: whether the call fits in one batch.
Admissible(c) == Items(c) <= MaxItems

\* What does not is refused before it is copied or charged.
Submit(c) ==
    /\ phase[c] = "idle"
    /\ \/ /\ Items(c) = 0 \/ ~Admissible(c)
          /\ phase' = [phase EXCEPT ![c] = "done"]
          /\ reply' = [reply EXCEPT ![c] = IF Items(c) = 0 THEN [@ EXCEPT !.result = "ok"]
                                                           ELSE Failed("refused")]
          /\ UNCHANGED admitting
       \/ /\ Items(c) > 0 /\ Admissible(c)
          /\ phase' = [phase EXCEPT ![c] = "admit"]
          /\ admitting' = Append(admitting, c)
          /\ UNCHANGED reply
    /\ UNCHANGED <<work, pending, channel, lane, tasks, free, sent>>

\* The capacity is taken before the items are copied, first come first served.
Admit ==
    /\ admitting # <<>>
    /\ LET c == Head(admitting)
       IN  /\ pending + Items(c) <= MaxPending
           /\ pending' = pending + Items(c)
           /\ channel' = Append(channel, c)
           /\ phase' = [phase EXCEPT ![c] = "wait"]
    /\ admitting' = Tail(admitting)
    /\ UNCHANGED <<work, reply, lane, tasks, free, sent>>

\* with_deadline: the timer drops the rest of the call; or its caller does.
Leave(c) ==
    /\ phase[c] \in {"admit", "wait"}
    /\ phase' = [phase EXCEPT ![c] = "gone"]
    /\ admitting' = Keep(admitting, Caller \ {c})
    /\ UNCHANGED <<work, reply, pending, channel, lane, tasks, free, sent>>

\* deliver: `answers' has the reply of every caller that is told now.
Deliver(answers) ==
    LET told == {c \in DOMAIN answers : ~Gone(c)}
    IN  /\ reply' = [c \in Caller |-> IF c \in told THEN answers[c] ELSE reply[c]]
        /\ phase' = [c \in Caller |-> IF c \in told THEN "done" ELSE phase[c]]

-----------------------------------------------------------------------------
(* The lane: run_lane. *)

\* Groups that are dropped give their capacity back (PendingCharge).
Dropped(before, after) == pending' = pending - (Charge(before) - Charge(after))

\* The next group: the lane's own queue comes before the channel.
HasNext == lane.queued # <<>> \/ channel # <<>>
NextGroup == IF lane.queued # <<>> THEN Head(lane.queued) ELSE Head(channel)
QueueLeft == IF lane.queued # <<>> THEN Tail(lane.queued) ELSE lane.queued
TakeNext == channel' = IF lane.queued # <<>> THEN channel ELSE Tail(channel)

Full(batch) == Charge(batch) >= TargetItems

\* The first group of a batch.
LaneFirst ==
    /\ lane.at = "recv" /\ HasNext
    /\ TakeNext
    /\ LET c == NextGroup
       IN  IF Gone(c)
           THEN /\ lane' = [lane EXCEPT !.queued = QueueLeft]
                /\ Dropped(<<c>>, <<>>)
           ELSE /\ lane' = [at |-> IF Full(<<c>>) THEN "slot" ELSE "gather",
                            batch |-> <<c>>, queued |-> QueueLeft]
                /\ UNCHANGED pending
    /\ UNCHANGED <<work, phase, reply, admitting, tasks, free, sent>>

\* Mutant: a batch may hold two versions of one unit.
FitsAny(c) == Charge(lane.batch) + Items(c) <= MaxItems

\* Whole groups only, and no unit twice: results are matched by position and
\* unit.  (One lane serves one volume: the contexts are equal.)
Fits(c) ==
    /\ Charge(lane.batch) + Items(c) <= MaxItems
    /\ UnitsOf(lane.batch) \cap UnitsOf(<<c>>) = {}

\* Another group for the batch; one that does not fit closes it and is first
\* in the queue.
LaneGather ==
    /\ lane.at = "gather" /\ HasNext
    /\ TakeNext
    /\ LET c == NextGroup
       IN  \/ /\ Gone(c)
              /\ lane' = [lane EXCEPT !.queued = QueueLeft]
              /\ Dropped(<<c>>, <<>>)
           \/ /\ ~Gone(c) /\ Fits(c)
              /\ LET batch == Append(lane.batch, c)
                 IN  lane' = [at |-> IF Full(batch) THEN "slot" ELSE "gather",
                              batch |-> batch, queued |-> QueueLeft]
              /\ UNCHANGED pending
           \/ /\ ~Gone(c) /\ ~Fits(c)
              /\ lane' = [lane EXCEPT !.at = "slot", !.queued = <<c>> \o QueueLeft]
              /\ UNCHANGED pending
    /\ UNCHANGED <<work, phase, reply, admitting, tasks, free, sent>>

\* The oldest group of the batch has waited max_wait.
LaneTimer ==
    /\ lane.at = "gather"
    /\ lane' = [lane EXCEPT !.at = "slot"]
    /\ UNCHANGED <<work, phase, reply, admitting, pending, channel, tasks, free, sent>>

\* A batch and the queue behind it without the callers that have gone.
Purged == [lane EXCEPT !.batch = Live(@), !.queued = Live(@)]

\* queued_caller_closed, while gathering and while waiting for a slot.
LanePurge ==
    /\ lane.at \in {"gather", "slot"}
    /\ lane.at = "gather" => lane.queued = <<>>
    /\ SomeGone(lane.batch \o lane.queued)
    /\ lane' = IF Purged.batch = <<>> THEN [Purged EXCEPT !.at = "recv"] ELSE Purged
    /\ Dropped(lane.batch \o lane.queued, lane'.batch \o lane'.queued)
    /\ UNCHANGED <<work, phase, reply, admitting, channel, tasks, free, sent>>

\* While it waits for a slot the lane keeps receiving, so that it can see
\* which callers leave.
LaneReceive ==
    /\ lane.at = "slot" /\ ~SomeGone(lane.batch \o lane.queued) /\ free = 0
    /\ channel # <<>>
    /\ LET c == Head(channel)
       IN  /\ lane' = IF Gone(c) THEN lane ELSE [lane EXCEPT !.queued = Append(@, c)]
           /\ IF Gone(c) THEN Dropped(<<c>>, <<>>) ELSE UNCHANGED pending
    /\ channel' = Tail(channel)
    /\ UNCHANGED <<work, phase, reply, admitting, tasks, free, sent>>

\* A task of a batch: its groups, whether the call or the retries are on, the
\* retries not started and those in flight, the retry that borrows the batch's
\* own slot, and whether that slot is still held.
Task(batch) == [groups |-> batch, at |-> "call", todo |-> <<>>, active |-> {},
                borrower |-> None, holds |-> TRUE]

\* The batch leaves the queue and goes to the provider, in a task of its own.
LaneDispatch ==
    /\ lane.at = "slot" /\ ~SomeGone(lane.batch \o lane.queued)
    /\ free > 0
    /\ free' = free - 1
    /\ tasks' = tasks \cup {Task(lane.batch)}
    /\ sent' = [c \in Caller |-> IF c \in Range(lane.batch) THEN sent[c] + 1 ELSE sent[c]]
    /\ Dropped(lane.batch, <<>>)
    /\ lane' = [lane EXCEPT !.at = "recv", !.batch = <<>>]
    /\ UNCHANGED <<work, phase, reply, admitting, channel>>

Lane == LaneFirst \/ LaneGather \/ LaneTimer \/ LanePurge \/ LaneReceive \/ LaneDispatch

-----------------------------------------------------------------------------
(* The task of a batch. *)

Instead(t, u) == tasks' = (tasks \ {t}) \cup {u}
Ended(t) == tasks' = tasks \ {t}

\* Mutant: the first caller to leave takes the call with it.
AbandonedBy(groups) == SomeGone(groups)

\* all_replies_closed
Abandoned(groups) == Live(groups) = <<>>

\* The last caller has left: the call is dropped, and the slot with it.
TaskAbandoned(t) ==
    /\ t.at = "call" /\ Abandoned(t.groups)
    /\ Ended(t)
    /\ free' = free + 1
    /\ UNCHANGED <<work, phase, reply, admitting, pending, channel, lane, sent>>

\* The items of some callers, and the checked results for them: each position
\* has the result of an item of the same unit.
Positions(groups) == {p \in Range(groups) \X (1..MaxItems) : p[2] <= Items(p[1])}
Results(groups) ==
    {f \in [Positions(groups) -> Positions(groups)] :
        \A p \in Positions(groups) : work.units[f[p][1]][f[p][2]] = work.units[p[1]][p[2]]}

\* How a call for these groups may end: bad data is rejected as a whole, and
\* any call may fail in transport or be answered with too few results.
Outcomes(groups) ==
    {"transport"} \cup IF Range(groups) \cap work.bad # {} THEN {"rejected"} ELSE {"ok", "contract"}

\* Each caller's part of the results, or the same error for all.
Answers(groups, outcome) ==
    IF outcome # "ok"
    THEN {[c \in Range(groups) |-> Failed(outcome)]}
    ELSE {[c \in Range(groups) |-> [result |-> "ok", part |-> [i \in 1..Items(c) |-> f[<<c, i>>]]]]
             : f \in Results(groups)}

\* Mutant: whatever failed is worth another try.
PerRequestAlways(t, outcome) == Len(t.groups) > 1 /\ outcome = "rejected"

\* A rejection may be about one of several requests: they are sent again one
\* by one, to a provider that may be sent a request twice.
PerRequest(t, outcome) == Len(t.groups) > 1 /\ outcome = "rejected" /\ work.safe

TaskReturns(t) ==
    /\ t.at = "call" /\ ~Abandoned(t.groups)
    /\ \E outcome \in Outcomes(t.groups) :
        \/ /\ PerRequest(t, outcome)
           /\ Instead(t, [t EXCEPT !.at = "retry", !.todo = t.groups])
           /\ UNCHANGED <<phase, reply, free>>
        \/ /\ ~PerRequest(t, outcome)
           /\ \E answers \in Answers(t.groups, outcome) : Deliver(answers)
           /\ Ended(t)
           /\ free' = free + 1
    /\ UNCHANGED <<work, admitting, pending, channel, lane, sent>>

(* run_retries *)

RetryPurge(t) ==
    /\ t.at = "retry" /\ SomeGone(t.todo)
    /\ Instead(t, [t EXCEPT !.todo = Live(@)])
    /\ UNCHANGED <<work, phase, reply, admitting, pending, channel, lane, free, sent>>

\* One retry borrows the slot of the batch, the others need slots of their own.
RetryStart(t) ==
    /\ t.at = "retry" /\ t.todo # <<>> /\ ~SomeGone(t.todo)
    /\ LET c == Head(t.todo)
           started == [t EXCEPT !.todo = Tail(@), !.active = @ \cup {c}]
       IN  /\ \/ /\ t.borrower = None
                 /\ Instead(t, [started EXCEPT !.borrower = c])
                 /\ UNCHANGED free
              \/ /\ t.borrower # None /\ free > 0
                 /\ Instead(t, started)
                 /\ free' = free - 1
           /\ sent' = [sent EXCEPT ![c] = @ + 1]
    /\ UNCHANGED <<work, phase, reply, admitting, pending, channel, lane>>

\* Mutant: a retry that ends gives a slot back, borrowed or not.
ReturnAnySlot(t, c) ==
    /\ free' = free + 1
    /\ Instead(t, [t EXCEPT !.active = @ \ {c},
                            !.borrower = IF t.borrower = c THEN None ELSE @])

ReturnSlot(t, c) ==
    /\ free' = IF t.borrower = c THEN free ELSE free + 1
    /\ Instead(t, [t EXCEPT !.active = @ \ {c},
                            !.borrower = IF t.borrower = c THEN None ELSE @])

RetryAbandoned(t) ==
    /\ \E c \in t.active : Gone(c) /\ ReturnSlot(t, c)
    /\ UNCHANGED <<work, phase, reply, admitting, pending, channel, lane, sent>>

RetryReturns(t) ==
    /\ \E c \in t.active :
        /\ ~Gone(c)
        /\ \E outcome \in Outcomes(<<c>>) : \E answers \in Answers(<<c>>, outcome) : Deliver(answers)
        /\ ReturnSlot(t, c)
    /\ UNCHANGED <<work, admitting, pending, channel, lane, sent>>

\* Nothing relies on the slot of the batch any more; and the end of the task.
RetryEnd(t) ==
    /\ t.at = "retry" /\ t.todo = <<>> /\ t.borrower = None
    /\ t.holds \/ t.active = {}
    /\ free' = IF t.holds THEN free + 1 ELSE free
    /\ IF t.active = {} THEN Ended(t) ELSE Instead(t, [t EXCEPT !.holds = FALSE])
    /\ UNCHANGED <<work, phase, reply, admitting, pending, channel, lane, sent>>

\* What a task does without the provider.
TaskStep(t) == TaskAbandoned(t) \/ RetryPurge(t) \/ RetryStart(t) \/ RetryAbandoned(t) \/ RetryEnd(t)

Next ==
    \/ \E c \in Caller : Submit(c) \/ Leave(c)
    \/ Admit
    \/ Lane
    \/ \E t \in tasks : TaskStep(t) \/ TaskReturns(t) \/ RetryReturns(t)

\* The tasks run whenever they can.  Nothing makes the provider answer, and
\* nothing makes a caller come or leave.
Spec ==
    /\ Init /\ [][Next]_vars
    /\ WF_vars(Admit)
    /\ WF_vars(Lane)
    /\ WF_vars(\E t \in tasks : TaskStep(t))

-----------------------------------------------------------------------------
(* Properties. *)

TypeOK ==
    /\ work \in Workload
    /\ phase \in [Caller -> {"idle", "admit", "wait", "done", "gone"}]
    /\ pending \in 0..MaxPending
    /\ free \in 0..work.slots
    /\ lane.at \in {"recv", "gather", "slot"}
    /\ \A c \in Caller : sent[c] \in 0..2

\* The provider calls in flight, and the slots that are taken: a retry is a
\* task and its caller.
Retries == {p \in tasks \X Caller : p[2] \in p[1].active}
Calls == Cardinality({t \in tasks : t.at = "call"}) + Cardinality(Retries)
Taken == Cardinality({t \in tasks : t.holds})
           + Cardinality({p \in Retries : p[2] # p[1].borrower})

\* The groups that are queued.
Queued == channel \o lane.queued \o lane.batch

\* Every capacity is accounted for: what is pending is exactly what is queued,
\* the slots in use are those of the batches and retries in flight, and no
\* more calls run than there are slots, whichever callers left and whichever
\* retries borrowed a slot (PendingCharge, run_retries).
CapacityKept ==
    /\ TypeOK
    /\ pending = Charge(Queued)
    /\ free + Taken = work.slots
    /\ Calls <= work.slots

\* A caller is told about its own items: a result for each of them in order,
\* even when another version of the same unit is being encrypted, and a
\* rejection only of its own data, if the provider may be asked again (the
\* unit check of run_lane, deliver, run_retries).
OwnVerdict ==
    \A c \in Caller : phase[c] = "done" =>
        /\ reply[c].result = "ok" => reply[c].part = [i \in 1..Items(c) |-> <<c, i>>]
        /\ reply[c].result = "rejected" /\ work.safe => c \in work.bad

\* A provider that may not be sent a request twice is not, and no provider is
\* sent one more often than once in a batch and once alone (R5-004).
SentOnce == \A c \in Caller : sent[c] <= IF work.safe THEN 2 ELSE 1

\* A caller that stays is answered, if the provider leaves no call unanswered:
\* neither the callers that leave nor the retries of others keep it from a
\* batch, a slot or its reply.  And what is queued for a caller that has left
\* is given up, even while the provider keeps the lane's slots busy for ever
\* (BUG-012).
Answered ==
    /\ []<>(tasks = {}) =>
         \A c \in Caller : phase[c] \in {"admit", "wait"} ~> phase[c] \in {"done", "gone"}
    /\ \A c \in Caller :
         Gone(c) ~> /\ c \notin Range(Queued)
                    /\ \A t \in tasks : c \notin Range(t.todo) /\ (c \in Range(t.groups) => ~Abandoned(t.groups))
=============================================================================
