------------------------------- MODULE Volume -------------------------------
(***************************************************************************)
(* A volume (maki-core volume.rs and the replay half of recovery.rs): the  *)
(* journal, the overlay, the slot store and the checkpoint state under one *)
(* lock, with checkpoint slot I/O that runs without it.                    *)
(*                                                                         *)
(* A foreground handler holds the lock and is one action, the set of its   *)
(* outcomes.  A checkpoint is prepared under the lock, writes and syncs    *)
(* its slots item by item without it, and is published under the lock.     *)
(*                                                                         *)
(* The journal is what Journal checks of it: a sequence of records of      *)
(* which an attach finds a prefix that contains the durable ones; a roll   *)
(* inside an append may make all earlier records durable even when the     *)
(* append fails.  Sequence numbers are positions in that sequence.         *)
(***************************************************************************)
EXTENDS SlotStore, Overlay, Sequences

CONSTANTS
    MaxRecords,  \* bound on the records of the journal
    MaxFaults    \* bound on failed calls, kills, evictions and power losses

\* A volume has a unit, and the marker of a closed one is no payload.
ASSUME VolumeAssumption ==
    /\ MaxRecords \in Nat /\ MaxFaults \in Nat
    /\ Unit # {} /\ "off" \notin Ciphertext \cup {Tombstone}

VARIABLES
    pc,      \* "down", "replay" or "up"
    x,       \* the volume: log, durable, overlay o, store s, checkpoint state
    plan,    \* the PreparedCheckpoint in flight
    at,      \* the last record that attach has replayed
    acked,   \* history: the highest sequence a caller was told is durable
    faults   \* the faults so far

vars == <<pc, x, plan, at, acked, faults>>

NoPlan == [stage |-> "none"]

Good(v) == [ok |-> TRUE, x |-> v]
Bad(v) == [ok |-> FALSE, x |-> v]

\* A store operation as a step of the volume.
OnStore(v, outcomes) == {[ok |-> r.ok, x |-> [v EXCEPT !.s = r.s]] : r \in outcomes}

\* A store operation whose failure is only logged.
Swallowed(v, outcomes) == {Good([v EXCEPT !.s = r.s]) : r \in outcomes}

Appended(v) == Len(v.log)

Promoted(v) == [v EXCEPT !.o = Promote(@, v.durable)]

-----------------------------------------------------------------------------
(* Foreground handlers. *)

\* JournalWriter::sync and the promotion that follows it.
JournalSync(v) == {Bad(v), Good(Promoted([v EXCEPT !.durable = Appended(v)]))}

\* JournalWriter::append, the promotion and publication around it, and the
\* sync of a FUA request, whose failure leaves the record visible.
AppendPublish(v, u, c, fua) ==
    UNION {LET rolled == Promoted([v EXCEPT !.durable = d])
               n == Appended(v) + 1
               published == Promoted([rolled EXCEPT !.log = Append(@, [unit |-> u, v |-> c]),
                                                    !.o = Publish(@, u, n, c)])
           IN  {Bad(rolled)} \cup IF fua THEN JournalSync(published) ELSE {Good(published)} :
             d \in {v.durable, Appended(v)}}

\* write_ct
WriteOutcomes(v, u, c, fua) ==
    Then(OnStore(v, ReserveSlot(v.s, u)), LAMBDA r : AppendPublish(r.x, u, c, fua))

\* Volume::reclaim_unwritten: a unit that reads as zeros and has no version.
Unwritten(v, u) == ~Held(v.o, u) /\ SlotHeader(v.s, u) = Zero

\* discard_ct: nothing to do for a unit that is discarded already; a unit that
\* reads as zeros gives back its reservation without a record.
DiscardOutcomes(v, u, fua) ==
    IF Held(v.o, u) /\ v.o.latest[u].v = Tombstone
    THEN IF fua THEN JournalSync(v) ELSE {Good(v)}
    ELSE IF Unwritten(v, u)
    THEN {Good([v EXCEPT !.s = ReclaimUnwritten(@, u)])}
    ELSE AppendPublish(v, u, Tombstone, fua)

\* read_ct: the overlay first, then the slot.
ReadCt(v, u) == IF Held(v.o, u) THEN v.o.latest[u].v ELSE Payload(SlotHeader(v.s, u))

-----------------------------------------------------------------------------
(* Checkpoints. *)

Writes(items) == {i \in items : i.ver.v # Tombstone}
Discards(items) == items \ Writes(items)
UnitsOf(items) == {i.unit : i \in items}

\* Slots to be punched: a newer version of the unit needs the reservation.
Punchable(v, items) ==
    {i.unit : i \in {i \in Discards(items) : ~Held(v.o, i.unit) \/ v.o.latest[i.unit].n <= i.ver.n}}

\* Units without a version in the overlay may be punched.
Idle(v) == {u \in Unit : ~Held(v.o, u)}

\* delete_covered and the sync of the journal directory, which the records of
\* this model do not feel.
Pruned(v) == {Bad(v), Good(v)}

FinishIdle(v, base) ==
    LET retired == [v EXCEPT !.o = Retire(@, base)]
        repaired == IF HasPendingRepairs(v.s)
                    THEN Then(OnStore(retired, PersistDiscards(v.s)), LAMBDA r :
                           OnStore(r.x, PersistAllocations(r.x.s)))
                    ELSE {Good(retired)}
    IN  Then(repaired, LAMBDA r : Then(Pruned(r.x), LAMBDA q :
          Swallowed(q.x, RetryReclamation(q.x.s, Idle(q.x)))))

\* Update and persist the maps.
MapsPersisted(v, items) ==
    Then(IF Writes(items) = {} THEN {Good(v)} ELSE OnStore(v, EnsureShard(v.s)), LAMBDA r :
      LET marked == SetDiscarded(MarkAllocated(r.x.s, UnitsOf(Writes(items))),
                                 UnitsOf(Discards(items)), UnitsOf(Writes(items)))
      IN  Then(OnStore(r.x, PersistDiscards(marked)), LAMBDA q :
            OnStore(q.x, PersistAllocations(q.x.s))))

\* Store the checkpoint state; memory follows only when that succeeded.
StatePublished(v, horizon) ==
    {Bad([v EXCEPT !.ckReg = r]) : r \in HalfStored(v.ckReg, horizon)}
    \cup {Good([v EXCEPT !.ck = horizon, !.ckReg = Stored(@, horizon)])}

\* Punch what this checkpoint retires, prune the journal, retire the overlay
\* and go on with the reclamation scan unless the punching failed.
Reclaimed(v, horizon, units) ==
    UNION {LET w == [v EXCEPT !.s = IF p.ok THEN p.s ELSE ScheduleReclamation(p.s)]
               retired == [w EXCEPT !.o = Retire(@, horizon)]
           IN  Then(Pruned(w), LAMBDA q :
                 IF p.ok THEN Swallowed(retired, RetryReclamation(retired.s, Idle(retired)))
                 ELSE {Good(retired)}) :
             p \in PunchSlots(v.s, units)}

\* finish_checkpoint
FinishOutcomes(v, p) ==
    IF ~BarriersHold(v.s, p.fails) \/ v.ck # p.base THEN {Bad(v)}
    ELSE IF p.horizon <= p.base THEN FinishIdle(v, p.base)
    ELSE LET units == Punchable(v, p.items)
         IN  Then(MapsPersisted(v, p.items), LAMBDA r :
               Then(StatePublished(r.x, p.horizon), LAMBDA q :
                 Reclaimed(q.x, p.horizon, units)))

-----------------------------------------------------------------------------
(* Replay. *)

\* The last record of each unit in a batch, as checkpoint items.
Latest(log, from, to) ==
    {[unit |-> log[k].unit, ver |-> [n |-> k, v |-> log[k].v]] :
        k \in {k \in from..to : \A j \in (k + 1)..to : log[j].unit # log[k].unit}}

ItemSlot(i) == Slot(i.ver.n, i.ver.v)

WriteItems(f, items) ==
    SlotsPut(f, [u \in UnitsOf(items) |-> ItemSlot(CHOOSE i \in items : i.unit = u)])

\* write_slot of each, in sequence order: all of them, or some and a torn one.
SlotsWritten(v, items) ==
    {Bad([v EXCEPT !.s.shard = SlotTorn(WriteItems(@, {j \in items : j.ver.n < i.ver.n}), i.unit, ItemSlot(i))]) :
        i \in items}
    \cup {Good([v EXCEPT !.s.shard = WriteItems(@, items)])}

ShardSynced(v) ==
    {Bad([v EXCEPT !.s.shard = SyncFailed(@)]), Good([v EXCEPT !.s.shard = Synced(@)])}

\* apply_replay_batch.  Every unit with a write is marked allocated, also when
\* a later discard of the batch suppressed its slot write.
ReplayOutcomes(v, from, to) ==
    LET items == Latest(v.log, from, to)
        written == {v.log[k].unit : k \in {k \in from..to : v.log[k].v # Tombstone}}
    IN  Then(IF written = {} THEN {Good(v)} ELSE OnStore(v, EnsureShard(v.s)), LAMBDA r :
          Then(SlotsWritten(r.x, Writes(items)), LAMBDA q :
            Then(IF Writes(items) = {} THEN {Good(q.x)} ELSE ShardSynced(q.x), LAMBDA t :
              LET marked == SetDiscarded(MarkAllocated(t.x.s, written),
                                         UnitsOf(Discards(items)), UnitsOf(Writes(items)))
              IN  Then(OnStore(t.x, PersistDiscards(marked)), LAMBDA y :
                    OnStore(y.x, PersistAllocations(y.x.s))))))

-----------------------------------------------------------------------------
(* Actions. *)

Fault == faults < MaxFaults /\ faults' = faults + 1
NoFault == UNCHANGED faults

Report(r) == x' = r.x /\ IF r.ok THEN NoFault ELSE Fault

\* The process ends: memory is gone, the files are as they were.
Dead(v) == [v EXCEPT !.o = EmptyOverlay, !.s = Closed(@), !.ck = 0]

Down(v) == pc' = "down" /\ x' = Dead(v) /\ plan' = NoPlan /\ at' = 0

WriteCt(u, c, fua) ==
    /\ pc = "up" /\ Appended(x) < MaxRecords
    /\ \E r \in WriteOutcomes(x, u, c, fua) :
         Report(r) /\ acked' = IF r.ok /\ fua THEN Appended(r.x) ELSE acked
    /\ UNCHANGED <<pc, plan, at>>

DiscardCt(u, fua) ==
    /\ pc = "up" /\ Appended(x) < MaxRecords
    /\ \E r \in DiscardOutcomes(x, u, fua) :
         Report(r) /\ acked' = IF r.ok /\ fua /\ ~Unwritten(x, u) THEN Appended(r.x) ELSE acked
    /\ UNCHANGED <<pc, plan, at>>

Flush ==
    /\ pc = "up"
    /\ \E r \in JournalSync(x) :
         Report(r) /\ acked' = IF r.ok THEN Appended(r.x) ELSE acked
    /\ UNCHANGED <<pc, plan, at>>

\* The horizon and the slots to write are fixed under the lock.
PrepareCheckpoint ==
    /\ pc = "up" /\ plan = NoPlan
    /\ LET v == Promoted(x)
           items == IF v.durable <= v.ck THEN {} ELSE CollectDurable(v.o, v.durable)
       IN  /\ x' = v
           /\ plan' = [stage |-> "write", base |-> v.ck, horizon |-> IF v.durable < v.ck THEN v.ck ELSE v.durable,
                       items |-> items, todo |-> Writes(items), fails |-> v.s.fails]
    /\ UNCHANGED <<pc, at, acked, faults>>

\* PreparedCheckpoint::execute, one slot at a time and then the shard; a
\* failure drops the plan.
PlanWrite ==
    /\ plan.stage = "write"
    /\ \E i \in plan.todo :
         \/ /\ x' = [x EXCEPT !.s.shard = WriteItems(@, {i})]
            /\ plan' = [plan EXCEPT !.todo = @ \ {i}] /\ NoFault
         \/ /\ x' = [x EXCEPT !.s.shard = SlotTorn(@, i.unit, ItemSlot(i))]
            /\ plan' = NoPlan /\ Fault
    /\ UNCHANGED <<pc, at, acked>>

PlanSync ==
    /\ plan.stage = "write" /\ plan.todo = {}
    /\ \E r \in IF Writes(plan.items) = {} THEN {Good(x)} ELSE ShardSynced(x) :
         /\ Report(r)
         /\ plan' = IF r.ok /\ BarriersHold(r.x.s, plan.fails)
                    THEN [plan EXCEPT !.stage = "finish"] ELSE NoPlan
    /\ UNCHANGED <<pc, at, acked>>

FinishCheckpoint ==
    /\ plan.stage = "finish"
    /\ \E r \in FinishOutcomes(x, plan) : Report(r)
    /\ plan' = NoPlan
    /\ UNCHANGED <<pc, at, acked>>

\* Attach up to the replay: the store is opened, the journal's surviving
\* prefix adopted as durable, the selected checkpoint state stored again.
Open ==
    /\ pc = "down"
    /\ \E n \in x.durable..Appended(x), s \in OpenStore(x.s) :
         /\ x' = [x EXCEPT !.log = SubSeq(@, 1, n), !.durable = n, !.s = s,
                           !.ck = x.ckReg.now, !.ckReg = Stored(@, x.ckReg.now)]
         /\ acked' = n
    /\ pc' = "replay" /\ at' = x.ckReg.now
    /\ UNCHANGED <<plan, faults>>

\* One byte-bounded batch of the replay.
Replay ==
    /\ pc = "replay" /\ at < x.durable
    /\ \E to \in (at + 1)..x.durable : \E r \in ReplayOutcomes(x, at + 1, to) :
         IF r.ok THEN x' = r.x /\ at' = to /\ NoFault /\ UNCHANGED <<pc, plan>>
         ELSE Down(r.x) /\ Fault
    /\ UNCHANGED acked

\* The replayed horizon becomes the checkpoint, the journal is pruned, the
\* discard maps are stored again and reclamation is scheduled.
Attached ==
    /\ pc = "replay" /\ at >= x.durable
    /\ \E r \in Then(IF x.durable > x.ck
                     THEN Then(StatePublished(x, x.durable), LAMBDA q : Pruned(q.x))
                     ELSE {Good(x)},
                     LAMBDA q : OnStore(q.x, PersistDiscards(q.x.s))) :
         IF r.ok
         THEN /\ x' = [r.x EXCEPT !.s = ScheduleReclamation(@), !.o = Promote(EmptyOverlay, r.x.durable)]
              /\ pc' = "up" /\ at' = 0 /\ NoFault /\ UNCHANGED plan
         ELSE Down(r.x) /\ Fault
    /\ UNCHANGED acked

Kill ==
    /\ pc # "down"
    /\ Down(x) /\ Fault
    /\ UNCHANGED acked

Evict ==
    /\ Stale(x.s.shard) # {}
    /\ \E f \in Evicted(x.s.shard) : x' = [x EXCEPT !.s.shard = f]
    /\ Fault /\ UNCHANGED <<pc, plan, at, acked>>

Crash ==
    /\ \E s \in StoreSurvivors(x.s), c \in x.ckReg.may :
         /\ x' = [Dead(x) EXCEPT !.s = s, !.ckReg = Stored(@, c)]
         /\ pc' = "down" /\ plan' = NoPlan /\ at' = 0
    /\ Fault /\ UNCHANGED acked

Init ==
    /\ pc = "down" /\ plan = NoPlan /\ at = 0 /\ acked = 0 /\ faults = 0
    /\ x = [log |-> << >>, durable |-> 0, o |-> EmptyOverlay, s |-> NewStore,
            ck |-> 0, ckReg |-> Stored(0, 0)]

Next ==
    \/ \E u \in Unit, fua \in BOOLEAN : DiscardCt(u, fua) \/ \E c \in Ciphertext : WriteCt(u, c, fua)
    \/ Flush
    \/ PrepareCheckpoint \/ PlanWrite \/ PlanSync \/ FinishCheckpoint
    \/ Open \/ Replay \/ Attached
    \/ Kill \/ Evict \/ Crash

Spec == Init /\ [][Next]_vars

-----------------------------------------------------------------------------
(* Properties. *)

\* What callers observe: the accepted records, the reported barrier and reads.
View == IF pc = "up" THEN [u \in Unit |-> ReadCt(x, u)] ELSE [u \in Unit |-> "off"]

Abstract == INSTANCE DurableVolume WITH hist <- x.log, floor <- acked, view <- View

\* Reads return the newest accepted record of their unit, and no restart loses
\* a record that a FUA request or a flush reported durable or that an earlier
\* restart recovered.
ImplementsDurableVolume == Abstract!Spec

\* Counters, maps and the plan have their types.
TypeOK ==
    /\ pc \in {"down", "replay", "up"}
    /\ x.log \in Seq([unit : Unit, v : Ciphertext \cup {Tombstone}])
    /\ x.durable \in 0..Appended(x) /\ x.ck \in 0..MaxRecords
    /\ x.s.alloc \subseteq Unit /\ x.s.disc \subseteq Unit /\ x.s.res \subseteq Unit
    /\ x.s.cursor \in 0..MaxLen /\ x.s.fails \in 0..MaxFails
    /\ plan = NoPlan \/ plan.todo \subseteq plan.items
    /\ at \in 0..Appended(x)

\* Volume::check_invariants: the checkpoint, in memory and in whatever copy a
\* power loss may leave, never leads the durable boundary, the overlay passes
\* its audit and holds nothing beyond the journal.
VolumeSane ==
    /\ \A c \in x.ckReg.may \cup {x.ckReg.now, x.ck} : c <= x.durable
    /\ pc = "up" => /\ Audited(x.o)
                    /\ \A u \in Unit : x.o.latest[u].n <= Appended(x)

\* Every write that a restart may have to replay has its slot reserved, so
\* that completing it needs no free space.
ReservationHeld ==
    \A c \in x.ckReg.may \cup {x.ckReg.now} : \A k \in (c + 1)..Appended(x) :
      x.log[k].v # Tombstone => x.log[k].unit \in x.s.res

\* A checkpoint never claims more than the disk holds: whatever copy of the
\* checkpoint state, of the maps and of the shard a power loss leaves, every
\* unit without a newer record reads as of that checkpoint; the invariants of
\* the volume and the reservations hold with it.
CheckpointHonest ==
    /\ TypeOK /\ VolumeSane /\ ReservationHeld
    /\ \A c \in x.ckReg.may \cup {x.ckReg.now}, u \in Unit :
        (\A k \in (c + 1)..Appended(x) : x.log[k].unit # u) =>
          \A cell \in Surviving(x.s.shard, u + 1), a \in x.s.allocReg.may, d \in x.s.discReg.may :
            Payload(HeaderBy(cell, u, a, d)) = Abstract!Content(x.log, c, u)
=============================================================================
