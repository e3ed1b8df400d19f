----------------------------- MODULE SlotStore -----------------------------
(***************************************************************************)
(* The slot store of a volume (maki-core store.rs): per unit one slot in a *)
(* shard data file, the allocation map, the discard map, the physical      *)
(* reservation of slots and the reclamation of discarded ones.             *)
(*                                                                         *)
(* A store is a record; an operation is the set of its outcomes:           *)
(*                                                                         *)
(*   shard       the data file (CrashFS): the slot of unit u is cell u + 1 *)
(*   alloc       units whose allocation bit is set in memory               *)
(*   allocReg    the pair of allocation-map files                          *)
(*   allocDirty, mapStored  alloc must be persisted; both copies are       *)
(*               proven durable in this session                            *)
(*   disc, discReg, discDirty  the same for the discard map                *)
(*   res         units whose slot range is certain to be allocated on disk *)
(*   cursor      first unit of the next reclamation window, 0 for none     *)
(*   fails       reservation_failures                                      *)
(*                                                                         *)
(* Abstractions.  One shard, which exists.  A slot is one cell: its header *)
(* and its ciphertext match, or it is Torn and every read of it fails the  *)
(* header or the CRC check.  An A/B pair is a register (CrashFS Stored and *)
(* HalfStored), and a failure of any step of its persistence, the second   *)
(* copy and the directory sync included, is at worst a failed store.       *)
(***************************************************************************)
EXTENDS CrashFS, Units

CONSTANTS
    Window,    \* slots one reclamation pass may visit (4096 in the code)
    MaxFails   \* u64::MAX of reservation_failures

ASSUME SlotStoreAssumption ==
    /\ Unit = 1..(MaxLen - 1)
    /\ Window \in Nat \ {0} /\ MaxFails \in Nat \ {0}

Done(s) == [ok |-> TRUE, s |-> s]
Failed(s) == [ok |-> FALSE, s |-> s]

-----------------------------------------------------------------------------
(* Slots. *)

Slot(n, v) == [k |-> "slot", n |-> n, v |-> v]

\* Slots written one by one: `put` has the new cell of each unit.  They do not
\* overlap, so that only which ones are written matters.
SlotsPut(f, put) ==
    [f EXCEPT !.data = [j \in Pos |-> IF j - 1 \in DOMAIN put THEN put[j - 1] ELSE f.data[j]],
              !.opts = [j \in Pos |-> IF j - 1 \in DOMAIN put THEN f.opts[j] \cup {put[j - 1]} ELSE f.opts[j]],
              !.dirty = @ \cup {j \in Pos : j - 1 \in DOMAIN put}]

SlotWritten(f, u, c) == SlotsPut(f, [w \in {u} |-> c])

\* A write that fails half way; over the same bytes it changes nothing.
SlotTorn(f, u, c) == IF f.data[u + 1] = c THEN f ELSE SlotWritten(f, u, Torn)

Damaged == [k |-> "damaged"]

\* slot_header: which version a slot holds, Zero for none; `alloc` and `disc`
\* are the maps the reader goes by.
HeaderBy(cell, u, alloc, disc) ==
    IF u \in disc THEN Zero
    ELSE IF cell = Zero THEN (IF u \in alloc THEN Damaged ELSE Zero)
    ELSE IF cell = Torn THEN Damaged
    ELSE cell

SlotHeader(s, u) == HeaderBy(s.shard.data[u + 1], u, s.alloc, s.disc)

\* read_slot: the payload of that version.
Payload(header) ==
    CASE header = Zero -> Tombstone
      [] header = Damaged -> Damaged
      [] OTHER -> header.v

-----------------------------------------------------------------------------
(* Maps. *)

\* persist_allocations
PersistAllocations(s) ==
    IF ~s.allocDirty /\ s.mapStored THEN {Done(s)}
    ELSE {Failed([s EXCEPT !.allocReg = r]) : r \in HalfStored(s.allocReg, s.alloc)}
         \cup {Done([s EXCEPT !.allocReg = Stored(@, s.alloc), !.allocDirty = FALSE, !.mapStored = TRUE])}

\* ensure_shard of a shard that exists: commit_adopted_maps.
EnsureShard(s) == IF s.mapStored THEN {Done(s)} ELSE PersistAllocations(s)

MarkAllocated(s, units) ==
    [s EXCEPT !.alloc = @ \cup units, !.allocDirty = @ \/ ~(units \subseteq s.alloc)]

\* set_discarded, for the units of two sets.
SetDiscarded(s, on, off) ==
    LET new == (s.disc \cup on) \ off
    IN  [s EXCEPT !.disc = new, !.discDirty = @ \/ new # s.disc]

\* persist_discards
PersistDiscards(s) ==
    IF ~s.discDirty THEN {Done(s)}
    ELSE {Failed([s EXCEPT !.discReg = r]) : r \in HalfStored(s.discReg, s.disc)}
         \cup {Done([s EXCEPT !.discReg = Stored(@, s.disc), !.discDirty = FALSE])}

HasPendingRepairs(s) == s.allocDirty \/ ~s.mapStored \/ s.discDirty

-----------------------------------------------------------------------------
(* Reservation. *)

\* A failed sync_all may have cleared the dirty bit of a slot that a running
\* checkpoint wrote: it is counted, and the count never wraps.
ReservationFailed(s) ==
    [s EXCEPT !.shard = SyncFailed(@), !.fails = IF @ < MaxFails THEN @ + 1 ELSE @]

ReserveSlot(s, u) ==
    Then(EnsureShard(s), LAMBDA r :
      {Failed(r.s), Failed(ReservationFailed(r.s)),
       Done([r.s EXCEPT !.shard = Synced(@), !.res = @ \cup {u}])})

\* Mutant: a saturated count is taken for an unchanged one.
BarriersHoldUnsaturated(s, prepared) == s.fails = prepared

\* validate_reservation_barriers
BarriersHold(s, prepared) == s.fails # MaxFails /\ s.fails = prepared

-----------------------------------------------------------------------------
(* Reclamation. *)

Punched(s, units) ==
    [s EXCEPT !.shard = SlotsPut(@, [u \in units |-> Zero]), !.res = @ \ units]

\* punch_slots: runs of adjacent slots, in order, then one sync.  A file
\* system without hole punching leaves everything as it is.
PunchSlots(s, units) ==
    IF units = {} THEN {Done(s)}
    ELSE LET all == Punched(s, units)
         IN  {Done(s), Done([all EXCEPT !.shard = Synced(@)]), Failed([all EXCEPT !.shard = SyncFailed(@)])}
             \cup {Failed(Punched(s, {w \in units : w < u})) : u \in {u \in units : u - 1 \notin units}}

ScheduleReclamation(s) == [s EXCEPT !.cursor = IF s.disc = {} THEN 0 ELSE 1]

\* reclaim_unwritten: the reservation of a slot that reads as zeros is queued.
ReclaimUnwritten(s, u) ==
    [SetDiscarded(s, {u}, {}) EXCEPT !.cursor = IF @ = 0 \/ u < @ THEN u ELSE @]

\* retry_reclamation: one window, whose failure keeps the cursor.
RetryReclamation(s, canPunch) ==
    LET end == IF s.cursor + Window < MaxLen THEN s.cursor + Window ELSE MaxLen
    IN  IF s.cursor = 0 THEN {Done(s)}
        ELSE IF s.discDirty THEN {Failed(s)}
        ELSE Then(PunchSlots(s, (s.cursor..(end - 1)) \cap s.disc \cap canPunch), LAMBDA r :
               {Done([r.s EXCEPT !.cursor = IF end < MaxLen THEN end ELSE 0])})

-----------------------------------------------------------------------------
(* Opening the store. *)

\* What the process keeps in memory is gone.
Closed(s) ==
    [s EXCEPT !.alloc = {}, !.allocDirty = FALSE, !.mapStored = FALSE,
              !.disc = {}, !.discDirty = FALSE, !.cursor = 0, !.fails = 0]

\* probe_shard: units that the maps do not list and whose slot has a header.
Probed(s) == {u \in Unit : u \notin s.alloc \cup s.disc /\ s.shard.data[u + 1].k = "slot"}

\* The maps that SlotStore::open loads, which may be in the page cache only:
\* neither pair counts as stored.
Loaded(s) ==
    [s EXCEPT !.alloc = s.allocReg.now, !.allocDirty = FALSE, !.mapStored = FALSE,
              !.disc = s.discReg.now, !.discDirty = TRUE, !.cursor = 0, !.fails = 0]

\* SlotStore::open.  A map with a damaged copy may be the older one: the slots
\* are probed.
OpenStore(s) ==
    LET probed == Probed(Loaded(s))
    IN  {Loaded(s), [Loaded(s) EXCEPT !.alloc = @ \cup probed, !.allocDirty = probed # {}]}

\* A shard as ensure_shard creates it.
NewStore ==
    [shard |-> Settled([j \in Pos |-> Zero]),
     alloc |-> {}, allocReg |-> Stored(0, {}), allocDirty |-> FALSE, mapStored |-> FALSE,
     disc |-> {}, discReg |-> Stored(0, {}), discDirty |-> FALSE,
     res |-> {}, cursor |-> 0, fails |-> 0]

\* The store a power loss leaves of shard and maps, and all of them.
Survivor(s, f, a, d) == [Closed(s) EXCEPT !.shard = f, !.allocReg = Stored(@, a), !.discReg = Stored(@, d)]

StoreSurvivors(s) ==
    {Survivor(s, f, a, d) : f \in Survivors(s.shard), a \in s.allocReg.may, d \in s.discReg.may}
=============================================================================
