------------------------------- MODULE Engine -------------------------------
(***************************************************************************)
(* The data path of the block engine (maki-core engine.rs): concurrent     *)
(* READ, WRITE, TRIM and FLUSH callbacks over one volume, their admission, *)
(* unit locks, read-modify-write, read cache, batches and cancellation.    *)
(*                                                                         *)
(* A callback is a client slot that runs one request at a time, one action *)
(* per stretch of the code between two awaits.  Work under the volume lock *)
(* is one action.  The device is a row of blocks, BlocksPerUnit to a       *)
(* crypto unit.  The volume is the sequence of its published records       *)
(* (their positions are the write sequences), of which the first durable   *)
(* ones are synced: Volume and Journal model what is behind it, and        *)
(* EngineReclaim the journal admission that a publication may wait for.    *)
(* A ciphertext stands for the unit contents it decrypts to; the provider  *)
(* may fail any call.                                                      *)
(***************************************************************************)
EXTENDS ReadCache, FiniteSetsExt

CONSTANTS
    Client,         \* callbacks that run at the same time
    Units,          \* crypto units of the device
    BlocksPerUnit,  \* device blocks in a crypto unit
    Requests,       \* the requests <<op, first block, last block, fua>>
    MaxSlots,       \* max_active_callbacks
    ByteLimits,     \* the values of max_plaintext_bytes, in units
    BatchItems,     \* batch_max_items of the provider
    ChunkUnits,     \* max_request_bytes, in units: the size of a trim chunk
    Filled,         \* the units that hold data when the engine attaches
    CacheSizes,     \* the sizes the read cache is configured to
    MaxOps,         \* bound on the requests
    MaxExpiries     \* bound on cache expiries and reconfigurations

ASSUME EngineAssumption ==
    /\ {Units, BlocksPerUnit, MaxSlots, BatchItems, ChunkUnits} \cup ByteLimits \subseteq Nat \ {0}
    /\ Requests \subseteq {"read", "write", "trim", "flush"} \X Nat \X Nat \X BOOLEAN
    /\ \A q \in Requests : /\ q[2] <= q[3] /\ q[3] < Units * BlocksPerUnit
                           /\ q[1] = "read" => ~q[4]
    /\ Filled \subseteq 0..(Units - 1)
    /\ CacheSizes # {} /\ CacheSizes \subseteq Nat
    /\ MaxOps \in Nat /\ MaxExpiries \in Nat

VARIABLES
    maxBytes, \* max_plaintext_bytes
    rq,       \* the request of each client
    log,      \* the published records of the volume
    durable,  \* how many of them are synced
    cache,    \* the read cache
    acked,    \* history: how many records callers were told are durable
    failed,   \* the failure latch of a panic under the volume write lock
    ops,      \* the requests begun so far
    ticks     \* the cache expiries and reconfigurations so far

vars == <<maxBytes, rq, log, durable, cache, acked, failed, ops, ticks>>

Unit == 0..(Units - 1)
Offset == 0..(BlocksPerUnit - 1)
Zeroes == [o \in Offset |-> 0]

\* The contents of a unit that a panic left half updated.
Garbage == [o \in Offset |-> -1]

-----------------------------------------------------------------------------
(* The volume: the version of a unit after the first i records. *)

Version(u, i) == Max({0} \cup {n \in 1..i : log[n].unit = u})

\* Volume::current_sequence: 0 for a unit that is unwritten or discarded.
SequenceAt(u, i) == LET n == Version(u, i)
                    IN  IF n = 0 THEN 0 ELSE IF log[n].live THEN n ELSE 0

CurrentSequence(u) == SequenceAt(u, Len(log))

ContentAt(u, i) == LET n == SequenceAt(u, i) IN IF n = 0 THEN Zeroes ELSE log[n].data

-----------------------------------------------------------------------------
(* Requests. *)

NoRequest == [stage |-> "idle"]

Active(c) == rq[c].stage # "idle"

\* The units a block range touches, and the ones it covers.
UnitsOf(e) == {u \in Unit : e[1] \div BlocksPerUnit <= u /\ u <= e[2] \div BlocksPerUnit}

Covers(e, u) == e[1] <= u * BlocksPerUnit /\ (u + 1) * BlocksPerUnit - 1 <= e[2]

Written(e, u) == {o \in Offset : e[1] <= u * BlocksPerUnit + o /\ u * BlocksPerUnit + o <= e[2]}

\* Chunks of a trim: the next whole units, from first on.
Chunk(e, first) == {u \in Unit : Covers(e, u) /\ first <= u /\ u < first + ChunkUnits}

FirstChunk(e) ==
    LET whole == {u \in Unit : Covers(e, u)} IN IF whole = {} THEN {} ELSE Chunk(e, Min(whole))

\* trim_inner goes on with the units after the chunk it has journaled.
NextChunk(r) == Chunk(r.extent, Max(r.span) + 1)

Span(op, e) == CASE op = "flush" -> {} [] op = "trim" -> FirstChunk(e) [] OTHER -> UnitsOf(e)

\* Admission (DualSemaphore): what the requests hold, and what is left.
FreeSlots == MaxSlots - MapThenSumSet(LAMBDA c : IF Active(c) THEN rq[c].slots ELSE 0, Client)
FreeBytes == maxBytes - MapThenSumSet(LAMBDA c : IF Active(c) THEN rq[c].bytes ELSE 0, Client)

\* run_batches: the first batch uses the slot of the request, each further one
\* an idle slot if there is one.
Batches(units) == (Cardinality(units) + BatchItems - 1) \div BatchItems

ExtraSlots(units) == Max({0, Min({Batches(units) - 1, FreeSlots})})

Locked(u) == \E c \in Client : Active(c) /\ u \in rq[c].locks

Becomes(c, r) == rq' = [rq EXCEPT ![c] = r]

\* The request ends without the caller learning of anything durable.
End(c) == Becomes(c, NoRequest)

\* The request succeeds.  A caller that is still there takes a FLUSH to cover
\* what was published when it began, and FUA to cover all that is published.
Succeed(c) ==
    /\ End(c)
    /\ acked' = IF rq[c].gone \/ ~rq[c].fua THEN acked
                ELSE Max({acked, IF rq[c].span = {} THEN rq[c].at ELSE Len(log')})

-----------------------------------------------------------------------------
\* The sequence of the members of a set of units in ascending order, as the
\* only member of a set.
Ascending(units) ==
    {s \in [1..Cardinality(units) -> units] :
        \A i, j \in 1..Cardinality(units) : i < j => s[i] < s[j]}

\* The history an attach recovers: one old record for each unit with data.
Recovered(sorted) ==
    [i \in 1..Len(sorted) |-> [unit |-> sorted[i], live |-> TRUE, by |-> Offset,
                               data |-> [o \in Offset |-> MaxOps + 1]]]

Init ==
    /\ maxBytes \in ByteLimits
    /\ rq = [c \in Client |-> NoRequest]
    /\ log \in {Recovered(sorted) : sorted \in Ascending(Filled)}
    /\ durable = Len(log)
    /\ acked = Len(log)
    /\ cache \in {EmptyCache(Unit, m) : m \in CacheSizes}
    /\ failed = FALSE
    /\ ops = 0
    /\ ticks = 0

Begun(q) ==
    [stage |-> "items", op |-> q[1], extent |-> <<q[2], q[3]>>, fua |-> q[4], val |-> ops + 1,
     span |-> Span(q[1], <<q[2], q[3]>>), slots |-> 0, bytes |-> 0, locks |-> {}, seen |-> <<>>,
     at |-> Len(log), gone |-> FALSE]

\* A callback starts: check_running and the range checks.  A request that
\* could never be admitted, or comes to a stopped engine, fails at once.
Begin(c) ==
    /\ ~Active(c)
    /\ ~failed
    /\ ops < MaxOps
    /\ \E q \in Requests :
         /\ Cardinality(Span(q[1], <<q[2], q[3]>>)) <= maxBytes
         /\ Becomes(c, Begun(q))
    /\ ops' = ops + 1
    /\ UNCHANGED <<log, durable, cache, acked, failed, ticks, maxBytes>>

\* DualSemaphore::acquire takes the slot, then the bytes.
AcquireSlot(c) ==
    /\ rq[c].stage = "items"
    /\ FreeSlots >= 1
    /\ Becomes(c, [rq[c] EXCEPT !.stage = "bytes", !.slots = 1])
    /\ UNCHANGED <<log, durable, cache, acked, failed, ops, ticks, maxBytes>>

AcquireBytes(c) ==
    /\ rq[c].stage = "bytes"
    /\ FreeBytes >= Cardinality(rq[c].span)
    /\ Becomes(c, [rq[c] EXCEPT !.stage = "fresh", !.bytes = Cardinality(rq[c].span)])
    /\ UNCHANGED <<log, durable, cache, acked, failed, ops, ticks, maxBytes>>

\* check_freshness, and what each kind of request does next.
CheckFreshness(c) ==
    /\ rq[c].stage = "fresh"
    /\ LET r == rq[c]
       IN  \/ End(c)
           \/ r.op = "read" /\ Becomes(c, [r EXCEPT !.stage = "snapshot"])
           \/ r.op = "flush" /\ Becomes(c, [r EXCEPT !.stage = "sync"])
           \/ r.op \in {"write", "trim"} /\ r.span # {} /\ Becomes(c, [r EXCEPT !.stage = "lock"])
           \/ r.op = "trim" /\ r.span = {} /\ r.fua /\ Becomes(c, [r EXCEPT !.stage = "sync"])
           \/ r.op = "trim" /\ r.span = {} /\ ~r.fua /\ End(c)
    /\ UNCHANGED <<log, durable, cache, acked, failed, ops, ticks, maxBytes>>

\* The request once it holds the lock of u too.
Locking(r, u) ==
    LET locks == r.locks \cup {u}
        done == IF r.op = "write" THEN "snapshot" ELSE "publish"
    IN  [r EXCEPT !.locks = locks, !.stage = IF locks = r.span THEN done ELSE "lock"]

\* Mutant: the units are locked in any order.
LockUnitAnyOrder(c) ==
    /\ rq[c].stage = "lock"
    /\ \E u \in rq[c].span \ rq[c].locks : ~Locked(u) /\ Becomes(c, Locking(rq[c], u))
    /\ UNCHANGED <<log, durable, cache, acked, failed, ops, ticks, maxBytes>>

\* UnitLocks::lock_range takes the next unit of the range, in ascending order.
LockUnit(c) ==
    /\ rq[c].stage = "lock"
    /\ LET u == Min(rq[c].span \ rq[c].locks) IN ~Locked(u) /\ Becomes(c, Locking(rq[c], u))
    /\ UNCHANGED <<log, durable, cache, acked, failed, ops, ticks, maxBytes>>

\* The units a request looks at: a read all of them, a write the partial ones.
Wanted(r) == IF r.op = "read" THEN r.span ELSE {u \in r.span : ~Covers(r.extent, u)}

\* One unit as the storage task finds it: nothing, a cached version, or a
\* ciphertext that has to be decrypted.
Look(u) ==
    LET n == CurrentSequence(u)
    IN  IF n = 0 THEN [n |-> 0, data |-> Zeroes, hit |-> TRUE]
        ELSE IF Hit(cache, u, n) THEN [n |-> n, data |-> cache.map[u].data, hit |-> TRUE]
        ELSE [n |-> n, data |-> log[n].data, hit |-> FALSE]

\* The cache after the lookups of the units in sorted.
LookedUp(sorted) ==
    LET after[i \in 0..Len(sorted)] ==
            IF i = 0 THEN cache
            ELSE IF CurrentSequence(sorted[i]) = 0 THEN after[i - 1]
            ELSE Get(after[i - 1], sorted[i], CurrentSequence(sorted[i]))
    IN  after[Len(sorted)]

Misses(seen) == {u \in DOMAIN seen : ~seen[u].hit}

\* The storage task of a read, and of the read half of a write, under the
\* volume read lock; decryption starts.
Snapshot(c) ==
    /\ rq[c].stage = "snapshot"
    /\ \/ End(c) /\ UNCHANGED cache
       \/ /\ ~failed
          /\ LET seen == [u \in Wanted(rq[c]) |-> Look(u)]
             IN  Becomes(c, [rq[c] EXCEPT !.stage = "decrypt", !.seen = seen,
                                          !.slots = 1 + ExtraSlots(Misses(seen))])
          /\ \E sorted \in Ascending(Wanted(rq[c])) : cache' = LookedUp(sorted)
    /\ UNCHANGED <<log, durable, acked, failed, ops, ticks, maxBytes>>

\* A read caches what it decrypted under the version it read, in the order of
\* a hash table.
Cached(r, order) ==
    LET after[i \in 0..Len(order)] ==
            IF i = 0 THEN cache
            ELSE Put(after[i - 1], order[i], r.seen[order[i]].n, r.seen[order[i]].data)
    IN  after[Len(order)]

\* The provider has answered.  A read is done; a write merges its blocks into
\* what it read and encrypts all its units.
Decrypt(c) ==
    /\ rq[c].stage = "decrypt"
    /\ \/ End(c) /\ UNCHANGED <<cache, acked>>
       \/ /\ rq[c].op = "read"
          /\ \E order \in SetToSeqs(Misses(rq[c].seen)) : cache' = Cached(rq[c], order)
          /\ Succeed(c)
       \/ /\ rq[c].op = "write"
          /\ Becomes(c, [rq[c] EXCEPT !.stage = "encrypt", !.slots = 1 + ExtraSlots(rq[c].span)])
          /\ UNCHANGED <<cache, acked>>
    /\ UNCHANGED <<log, durable, failed, ops, ticks, maxBytes>>

\* The provider has encrypted; the owner task of the publication starts.
Encrypt(c) ==
    /\ rq[c].stage = "encrypt"
    /\ \/ End(c)
       \/ Becomes(c, [rq[c] EXCEPT !.stage = "publish", !.slots = 1])
    /\ UNCHANGED <<log, durable, cache, acked, failed, ops, ticks, maxBytes>>

\* The plaintext of a unit that a write publishes.
Merged(r, u) ==
    [o \in Offset |-> IF o \in Written(r.extent, u) THEN r.val
                      ELSE r.seen[u].data[o]]

\* The units a request publishes.  A discard of a unit that reads as zeros
\* leaves no record.
Changed(r) == {u \in r.span : r.op = "write" \/ CurrentSequence(u) # 0}

RecordOf(r, u) ==
    IF r.op = "write" THEN [unit |-> u, live |-> TRUE, by |-> Written(r.extent, u), data |-> Merged(r, u)]
    ELSE [unit |-> u, live |-> FALSE, by |-> Offset, data |-> Zeroes]

\* Mutant: FUA applies to the first chunk of a trim.
SyncsFirst(r) == r.fua /\ (r.op = "trim" => Min(r.span) = Min(FirstChunk(r.extent)))

\* FUA applies to the last chunk of a trim.
Syncs(r) == r.fua /\ (r.op = "trim" => NextChunk(r) = {})

\* A caller that is still there goes on with the next chunk of its trim.
Published(c) ==
    LET r == rq[c]
    IN  IF r.op = "trim" /\ NextChunk(r) # {} /\ ~r.gone
        THEN /\ Becomes(c, [r EXCEPT !.stage = "items", !.span = NextChunk(r), !.slots = 0,
                                     !.bytes = 0, !.locks = {}])
             /\ UNCHANGED acked
        ELSE Succeed(c)

Invalidated(units) ==
    LET after[i \in 0..Len(units)] == IF i = 0 THEN cache ELSE Evicted(after[i - 1], units[i])
    IN  after[Len(units)]

\* journal_request under the volume write lock: the records of the first k
\* units are published, in ascending order; a roll or the limit on pending
\* bytes may sync the ones before; an error after k records leaves these
\* visible.
Publish(c) ==
    /\ rq[c].stage = "publish"
    /\ ~failed
    /\ \E units \in Ascending(Changed(rq[c])), ok \in BOOLEAN : \E k \in 0..Len(units) :
         LET total == Len(log) + k
         IN  /\ ok => k = Len(units)
             /\ log' = log \o [i \in 1..k |-> RecordOf(rq[c], units[i])]
             /\ cache' = Invalidated(SubSeq(units, 1, k))
             /\ IF ok /\ Syncs(rq[c]) THEN durable' = total
                ELSE durable' \in {durable} \cup Len(log)..(IF k = 0 THEN Len(log) ELSE total - 1)
             /\ IF ok THEN Published(c) ELSE End(c) /\ UNCHANGED acked
    /\ UNCHANGED <<failed, ops, ticks, maxBytes>>

\* The publication finds the engine stopped, is refused for space, or its
\* checkpoint fails.
Refused(c) ==
    /\ rq[c].stage = "publish"
    /\ End(c)
    /\ UNCHANGED <<log, durable, cache, acked, failed, ops, ticks, maxBytes>>

\* A panic under the volume write lock: the guard latches the failure before
\* it gives back a volume that is half updated.
Panic(c) ==
    /\ rq[c].stage = "publish"
    /\ ~failed
    /\ \E u \in rq[c].span :
         log' = Append(log, [unit |-> u, live |-> TRUE, by |-> Offset, data |-> Garbage])
    /\ failed' = TRUE
    /\ End(c)
    /\ UNCHANGED <<durable, cache, acked, ops, ticks, maxBytes>>

\* flush_inner under the volume write lock.
SyncJournal(c) ==
    /\ rq[c].stage = "sync"
    /\ \/ End(c) /\ UNCHANGED <<durable, acked>>
       \/ ~failed /\ durable' = Len(log) /\ Succeed(c)
    /\ UNCHANGED <<log, cache, failed, ops, ticks, maxBytes>>

\* Mutant: the guards of a cancelled write go although its owner still runs.
CancelReleasing(c) ==
    /\ Active(c)
    /\ ~rq[c].gone
    /\ \/ rq[c].stage \in {"items", "bytes", "fresh", "lock", "snapshot", "decrypt", "encrypt", "sync"}
          /\ End(c)
       \/ rq[c].stage \in {"fresh", "snapshot"} /\ Becomes(c, [rq[c] EXCEPT !.stage = "drain", !.gone = TRUE])
       \/ rq[c].stage \in {"publish", "sync"}
          /\ Becomes(c, [rq[c] EXCEPT !.gone = TRUE, !.locks = {}])
    /\ UNCHANGED <<log, durable, cache, acked, failed, ops, ticks, maxBytes>>

\* The caller stops waiting.  What it waits for is released with it, except
\* by a storage task or a publication in flight: these own their guards.
Cancel(c) ==
    /\ Active(c)
    /\ ~rq[c].gone
    /\ \/ rq[c].stage \in {"items", "bytes", "fresh", "lock", "snapshot", "decrypt", "encrypt", "sync"}
          /\ End(c)
       \/ rq[c].stage \in {"fresh", "snapshot"} /\ Becomes(c, [rq[c] EXCEPT !.stage = "drain", !.gone = TRUE])
       \/ rq[c].stage \in {"publish", "sync"} /\ Becomes(c, [rq[c] EXCEPT !.gone = TRUE])
    /\ UNCHANGED <<log, durable, cache, acked, failed, ops, ticks, maxBytes>>

\* The storage task of a cancelled caller ends and gives back its guards.
Drain(c) ==
    /\ rq[c].stage = "drain"
    /\ End(c)
    /\ UNCHANGED <<log, durable, cache, acked, failed, ops, ticks, maxBytes>>

\* The time to live of an entry passes.
Expire ==
    /\ ticks < MaxExpiries
    /\ \E u \in Unit : Holds(cache, u) /\ ~cache.map[u].expired /\ cache' = Expired(cache, u)
    /\ ticks' = ticks + 1
    /\ UNCHANGED <<rq, log, durable, acked, failed, ops, maxBytes>>

\* configure_cache
ConfigureCache ==
    /\ ticks < MaxExpiries
    /\ \E m \in CacheSizes \ {cache.max} : cache' = Reconfigure(cache, m)
    /\ ticks' = ticks + 1
    /\ UNCHANGED <<rq, log, durable, acked, failed, ops, maxBytes>>

Wait(c) == AcquireSlot(c) \/ AcquireBytes(c) \/ LockUnit(c)

Run(c) ==
    \/ CheckFreshness(c) \/ Snapshot(c) \/ Decrypt(c) \/ Encrypt(c)
    \/ Publish(c) \/ Refused(c) \/ SyncJournal(c) \/ Drain(c)

Next ==
    \/ \E c \in Client : Begin(c) \/ Wait(c) \/ Run(c) \/ Panic(c) \/ Cancel(c)
    \/ Expire \/ ConfigureCache

Spec == Init /\ [][Next]_vars

-----------------------------------------------------------------------------
(* Properties. *)

Stages == {"idle", "items", "bytes", "fresh", "lock", "snapshot", "decrypt", "encrypt",
           "publish", "sync", "drain"}

\* Types, and at most one holder of the lock of a unit.
TypeOK ==
    /\ maxBytes \in ByteLimits
    /\ \A c \in Client : rq[c].stage \in Stages
    /\ durable \in 0..Len(log) /\ acked \in 0..Len(log)
    /\ \A i \in 1..Len(log) : log[i].unit \in Unit /\ log[i].by \subseteq Offset
    /\ failed \in BOOLEAN
    /\ ops \in 0..MaxOps /\ ticks \in 0..MaxExpiries
    /\ \A c, d \in Client : c # d /\ Active(c) /\ Active(d) => rq[c].locks \cap rq[d].locks = {}

\* Every cached entry is the plaintext of the version it is filed under, the
\* recency index lists exactly the cached units, and the size limit holds,
\* however late a slow reader files what it decrypted.
CacheCoherent ==
    /\ Len(cache.order) <= cache.max
    /\ {cache.order[i] : i \in 1..Len(cache.order)} = {u \in Unit : Holds(cache, u)}
    /\ IsInjective(cache.order)
    /\ \A u \in Unit : Holds(cache, u) =>
         cache.map[u].seq \in 1..Len(log) /\ log[cache.map[u].seq].unit = u
         /\ log[cache.map[u].seq].data = cache.map[u].data

\* What a read or the read half of a write has seen of its units, cached or
\* not, is the state of the volume at one moment since the request began:
\* neither a mix of versions nor one that was overwritten before, and nothing
\* that a panic left behind; and the cache it is served from stays coherent
\* (read_secret_inner, write_admitted, VersionedLruCache).
ReadsLinear ==
    /\ CacheCoherent
    /\ \A c \in Client :
        rq[c].stage \in {"decrypt", "encrypt"} =>
            \E i \in rq[c].at..Len(log) :
                \A u \in DOMAIN rq[c].seen :
                    rq[c].seen[u].data = ContentAt(u, i) /\ rq[c].seen[u].data # Garbage

\* A record changes only the blocks its request wrote: the read-modify-write
\* of a partial unit never brings back blocks that another request has
\* changed in between (write_admitted under its unit locks, also when the
\* caller is cancelled).
NoLostUpdate ==
    /\ TypeOK
    /\ \A n \in 1..Len(log) :
         \A o \in Offset \ log[n].by : log[n].data[o] = ContentAt(log[n].unit, n - 1)[o]

\* A FLUSH that succeeds makes durable all that was published when it was
\* called; a FUA write or trim that succeeds, every record of all its chunks
\* and all before (flush_inner, journal_request, trim_inner).
AckedDurable == acked <= durable

\* Callbacks cannot end up waiting for each other: whatever each of them holds
\* of slots, bytes and unit locks, one that is active can take its next step,
\* and the steps of a callback are finitely many; the callbacks together never
\* hold more slots or bytes than there are (acquire_n, lock_range).
NeverStuck ==
    /\ FreeSlots \in 0..MaxSlots /\ FreeBytes \in 0..maxBytes
    /\ (\E c \in Client : Active(c)) => \E c \in Client : ENABLED (Wait(c) \/ Run(c))
=============================================================================
