-------------------------- MODULE RollbackBacking --------------------------
(***************************************************************************)
(* The copy-on-write backing with an independent local witness (maki-      *)
(* backing rollback.rs and witness.rs): a reserved arena of page slots,    *)
(* two manifest files, and in another file system an anchor that selects   *)
(* the one manifest an open may use.  Every operation runs under the       *)
(* session mutex and is one action; a crash inside an operation is one of  *)
(* its error outcomes followed by Crash or Close.                          *)
(*                                                                         *)
(* Abstractions.  A page is one value; lengths are rounded up to pages; a  *)
(* page part of which is zeroed becomes Zero.  A digest is the value it    *)
(* digests, so the anchor is the manifest itself.  A write of several      *)
(* pages is the writes of its pages: nothing runs between them and an      *)
(* error in the middle stops the session.  Manifest files carry their      *)
(* length and name with their content.  A file has one handle at most.     *)
(***************************************************************************)
EXTENDS Outcomes, Integers, FiniteSets, Functions, FiniteSetsExt

CONSTANTS
    Capacity,    \* capacity / PAGE
    MaxPages,    \* bound on the length of a file, in pages
    Val,         \* what a caller writes in a page
    Name,        \* file paths
    Dir,         \* directory paths below the root
    Parent,      \* the directory of each path
    MaxEntries,  \* MAX_ENTRIES
    MaxId,       \* bound on the file identities
    MaxGen,      \* MAX_GENERATION of the witness
    MaxCalls,    \* bound on the calls that change a session
    MaxFaults    \* bound on failed calls, ends of sessions, power losses and restores

Root == "root"
Page == 1..MaxPages
Slot == 0..(2 * Capacity - 1)   \* the page slots of the arena
Id == 1..MaxId
Zero == 0    \* a page of zeros
Torn == -1   \* a page that was written half

ASSUME RollbackAssumption ==
    /\ Capacity \in Nat \ {0} /\ MaxPages \in Nat \ {0} /\ Val \cap {Zero, Torn} = {}
    /\ Name \cap Dir = {} /\ Root \notin Name \cup Dir
    /\ Parent \in [Name \cup Dir -> Dir \cup {Root}] /\ \A p \in Dir : Parent[p] = Root
    /\ MaxEntries \in Nat /\ MaxId \in Nat \ {0} /\ MaxGen \in Nat /\ MaxCalls \in Nat /\ MaxFaults \in Nat

VARIABLES
    pc,        \* "none" (not enrolled), "down" or "up"
    s,         \* the session (State), while pc = "up"
    d,         \* the backing directory and the witness directory
    out,       \* "invalid" after a consistency check failed, else "ok"
    owed,      \* history: the namespaces the next open may show
    restored,  \* a copy was put back and no open has succeeded since
    calls,     \* the calls so far
    faults     \* the faults so far

vars == <<pc, s, d, out, owed, restored, calls, faults>>

-----------------------------------------------------------------------------
(* What power loss and failed syncs do to a page, a manifest or a length.  *)

Cell(v) == [now |-> v, may |-> {v}, dirty |-> FALSE]

\* write_at: until a sync succeeds the disk has the old, the new or a torn
\* value.  Writing what the disk certainly has changes nothing on it.
Wrote(c, v, torn) ==
    [now |-> v, may |-> IF c.may = {v} THEN {v} ELSE c.may \cup {v, torn}, dirty |-> TRUE]

Flushed(c) == IF c.dirty THEN Cell(c.now) ELSE c

\* A failed sync leaves the cell clean without saying what reached the disk.
Unflushed(c) == [c EXCEPT !.dirty = FALSE]

\* sync_data and sync_all of the arena: all its pages and its length.
ArenaSynced(disk) ==
    [disk EXCEPT !.page = [x \in Slot |-> Flushed(disk.page[x])], !.len = Flushed(@)]
ArenaSyncFailed(disk) ==
    [disk EXCEPT !.page = [x \in Slot |-> Unflushed(disk.page[x])], !.len = Unflushed(@)]

\* publish_anchor after its rename, until the directory is synced.
Renamed(anchor, m) == [now |-> m, may |-> anchor.may \cup {m}]

-----------------------------------------------------------------------------
(* Manifests. *)

NoManifest == [gen |-> -1]
Directory == 0   \* Entry::Directory; Entry::File(id) is id
EmptyNode == [len |-> 0, pages |-> << >>, res |-> {}]

EmptyManifest == [gen |-> 0, next |-> 1, entries |-> << >>, files |-> << >>]

\* BTreeMap::insert, and a map g after every binding of f was inserted in it.
Insert(f, x, v) == [y \in DOMAIN f \cup {x} |-> IF y = x THEN v ELSE f[y]]

Extend(f, g) == [y \in DOMAIN f \cup DOMAIN g |-> IF y \in DOMAIN f THEN f[y] ELSE g[y]]

Linked(entries) == Range(entries) \ {Directory}

Refs(files) == UNION {{id} \X DOMAIN files[id].pages : id \in DOMAIN files}

SlotsOf(files) == {files[r[1]].pages[r[2]].slot : r \in Refs(files)}

Reserved(files) == UNION {{id} \X files[id].res : id \in DOMAIN files}

\* Manifest::validate, the limits on counts apart.
Consistent(m) ==
    /\ \A p \in DOMAIN m.entries :
         /\ Parent[p] # Root => Parent[p] \in DOMAIN m.entries /\ m.entries[Parent[p]] = Directory
         /\ m.entries[p] # Directory => m.entries[p] \in DOMAIN m.files
         /\ \A q \in DOMAIN m.entries \ {p} : m.entries[q] = m.entries[p] => m.entries[p] = Directory
    /\ \A id \in DOMAIN m.files : /\ 0 < id /\ id < m.next
                                  /\ DOMAIN m.files[id].pages \subseteq 1..m.files[id].len \cap m.files[id].res
    /\ Cardinality(SlotsOf(m.files)) = Cardinality(Refs(m.files))
    /\ Cardinality(Reserved(m.files)) <= Capacity

Fits(m) == Cardinality(DOMAIN m.entries) <= MaxEntries /\ Cardinality(DOMAIN m.files) <= MaxEntries

-----------------------------------------------------------------------------
(* Sessions. *)

NoSession == [com |-> NoManifest]

\* assemble_witness
Assembled(m, j) ==
    [com |-> m, slot |-> j, entries |-> m.entries, files |-> m.files, next |-> m.next,
     handles |-> {}, used |-> {}]

CommittedSlots(st) == SlotsOf(st.com.files)

Coordinates(st) == Reserved(st.com.files) \cup Reserved(st.files)

\* Outcomes: success, an error that leaves the session usable, and one that
\* poisons it.
Ok(st, disk) == [ok |-> TRUE, stop |-> FALSE, s |-> st, d |-> disk, out |-> "ok"]
Refuse(st, disk) == [ok |-> FALSE, stop |-> FALSE, s |-> st, d |-> disk, out |-> "ok"]
Inconsistent(o) == [o EXCEPT !.out = "invalid"]
Stop(disk) == [ok |-> FALSE, stop |-> TRUE, s |-> NoSession, d |-> disk, out |-> "ok"]

\* The files a commit keeps: those linked in either namespace and the open ones.
Retain(candidate, st) == Linked(candidate.entries) \cup Linked(st.entries) \cup st.handles

\* State::commit.  The arena is synced, then the inactive manifest is written
\* and synced, then the witness advances; any failure poisons the session.
Commit(st, disk, candidate) ==
    LET retain == Retain(candidate, st)
        m == [candidate EXCEPT !.next = st.next, !.gen = disk.anchor.now.gen + 1,
                               !.files = Restrict(@, DOMAIN @ \cap retain)]
        j == 1 - st.slot
        synced == ArenaSynced(disk)
        half == [synced EXCEPT !.man[j] = Wrote(@, NoManifest, NoManifest)]
        written == [synced EXCEPT !.man[j] = Wrote(@, m, NoManifest)]
        kept == [written EXCEPT !.man[j] = Flushed(@)]
    IN  IF ~Fits(m) THEN {Refuse(st, disk)}
        ELSE IF ~Consistent(m) THEN {Inconsistent(Refuse(st, disk))}
        ELSE {Stop(disk), Stop(ArenaSyncFailed(disk)), Stop(half),
              Stop([written EXCEPT !.man[j] = Unflushed(@)]), Stop(kept)} \cup
             IF m.gen > MaxGen THEN {}
             ELSE {Stop([kept EXCEPT !.anchor = Renamed(@, m)]),
                   Ok([st EXCEPT !.com = m, !.slot = j, !.used = {},
                                 !.files = Restrict(@, DOMAIN @ \cap retain)],
                      [kept EXCEPT !.anchor = Stored(@, m)])}

ReclaimClosedFiles(st, disk) ==
    LET retained == Linked(st.com.entries) \cup Linked(st.entries) \cup st.handles
    IN  IF DOMAIN st.com.files \cup DOMAIN st.files \subseteq retained THEN {Ok(st, disk)}
        ELSE Commit(st, disk, st.com)

Widened(node, range) == [node EXCEPT !.res = @ \cup range, !.len = Max({@} \cup range)]

NodeOf(files, id) == IF id \in DOMAIN files THEN files[id] ELSE EmptyNode

\* State::reserve: the new coordinates are committed before they are used.
Reserve(st, disk, id, range) ==
    LET widen(x) == [x EXCEPT !.files[id] = Widened(@, range)]
        claim(m, node) == [m EXCEPT !.files = Insert(@, id, Widened(node, range))]
        covered == range \subseteq NodeOf(st.com.files, id).res /\ range \subseteq st.files[id].res
    IN  IF covered THEN {Ok(widen(st), disk)}
        ELSE Then(ReclaimClosedFiles(st, disk), LAMBDA o :
               LET durable == NodeOf(o.s.com.files, id)
               IN  IF Cardinality(Coordinates(o.s) \cup {id} \X range) > Capacity
                   THEN {Refuse(o.s, o.d)}
                   ELSE IF range \subseteq durable.res THEN {Ok(widen(o.s), o.d)}
                   ELSE Then(Commit(o.s, o.d, claim(o.s.com, durable)),
                             LAMBDA p : {Ok(widen(p.s), p.d)}))

\* State::page: an unauthentic page poisons the session.
ReadPage(st, disk, id, i) ==
    IF i \in DOMAIN st.files[id].pages
       /\ LET r == st.files[id].pages[i] IN disk.page[r.slot].now # r.val
    THEN {Inconsistent(Stop(disk))}
    ELSE {Ok(st, disk)}

\* State::allocate_slot: the cached set of slots in use, computed anew when an
\* operation made it stale, and the first free slot from the hint on.
UsedSlots(st) ==
    IF st.used = {} THEN [slots |-> CommittedSlots(st) \cup SlotsOf(st.files), hint |-> 0]
    ELSE CHOOSE u \in st.used : TRUE

FirstFree(u) ==
    LET free == Slot \ u.slots
        behind == {x \in free : x >= u.hint}
    IN  Min(IF behind # {} THEN behind ELSE free)

\* Mutant: the page of a committed manifest is rewritten in place, too.
OwnSlotAny(st, id, i) ==
    LET pages == st.files[id].pages IN IF i \in DOMAIN pages THEN {pages[i].slot} ELSE {}

\* The slot of a page that was written since the last commit.
OwnSlot(st, id, i) ==
    LET pages == st.files[id].pages
    IN  IF i \in DOMAIN pages THEN {pages[i].slot} \ CommittedSlots(st) ELSE {}

\* State::write_page: a page of the committed manifest is never overwritten,
\* one written since the last commit is rewritten in place.
WritePage(st, disk, id, i, v) ==
    LET own == OwnSlot(st, id, i)
        u == UsedSlots(st)
        x == IF own # {} THEN CHOOSE y \in own : TRUE ELSE FirstFree(u)
        put == [st EXCEPT !.files[id].pages = Insert(@, i, [slot |-> x, val |-> v]),
                          !.used = IF own # {} THEN @ ELSE {[slots |-> u.slots \cup {x}, hint |-> x + 1]}]
    IN  IF own = {} /\ Slot \subseteq u.slots THEN {Inconsistent(Refuse(st, disk))}
        ELSE {Stop([disk EXCEPT !.page[x] = Wrote(@, Torn, Torn)]),
              Ok(put, [disk EXCEPT !.page[x] = Wrote(@, v, Torn)])}

-----------------------------------------------------------------------------
(* What callers are owed: the namespace by file identity, as the successful *)
(* syncs and reservations defined it, whatever slots and manifests hold it. *)

EmptyFile == [len |-> 0, vals |-> [i \in Page |-> Zero]]

Content(node) ==
    [len |-> node.len,
     vals |-> [i \in Page |-> IF i \in DOMAIN node.pages THEN node.pages[i].val ELSE Zero]]

NothingOwed == [entries |-> << >>, file |-> [id \in Id |-> EmptyFile]]

\* What a namespace shows by name.
Shown(entries, file) ==
    [p \in DOMAIN entries |-> IF entries[p] = Directory THEN EmptyFile ELSE file[entries[p]]]

Shows(m) == Shown(m.entries, [id \in DOMAIN m.files |-> Content(m.files[id])])

\* The bindings of dir are those of entries, and dir itself exists.
OwedDir(o, entries, dir) ==
    LET here == {p \in DOMAIN entries : Parent[p] = dir}
        others == {p \in DOMAIN o.entries : Parent[p] # dir}
    IN  [o EXCEPT !.entries = [p \in here \cup others \cup ({dir} \ {Root}) |->
                                 IF p \in here THEN entries[p] ELSE IF p = dir THEN Directory ELSE @[p]]]

OwedLen(o, id, n) == [o EXCEPT !.file[id].len = Max({@, n})]

\* No one can reach an unlinked file of an earlier session.
Reopened(o) ==
    [o EXCEPT !.file = [id \in Id |-> IF id \in Linked(o.entries) THEN @[id] ELSE EmptyFile]]

-----------------------------------------------------------------------------
(* Operations of a session.  Each begins with State::check, which reads the *)
(* anchor again and poisons the session when it cannot.                     *)

Fault == faults < MaxFaults /\ faults' = faults + 1

\* Finish with one of the outcomes.  A poisoned session answers everything with
\* an error until it is dropped, so it is down at once.  Owe is what success
\* makes durable: after an error that stops the session it may or may not have
\* become so.
Finish(outcomes, Owe(_)) ==
    /\ \E o \in outcomes \cup {Stop(d)} :
         /\ s' = o.s /\ d' = o.d /\ out' = o.out
         /\ pc' = IF o.stop THEN "down" ELSE "up"
         /\ IF o.stop THEN Fault ELSE UNCHANGED faults
         /\ calls < MaxCalls \/ o.s = s
         /\ calls' = IF o.s # s /\ ~o.stop THEN calls + 1 ELSE calls
         /\ owed' = (IF o.ok THEN {} ELSE owed) \cup (IF o.ok \/ o.stop THEN {Owe(v) : v \in owed} ELSE {})
    /\ UNCHANGED restored

Quiet(o) == o

Up == pc = "up"

\* CowFile::write_at of one page.
WriteAt(id, i, v) ==
    /\ Up /\ id \in s.handles
    /\ Finish(Then(Reserve(s, d, id, {i}), LAMBDA o :
                Then(ReadPage(o.s, o.d, id, i), LAMBDA p : WritePage(p.s, p.d, id, i, v))),
              LAMBDA o : OwedLen(o, id, i))

ReadAt(id, i) ==
    /\ Up /\ id \in s.handles /\ i <= s.files[id].len
    /\ Finish(ReadPage(s, d, id, i), Quiet)

Truncated(node, n) ==
    [len |-> n, res |-> node.res \cap 1..n, pages |-> Restrict(node.pages, DOMAIN node.pages \cap 1..n)]

\* CowFile::set_len; cut: the new length lies inside page n.
SetLen(id, n, cut) ==
    /\ Up /\ id \in s.handles /\ (cut => 0 < n /\ n <= s.files[id].len)
    /\ LET tail == cut /\ n \in DOMAIN s.files[id].pages
           shorten(x) == [x EXCEPT !.files[id] = Truncated(@, n), !.used = {}]
           zeroed == IF ~tail THEN {Ok(s, d)}
                     ELSE Then(ReadPage(s, d, id, n), LAMBDA o : WritePage(o.s, o.d, id, n, Zero))
       IN  Finish(Then(zeroed, LAMBDA o : {Ok(shorten(o.s), o.d)}), Quiet)

AllocateRange(id, range) ==
    /\ Up /\ id \in s.handles
    /\ Finish(Reserve(s, d, id, range), LAMBDA o : OwedLen(o, id, Max(range)))

\* CowFile::punch_hole of one page, or of part of it.
PunchHole(id, i, part) ==
    /\ Up /\ id \in s.handles /\ i <= s.files[id].len
    /\ LET drop == [s EXCEPT !.files[id].pages = Restrict(@, DOMAIN @ \ {i}),
                             !.files[id].res = @ \ {i}, !.used = {}]
       IN  Finish(IF ~part THEN {Ok(drop, d)}
                  ELSE IF i \notin DOMAIN s.files[id].pages THEN {Ok(s, d)}
                  ELSE Then(ReadPage(s, d, id, i), LAMBDA o : WritePage(o.s, o.d, id, i, Zero)), Quiet)

SyncData(id) ==
    /\ Up /\ id \in s.handles
    /\ Finish(Commit(s, d, [s.com EXCEPT !.files = Insert(@, id, s.files[id])]),
              LAMBDA o : [o EXCEPT !.file[id] = Content(s.files[id])])

\* Drop of a CowFile.
CloseFile(id) ==
    /\ Up /\ id \in s.handles
    /\ s' = [s EXCEPT !.handles = @ \ {id}] /\ out' = "ok"
    /\ UNCHANGED <<pc, d, owed, restored, calls, faults>>

DirectoryExists(st, dir) == dir = Root \/ dir \in DOMAIN st.entries

\* Backing::open.  A creation at the limit of identities first reclaims.
OpenFile(name) ==
    /\ Up /\ DirectoryExists(s, Parent[name])
    /\ LET full(x) == Cardinality(DOMAIN x.files) >= MaxEntries
           create(x) == [x EXCEPT !.next = @ + 1, !.files = Insert(@, x.next, EmptyNode),
                                  !.entries = Insert(@, name, x.next), !.handles = @ \cup {x.next}]
       IN  IF name \in DOMAIN s.entries
           THEN s.entries[name] \notin s.handles
                /\ Finish({Ok([s EXCEPT !.handles = @ \cup {s.entries[name]}], d)}, Quiet)
           ELSE /\ s.next <= MaxId
                /\ Finish(IF Cardinality(DOMAIN s.entries) >= MaxEntries THEN {Refuse(s, d)}
                          ELSE Then(IF full(s) THEN ReclaimClosedFiles(s, d) ELSE {Ok(s, d)}, LAMBDA o :
                                 IF full(o.s) THEN {Refuse(o.s, o.d)} ELSE {Ok(create(o.s), o.d)}),
                          Quiet)

RemoveFile(name) ==
    /\ Up /\ name \in DOMAIN s.entries
    /\ Finish({Ok([s EXCEPT !.entries = Restrict(@, DOMAIN @ \ {name})], d)}, Quiet)

Rename(from, to) ==
    /\ Up /\ from \in DOMAIN s.entries /\ from # to
    /\ Parent[from] = Parent[to] /\ DirectoryExists(s, Parent[to])
    /\ Finish({Ok([s EXCEPT !.entries = Insert(Restrict(@, DOMAIN @ \ {from}), to, s.entries[from])], d)}, Quiet)

CreateDirAll(dir) ==
    /\ Up /\ dir \notin DOMAIN s.entries
    /\ Finish(IF Cardinality(DOMAIN s.entries) >= MaxEntries THEN {Refuse(s, d)}
              ELSE {Ok([s EXCEPT !.entries = Insert(@, dir, Directory)], d)}, Quiet)

\* Backing::sync_dir: the bindings of one directory, and the way to it.
SyncDir(dir) ==
    /\ Up /\ DirectoryExists(s, dir)
    /\ LET here == {p \in DOMAIN s.entries : Parent[p] = dir}
           others == Restrict(s.com.entries, {p \in DOMAIN s.com.entries : Parent[p] # dir})
           entries == Extend(Restrict(s.entries, here), Extend(others, [p \in {dir} \ {Root} |-> Directory]))
           fresh == Linked(Restrict(s.entries, here)) \ DOMAIN s.com.files
       IN  Finish(Commit(s, d, [s.com EXCEPT !.entries = entries,
                                             !.files = Extend(@, [id \in fresh |-> EmptyNode])]),
                  LAMBDA o : OwedDir(o, s.entries, dir))

FreeBytes ==
    /\ Up
    /\ Finish(ReclaimClosedFiles(s, d), Quiet)

-----------------------------------------------------------------------------
(* Enrollment, opening and what happens to the directories meanwhile. *)

\* RollbackBacking::create.  Failures before the witness has a record leave
\* directories that only an operator can clear.
Create ==
    /\ pc = "none"
    /\ \E done \in BOOLEAN :
         LET anchor == Renamed(d.anchor, EmptyManifest)
         IN  /\ d' = [d EXCEPT !.len = Cell(TRUE), !.marker = Cell(TRUE), !.man[0] = Cell(EmptyManifest),
                               !.anchor = IF done THEN Stored(@, EmptyManifest) ELSE anchor]
             /\ pc' = (IF done THEN "up" ELSE "down")
             /\ s' = (IF done THEN Assembled(EmptyManifest, 0) ELSE NoSession)
             /\ IF done THEN UNCHANGED faults ELSE Fault
    /\ UNCHANGED <<out, owed, restored, calls>>

\* Steps of an open: done, a call failed, or the evidence does not match.
Done(disk) == [ok |-> TRUE, fault |-> FALSE, d |-> disk]
Failed(disk) == [ok |-> FALSE, fault |-> TRUE, d |-> disk]
Mismatch(disk) == [ok |-> FALSE, fault |-> FALSE, d |-> disk]

SyncArena(disk) == {Done(ArenaSynced(disk)), Failed(ArenaSyncFailed(disk))}

SyncManifest(disk, j) ==
    {Done([disk EXCEPT !.man[j] = Flushed(@)]), Failed([disk EXCEPT !.man[j] = Unflushed(@)])}

\* reserve_storage of the arena and of both manifests.
ReserveStorage(disk) ==
    Then(SyncArena([disk EXCEPT !.len = Wrote(@, TRUE, FALSE)]), LAMBDA a :
      Then(SyncManifest(a.d, 0), LAMBDA b : SyncManifest(b.d, 1)))

\* FileWitness::open: the record that was read is published again.
OpenWitness(disk) ==
    IF disk.anchor.now = NoManifest THEN {Mismatch(disk)}
    ELSE {Failed(disk), Failed([disk EXCEPT !.anchor = Renamed(@, @.now)]),
          Done([disk EXCEPT !.anchor = Stored(@, @.now)])}

\* Mutant: the newest manifest found is taken for the witnessed one.
WitnessedNewest(disk) ==
    {j \in {0, 1} : disk.man[j].now # NoManifest /\ disk.man[j].now.gen >= disk.man[1 - j].now.gen}

\* The manifests whose digest is the anchor's root.
Witnessed(disk) == {j \in {0, 1} : disk.man[j].now = disk.anchor.now}

Authentic(disk, m) ==
    \A r \in Refs(m.files) : LET p == m.files[r[1]].pages[r[2]] IN disk.page[p.slot].now = p.val

\* Every page of the selected manifest is written again as it was read.
RedirtyPages(disk, m) ==
    [disk EXCEPT !.page = [x \in Slot |-> IF x \in SlotsOf(m.files) THEN Wrote(@[x], @[x].now, Torn) ELSE @[x]]]

\* open_backing.
OpenBacking(disk) ==
    IF ~disk.marker.now THEN {Mismatch(disk)}
    ELSE Then(OpenWitness(disk), LAMBDA o :
      LET j == Min(Witnessed(o.d))
          m == o.d.man[j].now
      IN  IF Witnessed(o.d) = {} \/ ~o.d.len.now THEN {Mismatch(o.d)}
          ELSE IF ~Authentic(o.d, m) THEN {Mismatch(o.d)}
          ELSE Then(ReserveStorage(o.d), LAMBDA a :
            Then(SyncArena(RedirtyPages(a.d, m)), LAMBDA b :
              Then(SyncManifest([b.d EXCEPT !.man[j] = Wrote(@, m, NoManifest)], j), LAMBDA c :
                LET marked == [c.d EXCEPT !.marker = Wrote(@, TRUE, FALSE)]
                IN  {Failed([marked EXCEPT !.marker = Unflushed(@)]),
                     Failed([marked EXCEPT !.marker = Flushed(@)]),
                     Done([marked EXCEPT !.marker = Flushed(@)])}))))

Open ==
    /\ pc = "down"
    /\ \E o \in OpenBacking(d) :
         /\ d' = o.d
         /\ IF o.ok
            THEN LET j == Min(Witnessed(o.d))
                     m == o.d.man[j].now
                 IN  /\ pc' = "up" /\ s' = Assembled(m, j) /\ restored' = FALSE
                     /\ owed' = {Reopened(v) : v \in {w \in owed : /\ w.entries = m.entries
                                                                  /\ Shown(w.entries, w.file) = Shows(m)}}
                     /\ UNCHANGED faults
            ELSE /\ IF o.fault THEN Fault ELSE UNCHANGED faults
                 /\ UNCHANGED <<pc, s, owed, restored>>
    /\ out' = "ok" /\ UNCHANGED calls

\* The process ends; the page cache stays.
Close ==
    /\ Up
    /\ pc' = "down" /\ s' = NoSession /\ out' = "ok" /\ Fault
    /\ UNCHANGED <<d, owed, restored, calls>>

\* Power loss.
Crash ==
    /\ pc # "none" /\ Fault
    /\ \E pages \in {f \in [Slot -> UNION {d.page[x].may : x \in Slot}] : \A x \in Slot : f[x] \in d.page[x].may},
          m0 \in d.man[0].may, m1 \in d.man[1].may, len \in d.len.may, marker \in d.marker.may,
          a \in d.anchor.may :
         d' = [page |-> [x \in Slot |-> Cell(pages[x])], len |-> Cell(len), marker |-> Cell(marker),
               man |-> [j \in {0, 1} |-> Cell(IF j = 0 THEN m0 ELSE m1)], anchor |-> Stored(d.anchor, a)]
    /\ pc' = "down" /\ s' = NoSession /\ out' = "ok"
    /\ UNCHANGED <<owed, restored, calls>>

\* An administrator puts back a copy of the backing directory, taken at this or
\* at the previous generation.  The copy is in the page cache.
RestoreBackup(j) ==
    /\ pc = "down" /\ d.man[j].now # NoManifest /\ Fault
    /\ LET m == d.man[j].now
           refs == {m.files[r[1]].pages[r[2]] : r \in Refs(m.files)}
           copied(x) == IF x \in SlotsOf(m.files) THEN (CHOOSE p \in refs : p.slot = x).val ELSE Zero
       IN  d' = [d EXCEPT !.man = [k \in {0, 1} |-> IF k = j THEN Wrote(@[k], m, NoManifest)
                                                   ELSE Wrote(@[k], NoManifest, NoManifest)],
                          !.page = [x \in Slot |-> Wrote(@[x], copied(x), Torn)],
                          !.len = [now |-> TRUE, may |-> {TRUE, FALSE}, dirty |-> TRUE],
                          !.marker = [now |-> TRUE, may |-> {TRUE, FALSE}, dirty |-> TRUE]]
    /\ restored' = TRUE /\ out' = "ok"
    /\ UNCHANGED <<pc, s, owed, calls>>

-----------------------------------------------------------------------------

Fresh ==
    [page |-> [x \in Slot |-> Cell(Zero)], len |-> Cell(FALSE), marker |-> Cell(FALSE),
     man |-> [j \in {0, 1} |-> Cell(NoManifest)], anchor |-> [now |-> NoManifest, may |-> {NoManifest}]]

\* A volume that was closed after a file was created, written and synced with
\* its directory: three commits after enrollment.
UsedVolume(name, v) ==
    LET node == [len |-> 1, pages |-> [i \in {1} |-> [slot |-> 0, val |-> v]], res |-> {1}]
        data == [gen |-> 2, next |-> 2, entries |-> << >>, files |-> [id \in {1} |-> node]]
        linked == [data EXCEPT !.gen = 3, !.entries = [p \in {name} |-> 1]]
    IN  [page |-> [y \in Slot |-> Cell(IF y = 0 THEN v ELSE Zero)], len |-> Cell(TRUE), marker |-> Cell(TRUE),
         man |-> [j \in {0, 1} |-> Cell(IF j = 0 THEN data ELSE linked)], anchor |-> Stored(Fresh.anchor, linked)]

Init ==
    /\ s = NoSession /\ out = "ok" /\ restored = FALSE /\ calls = 0 /\ faults = 0
    /\ \/ pc = "none" /\ d = Fresh /\ owed = {NothingOwed}
       \/ pc = "down" /\ \E name \in Name, v \in Val :
            /\ Parent[name] = Root /\ MaxGen >= 3
            /\ d = UsedVolume(name, v)
            /\ owed = {[entries |-> [p \in {name} |-> 1],
                        file |-> [NothingOwed.file EXCEPT ![1] = [len |-> 1, vals |-> [EmptyFile.vals EXCEPT ![1] = v]]]]}

Next ==
    \/ \E id \in Id : \/ \E i \in Page : ReadAt(id, i) \/ \E v \in Val : WriteAt(id, i, v)
                      \/ \E n \in 0..MaxPages, cut \in BOOLEAN : SetLen(id, n, cut)
                      \/ \E lo \in Page : \E hi \in lo..MaxPages : AllocateRange(id, lo..hi)
                      \/ \E i \in Page, part \in BOOLEAN : PunchHole(id, i, part)
                      \/ SyncData(id) \/ CloseFile(id)
    \/ \E name \in Name : OpenFile(name) \/ RemoveFile(name) \/ \E to \in Name : Rename(name, to)
    \/ \E dir \in Dir : CreateDirAll(dir)
    \/ \E dir \in Dir \cup {Root} : SyncDir(dir)
    \/ FreeBytes
    \/ Create \/ Open \/ Close \/ Crash \/ \E j \in {0, 1} : RestoreBackup(j)

Spec == Init /\ [][Next]_vars

-----------------------------------------------------------------------------
(* Properties. *)

\* The session, the cells and the outcome have their types.
TypeOK ==
    /\ pc \in {"none", "down", "up"}
    /\ out \in {"ok", "invalid"}
    /\ pc = "up" <=> s # NoSession
    /\ pc = "up" => /\ s.handles \subseteq DOMAIN s.files /\ Linked(s.entries) \subseteq DOMAIN s.files
                    /\ DOMAIN s.com.files \subseteq DOMAIN s.files
                    /\ s.slot \in {0, 1} /\ s.next \in 1..(MaxId + 1)
    /\ \A x \in Slot : d.page[x].may \subseteq Val \cup {Zero, Torn}
    /\ faults \in 0..MaxFaults

\* Everything open_backing needs to show manifest m, certain on the disk.
Certain(m) ==
    /\ d.len.may = {TRUE} /\ d.marker.may = {TRUE}
    /\ \E j \in {0, 1} : d.man[j].may = {m} /\ d.man[j].now = m
    /\ \A r \in Refs(m.files) :
         LET p == m.files[r[1]].pages[r[2]] IN d.page[p.slot].may = {p.val} /\ d.page[p.slot].now = p.val

\* Reads of the session see what was last written, no matter what was
\* allocated, truncated or committed since.
ReadBack ==
    pc = "up" =>
      /\ \A r \in Refs(s.files) :
           LET p == s.files[r[1]].pages[r[2]] IN d.page[p.slot].now = p.val
      /\ Cardinality(SlotsOf(s.files)) = Cardinality(Refs(s.files))
      /\ \A u \in s.used : u.slots = CommittedSlots(s) \cup SlotsOf(s.files)

\* The code's own consistency checks never fire: a free slot exists for every
\* reserved page, every candidate manifest validates, every page read is
\* authentic, and free_bytes never subtracts more than the capacity.
NeverInconsistent ==
    /\ out # "invalid"
    /\ pc = "up" => Cardinality(Coordinates(s)) <= Capacity

\* Whatever a power loss leaves of the anchor, the manifest it selects and all
\* its pages are durable: no commit, failed or not, no reuse of a slot and no
\* reopening ever puts at risk a generation that the witness may select.
WitnessedKept ==
    /\ TypeOK
    /\ ~restored => \A m \in (d.anchor.may \cup {d.anchor.now}) \ {NoManifest} : Certain(m)
    /\ pc = "up" => ~restored /\ d.anchor = [now |-> s.com, may |-> {s.com}]

\* A session shows as durable exactly what sync_data, sync_dir and
\* allocate_range promised, file by file and directory by directory, across
\* power losses, failed commits and restores of an older copy of the backing;
\* its reads see what was last written.
PromiseKept ==
    /\ ReadBack /\ NeverInconsistent
    /\ pc = "up" => owed # {} /\ {Shown(v.entries, v.file) : v \in owed} = {Shows(s.com)}
=============================================================================
