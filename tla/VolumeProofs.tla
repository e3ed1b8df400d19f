---------------------------- MODULE VolumeProofs ----------------------------
(***************************************************************************)
(* Proofs about Volume, for every value of its constants: a checkpoint *)
(* never claims more than the disk holds, and the volume implements *)
(* DurableVolume. *)
(***************************************************************************)
EXTENDS Volume, FiniteSetTheorems, WellFoundedInduction, TLAPS

(* The cells of a shard, and the shard as a file: it exists, its length is *)
(* certain, and what a read returns may be what is on the disk. *)
Written == {Slot(n, v) : n \in Nat, v \in Ciphertext}
Cell == {Zero, Torn} \cup Written
File == [data : [Pos -> Cell], opts : [Pos -> SUBSET Cell], lens : {{MaxLen}},
         dirty : SUBSET Pos, lenDirty : {FALSE}, name : {TRUE}, names : {{TRUE}}]
FileOk(f) == f \in File /\ \A j \in Pos : f.data[j] \in f.opts[j]

MapReg == [now : SUBSET Unit, may : SUBSET (SUBSET Unit)]
StoreType ==
    [shard : File, alloc : SUBSET Unit, allocReg : MapReg, allocDirty : BOOLEAN, mapStored : BOOLEAN,
     disc : SUBSET Unit, discReg : MapReg, discDirty : BOOLEAN, res : SUBSET Unit,
     cursor : 0..MaxLen, fails : 0..MaxFails]

(* A store whose registers load what they may have, and whose discard map *)
(* is on the disk unless it is marked dirty; live when it is open. *)
StoreOk(s, live) ==
    /\ s \in StoreType /\ FileOk(s.shard)
    /\ s.allocReg.now \in s.allocReg.may /\ s.discReg.now \in s.discReg.may
    /\ live /\ ~s.discDirty => s.discReg.may = {s.disc}

(* The slot of u reads as zeros, whatever a power loss leaves of it, and *)
(* will after either map is stored: it is in every discard map, or it was *)
(* never written. *)
Blank(s, u, live) ==
    \/ (\A d \in s.discReg.may : u \in d) /\ (live => u \in s.disc)
    \/ /\ s.shard.opts[u + 1] = {Zero} /\ (\A a \in s.allocReg.may : u \notin a)
       /\ live => u \notin s.alloc

(* It certainly has this cell. *)
Shows(s, u, cell, live) ==
    /\ s.shard.opts[u + 1] = {cell} /\ \A d \in s.discReg.may : u \notin d
    /\ live => u \notin s.disc

Holds(s, u, n, v, live) == IF v = Tombstone THEN Blank(s, u, live) ELSE Shows(s, u, Slot(n, v), live)

(* Record n is the last of the first hi that is about unit u; there is none. *)
LastOf(log, hi, u, n) == n \in 1..hi /\ log[n].unit = u /\ \A k \in (n + 1)..hi : log[k].unit # u
NoneOf(log, hi, u) == \A k \in 1..hi : log[k].unit # u

(* The store is honest about checkpoint c: of every unit whose last *)
(* durable record is not beyond c it holds that record. *)
Honest(s, log, hi, c, live) ==
    \A u \in Unit : /\ NoneOf(log, hi, u) => Blank(s, u, live)
                    /\ \A n \in 1..hi : LastOf(log, hi, u, n) /\ n <= c => Holds(s, u, n, log[n].v, live)

(* The journal and the checkpoint state, which never lead the durable *)
(* boundary; the one in memory is the oldest a restart may find. *)
Payloads == Ciphertext \cup {Tombstone}
Records == [unit : Unit, v : Payloads]
JournalOk(v) == v.log \in Seq(Records) /\ Len(v.log) <= MaxRecords /\ v.durable \in 0..Len(v.log)

CkOk(v, live) ==
    /\ v.ck \in Nat /\ v.ckReg \in [now : Nat, may : SUBSET Nat] /\ v.ckReg.now \in v.ckReg.may
    /\ v.ck <= v.durable /\ \A c \in v.ckReg.may : c <= v.durable
    /\ live => v.ck \in v.ckReg.may /\ \A c \in v.ckReg.may : v.ck <= c

Reserved(v) ==
    \A c \in v.ckReg.may : \A k \in (c + 1)..Len(v.log) : v.log[k].v # Tombstone => v.log[k].unit \in v.s.res

(* The overlay holds the last record of every unit, and the last durable *)
(* one, unless the checkpoint covers it. *)
Version == [n : Nat, v : Payloads]
OverlayType ==
    [latest : [Unit -> Version], durable : [Unit -> Version], pending : SUBSET [n : Nat, unit : Unit],
     boundary : Nat, bytes : Int, latestBytes : Int]
HoldsLatest(o, log, ck, u) ==
    /\ Held(o, u) => LastOf(log, Len(log), u, o.latest[u].n) /\ o.latest[u].v = log[o.latest[u].n].v
    /\ ~Held(o, u) => \A k \in (ck + 1)..Len(log) : log[k].unit # u
HoldsDurable(o, log, hi, ck, u) ==
    /\ o.durable[u] # NoVersion =>
         Held(o, u) /\ LastOf(log, hi, u, o.durable[u].n) /\ o.durable[u].v = log[o.durable[u].n].v
    /\ o.durable[u] = NoVersion => \A k \in (ck + 1)..hi : log[k].unit # u
    /\ Held(o, u) /\ o.latest[u].n <= hi => o.durable[u] = o.latest[u]
Counted(o) == o.bytes = Full(o.latest, Unit) + Full(o.durable, Unit) /\ o.latestBytes = Full(o.latest, Unit)
OverlayOk(o, log, hi, ck) ==
    /\ o \in OverlayType /\ o.boundary = hi /\ Counted(o)
    /\ \A u \in Unit : HoldsLatest(o, log, ck, u) /\ HoldsDurable(o, log, hi, ck, u)
    /\ o.pending = {[n |-> k, unit |-> log[k].unit] : k \in (hi + 1)..Len(log)}

(* The plan in flight: its items are the last records up to its horizon, *)
(* every unit with a record beyond the checkpoint has one, and unless a *)
(* reservation failed since, the slots written so far are what a sync will *)
(* make durable, and after it are durable. *)
Item == [unit : Unit, ver : Version]
PlanType == [stage : {"write", "finish"}, base : Nat, horizon : Nat, items : SUBSET Item,
             todo : SUBSET Item, fails : 0..MaxFails]
InPlace(f, i) ==
    f.data[i.unit + 1] = ItemSlot(i) /\ (i.unit + 1 \in f.dirty \/ f.opts[i.unit + 1] = {ItemSlot(i)})
ItemsOk(items, log, base, horizon) ==
    /\ \A i \in items : LastOf(log, horizon, i.unit, i.ver.n) /\ i.ver.v = log[i.ver.n].v
    /\ \A k \in (base + 1)..horizon : \E i \in items : i.unit = log[k].unit
PlanOk(p, v) ==
    /\ p \in PlanType /\ p.base = v.ck /\ p.horizon <= v.durable /\ p.todo \subseteq Writes(p.items)
    /\ \A c \in v.ckReg.may : c <= p.horizon
    /\ ItemsOk(p.items, v.log, p.base, p.horizon)
    /\ p.fails <= v.s.fails
    /\ BarriersHold(v.s, p.fails) =>
         /\ \A i \in Writes(p.items) \ p.todo : InPlace(v.s.shard, i)
         /\ p.stage = "finish" => \A i \in Writes(p.items) : v.s.shard.opts[i.unit + 1] = {ItemSlot(i)}
    /\ p.stage = "finish" => p.todo = {}

Live == pc # "down"
Points == x.ckReg.may \cup (IF pc = "replay" THEN {at} ELSE {})
VolumeType == [log : Seq(Records), durable : Nat, o : OverlayType, s : StoreType, ck : Nat,
               ckReg : [now : Nat, may : SUBSET Nat]]

Types ==
    /\ pc \in {"down", "replay", "up"} /\ x \in VolumeType
    /\ at \in Nat /\ acked \in Nat /\ faults \in Nat
Disk ==
    /\ JournalOk(x) /\ CkOk(x, Live) /\ Reserved(x) /\ StoreOk(x.s, Live)
    /\ \A c \in Points : Honest(x.s, x.log, x.durable, c, Live)
    /\ acked <= x.durable
Memory ==
    /\ pc = "up" => OverlayOk(x.o, x.log, x.durable, x.ck)
    /\ pc = "replay" => x.durable = Len(x.log) /\ x.ck <= at /\ at <= x.durable /\ x.ckReg.may = {x.ck}
    /\ pc # "replay" => at = 0
    /\ plan # NoPlan => pc = "up" /\ PlanOk(plan, x)

(* The inductive invariant. *)
IInv == Types /\ Disk /\ Memory

-----------------------------------------------------------------------------
(* Induction over the naturals and what follows from it. *)

(* A nonempty set of naturals has a least member. *)
LEMMA LeastNat ==
    ASSUME NEW T \in SUBSET Nat, T # {}
    PROVE  \E m \in T : \A y \in T : m <= y
<1> DEFINE R == OpToRel(<, Nat)
<1>1. IsWellFoundedOn(R, Nat)
  BY NatLessThanWellFounded
<1>2. PICK m \in T : \A y \in T : ~(<<y, m>> \in R)
  BY <1>1, WFMin
<1>3. \A y \in T : ~(y < m)
  BY <1>2 DEF OpToRel
<1> QED
  BY <1>3

(* Induction up to N, over a set. *)
LEMMA UpTo ==
    ASSUME NEW N \in Nat, NEW S, 0 \in S, \A n \in 0..(N - 1) : n \in S => n + 1 \in S
    PROVE  0..N \subseteq S
<1> DEFINE T == {n \in 0..N : n \notin S}
<1> SUFFICES ASSUME T # {} PROVE FALSE
  OBVIOUS
<1>0. T \in SUBSET Nat
  OBVIOUS
<1>1. PICK m \in T : \A y \in T : m <= y
  BY <1>0, LeastNat
<1>2. m # 0 /\ m - 1 \in 0..(N - 1)
  OBVIOUS
<1>3. m - 1 \in S
  BY <1>1, <1>2
<1> QED
  BY <1>2, <1>3

(* A bounded nonempty set of naturals has a greatest member. *)
LEMMA GreatestNat ==
    ASSUME NEW N \in Nat, NEW T \in SUBSET (0..N), T # {}
    PROVE  \E m \in T : \A y \in T : y <= m
<1> DEFINE U == {N - m : m \in T}
<1>0. PICK t \in T : t \in 0..N
  OBVIOUS
<1>1. U \in SUBSET Nat /\ U # {}
  BY <1>0
<1>2. PICK z \in U : \A y \in U : z <= y
  BY <1>1, LeastNat
<1>3. PICK m \in T : z = N - m
  OBVIOUS
<1>4. \A y \in T : z <= N - y
  BY <1>2
<1> QED
  BY <1>3, <1>4

(* g lists what the steps F make of c0, one after the other. *)
Iterates(g, N, C, c0, F) ==
    /\ g \in [0..N -> C] /\ g[0] = c0
    /\ \A i \in 1..N : g[i] = F[i][g[i - 1]]

(* Any steps have such a list: the recursive functions of the model exist. *)
LEMMA Iterated ==
    ASSUME NEW N \in Nat, NEW C, NEW c0 \in C, NEW F \in [1..N -> [C -> C]]
    PROVE  \E g : Iterates(g, N, C, c0, F)
<1> DEFINE P(n, g) == g[0] = c0 /\ \A i \in 1..n : g[i] = F[i][g[i - 1]]
<1> DEFINE S == {n \in 0..N : \E g \in [0..n -> C] : P(n, g)}
<1>1. 0 \in S
  <2> DEFINE g == [i \in 0..0 |-> c0]
  <2>1. g \in [0..0 -> C] /\ P(0, g)
    OBVIOUS
  <2>2. \E f \in [0..0 -> C] : P(0, f)
    <3> HIDE DEF P, g
    <3> QED
      BY <2>1
  <2> QED
    BY <2>2
<1>2. ASSUME NEW n \in 0..(N - 1), n \in S
      PROVE  n + 1 \in S
  <2>1. PICK g \in [0..n -> C] : P(n, g)
    BY <1>2
  <2> DEFINE h == [i \in 0..(n + 1) |-> IF i = n + 1 THEN F[n + 1][g[n]] ELSE g[i]]
  <2>2. F[n + 1] \in [C -> C] /\ g[n] \in C
    OBVIOUS
  <2>3. F[n + 1][g[n]] \in C
    BY <2>2
  <2>4. h \in [0..(n + 1) -> C]
    BY <2>3
  <2>5. \A i \in 1..(n + 1) : h[i] = F[i][h[i - 1]]
    <3> SUFFICES ASSUME NEW i \in 1..(n + 1) PROVE h[i] = F[i][h[i - 1]]
      OBVIOUS
    <3>1. CASE i = n + 1
      BY <3>1
    <3>2. CASE i # n + 1
      BY <3>2, <2>1
    <3> QED
      BY <3>1, <3>2
  <2>6. h[0] = c0
    BY <2>1
  <2>7. P(n + 1, h)
    BY <2>4, <2>5, <2>6
  <2>8. \E f \in [0..(n + 1) -> C] : P(n + 1, f)
    <3> HIDE DEF P, h
    <3> QED
      BY <2>4, <2>7
  <2> QED
    BY <2>8, SMTT(30)
<1>3. N \in S
  <2> HIDE DEF S
  <2>1. 0..N \subseteq S
    BY <1>1, <1>2, UpTo
  <2> QED
    BY <2>1
<1> QED
  BY <1>3 DEF Iterates

-----------------------------------------------------------------------------
(* Constants and cells. *)

(* What the assumptions say of the constants. *)
LEMMA Consts ==
    /\ MaxLen \in Nat \ {0} /\ Unit = 1..(MaxLen - 1) /\ Window \in Nat \ {0} /\ MaxFails \in Nat \ {0}
    /\ Tombstone \notin Ciphertext /\ MaxRecords \in Nat /\ MaxFaults \in Nat
  BY MaxLenAssumption, SlotStoreAssumption, UnitsAssumption, VolumeAssumption

(* The slot of a unit is a cell after the first. *)
LEMMA UnitPos ==
    /\ \A u \in Unit : u \in Nat /\ u + 1 \in Pos /\ (u + 1) - 1 = u /\ u + 1 > 1 /\ u >= 1 /\ u < MaxLen
    /\ \A j \in Pos : j \in Nat /\ j - 1 \in Int /\ (j - 1 \in Unit => j = (j - 1) + 1)
  BY Consts DEF Pos

(* No two kinds of cell are equal. *)
LEMMA Cells ==
    /\ Zero # Torn /\ Zero # Damaged /\ Torn # Damaged
    /\ Zero.k # "slot" /\ Torn.k # "slot"
    /\ Zero \in Cell /\ Torn \in Cell
  BY DEF Zero, Torn, Damaged, Cell

(* A slot is a cell of its own kind and shows its version. *)
LEMMA Slots ==
    ASSUME NEW n, NEW v
    PROVE  /\ Slot(n, v).k = "slot" /\ Slot(n, v).n = n /\ Slot(n, v).v = v
           /\ Slot(n, v) # Zero /\ Slot(n, v) # Torn /\ Slot(n, v) # Damaged
           /\ n \in Nat /\ v \in Ciphertext => Slot(n, v) \in Written /\ Slot(n, v) \in Cell
  BY DEF Zero, Torn, Damaged, Slot, Cell, Written

(* A written slot is a cell with a version. *)
LEMMA WrittenIs ==
    ASSUME NEW c \in Written
    PROVE  c \in Cell /\ c # Zero /\ c # Torn /\ c.k = "slot"
  BY Slots DEF Written

-----------------------------------------------------------------------------
(* Files: what is certain stays so. *)

Certain(f, g) == \A j \in Pos : \A c \in Cell : f.opts[j] = {c} => g.opts[j] = {c}

(* What the fields of a file are. *)
LEMMA FileIs ==
    ASSUME NEW f, FileOk(f)
    PROVE  /\ f.data \in [Pos -> Cell] /\ f.opts \in [Pos -> SUBSET Cell] /\ f.dirty \subseteq Pos
           /\ f.lens = {MaxLen} /\ f.lenDirty = FALSE /\ f.name = TRUE /\ f.names = {TRUE}
           /\ \A j \in Pos : f.data[j] \in f.opts[j] /\ f.data[j] \in Cell
           /\ \A j \in Pos, c \in Cell : f.opts[j] = {c} => f.data[j] = c
  BY DEF FileOk, File

(* A sync that succeeds makes what was written certain. *)
LEMMA SyncedFile ==
    ASSUME NEW f, FileOk(f)
    PROVE  /\ FileOk(Synced(f)) /\ Certain(f, Synced(f))
           /\ Synced(f).data = f.data /\ Synced(f).dirty = {}
           /\ \A j \in Pos : Synced(f).opts[j] = IF j \in f.dirty THEN {f.data[j]} ELSE f.opts[j]
<1> DEFINE g == Synced(f)
           O == [j \in Pos |-> IF j \in f.dirty THEN {f.data[j]} ELSE f.opts[j]]
<1>0. /\ f.data \in [Pos -> Cell] /\ f.opts \in [Pos -> SUBSET Cell] /\ f.dirty \subseteq Pos
      /\ f.lenDirty = FALSE /\ f \in File
      /\ \A j \in Pos : f.data[j] \in f.opts[j] /\ f.data[j] \in Cell
      /\ \A j \in Pos, c \in Cell : f.opts[j] = {c} => f.data[j] = c
  BY FileIs DEF FileOk
<1>1. g = [f EXCEPT !.opts = O, !.lens = f.lens, !.dirty = {}, !.lenDirty = FALSE]
  BY <1>0 DEF Synced
<1>2. O \in [Pos -> SUBSET Cell] /\ \A j \in Pos : O[j] = IF j \in f.dirty THEN {f.data[j]} ELSE f.opts[j]
  BY <1>0
<1> HIDE DEF O
<1>3. /\ g \in File /\ g.data = f.data /\ g.opts = O /\ g.dirty = {}
  BY <1>0, <1>1, <1>2 DEF File
<1> HIDE DEF g
<1>4. FileOk(g)
  BY <1>0, <1>2, <1>3 DEF FileOk
<1>5. Certain(f, g)
  BY <1>0, <1>2, <1>3 DEF Certain
<1> QED
  BY <1>2, <1>3, <1>4, <1>5 DEF g

(* A sync that fails forgets what was dirty and makes nothing certain. *)
LEMMA SyncFailedFile ==
    ASSUME NEW f, FileOk(f)
    PROVE  /\ FileOk(SyncFailed(f)) /\ Certain(f, SyncFailed(f))
           /\ SyncFailed(f).data = f.data /\ SyncFailed(f).opts = f.opts /\ SyncFailed(f).dirty = {}
<1> DEFINE g == SyncFailed(f)
<1>1. g \in File /\ g.data = f.data /\ g.opts = f.opts /\ g.dirty = {}
  BY DEF SyncFailed, FileOk, File
<1> HIDE DEF g
<1> QED
  BY <1>1 DEF FileOk, Certain, g

(* Slots that are written. *)
LEMMA PutFile ==
    ASSUME NEW f, FileOk(f), NEW U \in SUBSET Unit, NEW put \in [U -> Cell]
    PROVE  /\ FileOk(SlotsPut(f, put)) /\ SlotsPut(f, put).dirty = f.dirty \cup {j \in Pos : j - 1 \in U}
           /\ \A u \in U : /\ SlotsPut(f, put).data[u + 1] = put[u]
                          /\ SlotsPut(f, put).opts[u + 1] = f.opts[u + 1] \cup {put[u]}
           /\ \A u \in Unit \ U : /\ SlotsPut(f, put).data[u + 1] = f.data[u + 1]
                                 /\ SlotsPut(f, put).opts[u + 1] = f.opts[u + 1]
<1> DEFINE g == SlotsPut(f, put)
           A == [j \in Pos |-> IF j - 1 \in U THEN put[j - 1] ELSE f.data[j]]
           O == [j \in Pos |-> IF j - 1 \in U THEN f.opts[j] \cup {put[j - 1]} ELSE f.opts[j]]
           D == f.dirty \cup {j \in Pos : j - 1 \in U}
<1>0. /\ f.data \in [Pos -> Cell] /\ f.opts \in [Pos -> SUBSET Cell] /\ f.dirty \subseteq Pos
      /\ f \in File /\ DOMAIN put = U
      /\ \A j \in Pos : f.data[j] \in f.opts[j] /\ f.data[j] \in Cell
  BY FileIs DEF FileOk
<1>1. g = [f EXCEPT !.data = A, !.opts = O, !.dirty = D]
  BY <1>0 DEF SlotsPut
<1>2. A \in [Pos -> Cell] /\ O \in [Pos -> SUBSET Cell] /\ D \in SUBSET Pos
  BY <1>0
<1>3. \A j \in Pos : A[j] \in O[j]
  BY <1>0
<1>4. \A u \in Unit : /\ A[u + 1] = IF u \in U THEN put[u] ELSE f.data[u + 1]
                      /\ O[u + 1] = IF u \in U THEN f.opts[u + 1] \cup {put[u]} ELSE f.opts[u + 1]
  BY UnitPos
<1> HIDE DEF A, O, D
<1>5. g \in File /\ g.data = A /\ g.opts = O /\ g.dirty = D
  BY <1>0, <1>1, <1>2 DEF File
<1> HIDE DEF g
<1>6. FileOk(g)
  BY <1>3, <1>5 DEF FileOk
<1>7. \A u \in U : g.data[u + 1] = put[u] /\ g.opts[u + 1] = f.opts[u + 1] \cup {put[u]}
  BY <1>4, <1>5
<1>8. \A u \in Unit \ U : g.data[u + 1] = f.data[u + 1] /\ g.opts[u + 1] = f.opts[u + 1]
  BY <1>4, <1>5
<1> QED
  BY <1>5, <1>6, <1>7, <1>8 DEF g, D

-----------------------------------------------------------------------------
(* Files: what eviction and a power loss leave. *)

(* A row built cell by cell has one of the cells allowed at each place. *)
Longer(X, T) == {Append(r, c) : r \in X, c \in T}
RowList(g, n, A) == g = [j \in 0..n |-> IF j = 0 THEN {<< >>} ELSE Longer(g[j - 1], A[j])]

(* Rows that are extended by a cell are rows. *)
LEMMA LongerIs ==
    ASSUME NEW X \in SUBSET Seq(Cell), NEW T \in SUBSET Cell
    PROVE  Longer(X, T) \in SUBSET Seq(Cell)
<1>1. \A r \in X, c \in T : Append(r, c) \in Seq(Cell)
  <2> SUFFICES ASSUME NEW r \in X, NEW c \in T PROVE Append(r, c) \in Seq(Cell)
    OBVIOUS
  <2>1. r \in Seq(Cell) /\ c \in Cell
    OBVIOUS
  <2> QED
    BY <2>1
<1> QED
  BY <1>1 DEF Longer

(* The recursive function of Rows has its values. *)
LEMMA RowsExist ==
    ASSUME NEW n \in Nat, NEW A \in [1..n -> SUBSET Cell]
    PROVE  \E g : RowList(g, n, A)
<1> DEFINE C == SUBSET Seq(Cell)
           F == [j \in 1..n |-> [X \in C |-> Longer(X, A[j])]]
<1>1. ASSUME NEW X \in C, NEW j \in 1..n PROVE Longer(X, A[j]) \in C
  BY LongerIs
<1>2. {<< >>} \in C
  OBVIOUS
<1> HIDE DEF C
<1>3. F \in [1..n -> [C -> C]]
  BY <1>1
<1>4. PICK g : Iterates(g, n, C, {<< >>}, F)
  <2> HIDE DEF F
  <2> QED
    BY <1>2, <1>3, Iterated
<1>5. g \in [0..n -> C] /\ g[0] = {<< >>} /\ \A i \in 1..n : g[i] = F[i][g[i - 1]]
  <2> HIDE DEF F
  <2> QED
    BY <1>4 DEF Iterates
<1>6. \A i \in 1..n : g[i] = Longer(g[i - 1], A[i])
  <2> SUFFICES ASSUME NEW i \in 1..n PROVE g[i] = Longer(g[i - 1], A[i])
    OBVIOUS
  <2>1. i - 1 \in 0..n
    OBVIOUS
  <2>2. g[i - 1] \in C
    BY <1>5, <2>1
  <2> QED
    BY <1>5, <2>2
<1>7. RowList(g, n, A)
  BY <1>5, <1>6 DEF RowList
<1> QED
  BY <1>7

(* A row has one of the allowed cells at each place. *)
LEMMA RowsAre ==
    ASSUME NEW n \in Nat, NEW A \in [1..n -> SUBSET Cell], NEW row \in Rows(n, A)
    PROVE  row \in Seq(Cell) /\ Len(row) = n /\ \A j \in 1..n : row[j] \in A[j]
<1>1. Rows(n, A) = (CHOOSE g : RowList(g, n, A))[n]
  BY DEF Rows, RowList, Longer
<1>2. PICK g : g = (CHOOSE h : RowList(h, n, A)) /\ RowList(g, n, A)
  BY RowsExist
<1>3. g[0] = {<< >>} /\ \A j \in 1..n : g[j] = Longer(g[j - 1], A[j])
  <2>1. \A j \in 0..n : g[j] = IF j = 0 THEN {<< >>} ELSE Longer(g[j - 1], A[j])
    BY <1>2 DEF RowList
  <2> QED
    BY <2>1
<1> DEFINE Good1(r, m) == r \in Seq(Cell) /\ Len(r) = m /\ \A j \in 1..m : r[j] \in A[j]
           S == {m \in 0..n : \A r \in g[m] : Good1(r, m)}
<1>4. 0 \in S
  <2>1. Good1(<< >>, 0)
    OBVIOUS
  <2> HIDE DEF Good1
  <2> QED
    BY <1>3, <2>1
<1>5. ASSUME NEW m \in 0..(n - 1), m \in S PROVE m + 1 \in S
  <2>1. m + 1 \in 1..n /\ (m + 1) - 1 = m
    OBVIOUS
  <2>2. A[m + 1] \subseteq Cell /\ g[m + 1] = Longer(g[m], A[m + 1])
    BY <1>3, <2>1
  <2>3. ASSUME NEW r \in g[m + 1]
        PROVE  Good1(r, m + 1)
    <3>1. PICK q \in g[m], c \in A[m + 1] : r = Append(q, c)
      BY <2>2 DEF Longer
    <3>2. q \in Seq(Cell) /\ Len(q) = m /\ \A j \in 1..m : q[j] \in A[j]
      BY <1>5
    <3>3. r \in Seq(Cell) /\ Len(r) = m + 1 /\ r[m + 1] = c /\ \A j \in 1..m : r[j] = q[j]
      BY <2>2, <3>1, <3>2
    <3> QED
      BY <3>1, <3>2, <3>3
  <2> QED
    BY <2>1, <2>3
<1> HIDE DEF S
<1>6. 0..n \subseteq S
  BY <1>4, <1>5, UpTo
<1>7. n \in S /\ row \in g[n]
  BY <1>1, <1>2, <1>6
<1> QED
  BY <1>7 DEF S

(* What may be in a cell is a cell, and what is certain is all there is. *)
LEMMA SurvivingIs ==
    ASSUME NEW f, FileOk(f), NEW j \in Pos
    PROVE  /\ Surviving(f, j) \subseteq Cell
           /\ \A c \in Cell : f.opts[j] = {c} => Surviving(f, j) = {c}
<1>0. f.opts \in [Pos -> SUBSET Cell]
  BY FileIs
<1>1. f.opts[j] \subseteq Cell
  BY <1>0
<1>2. Surviving(f, j) \subseteq Cell
  BY <1>1, Cells DEF Surviving
<1>3. ASSUME NEW c \in Cell, f.opts[j] = {c} PROVE Surviving(f, j) = {c}
  <2>1. Cardinality({c}) = 1
    BY FS_Singleton
  <2>2. ~(Cardinality(f.opts[j]) > 1)
    BY <1>3, <2>1
  <2> QED
    BY <1>3, <2>2 DEF Surviving
<1> QED
  BY <1>2, <1>3

(* Eviction: a clean cell becomes one of those that may be on the disk. *)
LEMMA EvictedFile ==
    ASSUME NEW f, FileOk(f), NEW h \in Evicted(f)
    PROVE  /\ FileOk(h) /\ Certain(f, h) /\ h.dirty = f.dirty
           /\ \A j \in Pos : j \in f.dirty => h.data[j] = f.data[j]
<1> DEFINE stale == Stale(f)
           B(j) == IF j \in stale THEN Surviving(f, j) ELSE {f.data[j]}
           A == [j \in 1..MaxLen |-> B(j)]
           O(r) == [j \in Pos |-> IF j \in stale THEN {r[j]} ELSE f.opts[j]]
<1>0. /\ f.data \in [Pos -> Cell] /\ f.opts \in [Pos -> SUBSET Cell] /\ f.dirty \subseteq Pos /\ f \in File
      /\ \A j \in Pos : f.data[j] \in f.opts[j] /\ f.data[j] \in Cell
      /\ \A j \in Pos, c \in Cell : f.opts[j] = {c} => f.data[j] = c
  BY FileIs DEF FileOk
<1>1. Len(f.data) = MaxLen /\ MaxLen \in Nat /\ Pos = 1..MaxLen
  BY <1>0, Consts DEF Pos
<1>2. PICK r \in Rows(MaxLen, A) : h = [f EXCEPT !.data = r, !.opts = O(r)]
  BY <1>1 DEF Evicted
<1>3. A \in [1..MaxLen -> SUBSET Cell] /\ \A j \in Pos : A[j] = B(j)
  <2>1. \A j \in 1..MaxLen : B(j) \in SUBSET Cell
    BY <1>0, <1>1, SurvivingIs
  <2> HIDE DEF B
  <2> QED
    BY <1>1, <2>1
<1>9. r \in [Pos -> Cell] /\ \A j \in Pos : r[j] \in B(j)
  <2> HIDE DEF B, A
  <2>1. r \in Seq(Cell) /\ Len(r) = MaxLen /\ \A j \in 1..MaxLen : r[j] \in A[j]
    BY <1>1, <1>3, RowsAre
  <2> QED
    BY <1>1, <1>3, <2>1
<1>10. \A j \in Pos : j \notin stale => r[j] = f.data[j]
  BY <1>9
<1>11. \A j \in Pos : j \in f.dirty => j \notin stale
  BY DEF Stale
<1>12. \A j \in Pos, c \in Cell : f.opts[j] = {c} => j \notin stale
  BY <1>0 DEF Stale
<1> HIDE DEF stale, B
<1> HIDE DEF A
<1>13. O(r) \in [Pos -> SUBSET Cell] /\ \A j \in Pos : O(r)[j] = IF j \in stale THEN {r[j]} ELSE f.opts[j]
  BY <1>0, <1>9
<1> HIDE DEF O
<1>14. h \in File /\ h.data = r /\ h.opts = O(r) /\ h.dirty = f.dirty
  BY <1>0, <1>2, <1>9, <1>13 DEF File
<1>15. FileOk(h)
  BY <1>0, <1>10, <1>13, <1>14 DEF FileOk
<1>16. Certain(f, h)
  BY <1>12, <1>13, <1>14 DEF Certain
<1> QED
  BY <1>10, <1>11, <1>14, <1>15, <1>16

(* A power loss: every cell is one of those that may be on the disk. *)
LEMMA SurvivorsFile ==
    ASSUME NEW f, FileOk(f), NEW h \in Survivors(f)
    PROVE  FileOk(h) /\ Certain(f, h)
<1> DEFINE A == [j \in 1..MaxLen |-> Surviving(f, j)]
<1>0. f.names = {TRUE} /\ f.lens = {MaxLen}
  BY FileIs
<1>1. MaxLen \in Nat /\ Pos = 1..MaxLen
  BY Consts DEF Pos
<1>2. Survivors(f) = {Settled(r) : r \in Rows(MaxLen, A)}
  BY <1>0 DEF Survivors, Contents
<1>3. A \in [1..MaxLen -> SUBSET Cell] /\ \A j \in Pos : A[j] = Surviving(f, j)
  BY <1>1, SurvivingIs
<1> HIDE DEF A
<1>8. PICK r \in Rows(MaxLen, A) : h = Settled(r)
  BY <1>2
<1>9. r \in [Pos -> Cell] /\ Len(r) = MaxLen /\ \A j \in Pos : r[j] \in Surviving(f, j)
  BY <1>1, <1>3, RowsAre
<1> DEFINE O == [j \in Pos |-> {r[j]}]
<1>10. Settled(r).opts = O
  BY <1>1, <1>9 DEF Settled
<1>11. O \in [Pos -> SUBSET Cell] /\ \A j \in Pos : O[j] = {r[j]}
  BY <1>9
<1> HIDE DEF O
<1>12. h \in File /\ h.data = r /\ h.opts = O
  BY <1>8, <1>9, <1>10, <1>11 DEF File, Settled
<1>13. FileOk(h)
  BY <1>11, <1>12 DEF FileOk
<1>14. Certain(f, h)
  <2> SUFFICES ASSUME NEW j \in Pos, NEW c \in Cell, f.opts[j] = {c} PROVE h.opts[j] = {c}
    BY DEF Certain
  <2>1. Surviving(f, j) = {c}
    BY SurvivingIs
  <2> QED
    BY <1>9, <1>11, <1>12, <2>1
<1> QED
  BY <1>13, <1>14

-----------------------------------------------------------------------------
(* Stores: what an operation keeps. *)

(* The slots of f are those of g, some of them more certain. *)
Calm(f, g) ==
    /\ g.data = f.data
    /\ \A j \in Pos : g.opts[j] = {f.data[j]} \/ (g.opts[j] = f.opts[j] /\ (j \in f.dirty => j \in g.dirty))

(* Every unit that certainly reads as something still does. *)
Keeps(s, t, l1, l2) ==
    \A u \in Unit : /\ Blank(s, u, l1) => Blank(t, u, l2)
                    /\ \A c \in Written : Shows(s, u, c, l1) => Shows(t, u, c, l2)

(* A step of an open store that a running checkpoint need not know of: or *)
(* it is counted as a failed reservation. *)
Quiet(s, t) ==
    /\ StoreOk(t, TRUE) /\ Keeps(s, t, TRUE, TRUE)
    /\ s.res \subseteq t.res /\ s.fails <= t.fails
    /\ t.fails = s.fails /\ t.fails # MaxFails => Calm(s.shard, t.shard)

(* What the fields of a store are. *)
LEMMA StoreIs ==
    ASSUME NEW s \in StoreType
    PROVE  /\ s.shard \in File /\ s.alloc \subseteq Unit /\ s.disc \subseteq Unit /\ s.res \subseteq Unit
           /\ s.allocReg \in MapReg /\ s.discReg \in MapReg
           /\ s.allocDirty \in BOOLEAN /\ s.mapStored \in BOOLEAN /\ s.discDirty \in BOOLEAN
           /\ s.cursor \in 0..MaxLen /\ s.fails \in 0..MaxFails
  BY DEF StoreType

(* What the fields of a map register are. *)
LEMMA RegIs ==
    ASSUME NEW r \in MapReg
    PROVE  r.now \in SUBSET Unit /\ r.may \in SUBSET (SUBSET Unit)
  BY DEF MapReg

(* These relations are reflexive. *)
LEMMA KeepsSelf == \A s, l : Keeps(s, s, l, l)
  BY DEF Keeps

(* The same for the shard. *)
LEMMA CalmSelf == \A f : Calm(f, f)
  BY DEF Calm

(* The same for a store that is open. *)
LEMMA QuietSelf ==
    ASSUME NEW s, StoreOk(s, TRUE)
    PROVE  Quiet(s, s)
<1>1. s.fails \in 0..MaxFails
  BY StoreIs DEF StoreOk
<1>2. s.fails <= s.fails
  BY <1>1, Consts
<1> QED
  BY <1>2, KeepsSelf, CalmSelf DEF Quiet

(* And they are transitive. *)
LEMMA KeepsTrans ==
    ASSUME NEW s, NEW t, NEW w, NEW l1, NEW l2, NEW l3, Keeps(s, t, l1, l2), Keeps(t, w, l2, l3)
    PROVE  Keeps(s, w, l1, l3)
  BY DEF Keeps

(* The same for the shard. *)
LEMMA CalmTrans ==
    ASSUME NEW f, NEW g, NEW h, Calm(f, g), Calm(g, h)
    PROVE  Calm(f, h)
  BY DEF Calm

(* The same for a store that is open. *)
LEMMA QuietTrans ==
    ASSUME NEW s, NEW t, NEW w, StoreOk(s, TRUE), Quiet(s, t), Quiet(t, w)
    PROVE  Quiet(s, w)
<1>1. s.fails \in Nat /\ t.fails \in Nat /\ w.fails \in Nat
  BY StoreIs, Consts DEF StoreOk, Quiet
<1>2. s.fails <= t.fails /\ t.fails <= w.fails
  BY DEF Quiet
<1>3. s.fails <= w.fails /\ (w.fails = s.fails => t.fails = s.fails /\ w.fails = t.fails)
  BY <1>1, <1>2
<1>4. Keeps(s, w, TRUE, TRUE)
  BY KeepsTrans DEF Quiet
<1>5. w.fails = s.fails /\ w.fails # MaxFails => Calm(s.shard, w.shard)
  BY <1>3, CalmTrans DEF Quiet
<1> QED
  BY <1>3, <1>4, <1>5 DEF Quiet

(* What an operation that leaves the shard and the discard map alone and *)
(* may store the allocation map keeps. *)
LEMMA AllocStored ==
    ASSUME NEW s, StoreOk(s, TRUE), NEW t \in StoreType,
           t.shard = s.shard, t.disc = s.disc, t.discReg = s.discReg, t.discDirty = s.discDirty,
           t.alloc = s.alloc, t.res = s.res, t.fails = s.fails,
           t.allocReg.now \in t.allocReg.may, t.allocReg.may \subseteq s.allocReg.may \cup {s.alloc}
    PROVE  Quiet(s, t)
<1>1. StoreOk(t, TRUE)
  BY DEF StoreOk
<1>2. Keeps(s, t, TRUE, TRUE)
  <2> SUFFICES ASSUME NEW u \in Unit
               PROVE  /\ Blank(s, u, TRUE) => Blank(t, u, TRUE)
                      /\ \A c \in Written : Shows(s, u, c, TRUE) => Shows(t, u, c, TRUE)
    BY DEF Keeps
  <2>1. Blank(s, u, TRUE) => Blank(t, u, TRUE)
    BY DEF Blank
  <2>2. \A c \in Written : Shows(s, u, c, TRUE) => Shows(t, u, c, TRUE)
    BY DEF Shows
  <2> QED
    BY <2>1, <2>2
<1>3. s.fails \in 0..MaxFails
  BY StoreIs DEF StoreOk
<1>4. s.fails <= t.fails
  BY <1>3, Consts
<1> QED
  BY <1>1, <1>2, <1>4, CalmSelf DEF Quiet

(* What an operation that may store the discard map keeps. *)
LEMMA DiscStored ==
    ASSUME NEW s, StoreOk(s, TRUE), NEW t \in StoreType,
           t.shard = s.shard, t.disc = s.disc, t.alloc = s.alloc, t.allocReg = s.allocReg,
           t.res = s.res, t.fails = s.fails,
           t.discReg.now \in t.discReg.may, t.discReg.may \subseteq s.discReg.may \cup {s.disc},
           t.discDirty \/ t.discReg.may = {s.disc}
    PROVE  Quiet(s, t)
<1>1. StoreOk(t, TRUE)
  BY DEF StoreOk
<1>2. Keeps(s, t, TRUE, TRUE)
  <2> SUFFICES ASSUME NEW u \in Unit
               PROVE  /\ Blank(s, u, TRUE) => Blank(t, u, TRUE)
                      /\ \A c \in Written : Shows(s, u, c, TRUE) => Shows(t, u, c, TRUE)
    BY DEF Keeps
  <2>1. Blank(s, u, TRUE) => Blank(t, u, TRUE)
    BY DEF Blank
  <2>2. \A c \in Written : Shows(s, u, c, TRUE) => Shows(t, u, c, TRUE)
    BY DEF Shows
  <2> QED
    BY <2>1, <2>2
<1>3. s.fails \in 0..MaxFails
  BY StoreIs DEF StoreOk
<1>4. s.fails <= t.fails
  BY <1>3, Consts
<1> QED
  BY <1>1, <1>2, <1>4, CalmSelf DEF Quiet

(* The state of a register after a store of it. *)
LEMMA RegStored ==
    ASSUME NEW r \in MapReg, r.now \in r.may, NEW m \in SUBSET Unit
    PROVE  /\ \A q \in HalfStored(r, m) : q \in MapReg /\ q.now \in q.may /\ q.may = r.may \cup {m}
           /\ Stored(r, m) \in MapReg /\ Stored(r, m).now \in Stored(r, m).may /\ Stored(r, m).may = {m}
  BY RegIs DEF HalfStored, MapReg, Stored

(* Storing the allocation map. *)
LEMMA PersistAllocationsIs ==
    ASSUME NEW s, StoreOk(s, TRUE), NEW r \in PersistAllocations(s)
    PROVE  /\ r.ok \in BOOLEAN /\ Quiet(s, r.s)
           /\ r.s.shard = s.shard /\ r.s.disc = s.disc /\ r.s.discReg = s.discReg /\ r.s.discDirty = s.discDirty
           /\ r.s.res = s.res /\ r.s.fails = s.fails /\ r.s.alloc = s.alloc
<1>0. s \in StoreType /\ s.allocReg \in MapReg /\ s.allocReg.now \in s.allocReg.may /\ s.alloc \in SUBSET Unit
  BY StoreIs DEF StoreOk
<1>1. CASE r = Done(s)
  BY <1>1, QuietSelf DEF Done
<1>2. ASSUME NEW q \in HalfStored(s.allocReg, s.alloc), r = Failed([s EXCEPT !.allocReg = q])
      PROVE  /\ r.ok \in BOOLEAN /\ Quiet(s, r.s)
             /\ r.s.shard = s.shard /\ r.s.disc = s.disc /\ r.s.discReg = s.discReg /\ r.s.discDirty = s.discDirty
             /\ r.s.res = s.res /\ r.s.fails = s.fails /\ r.s.alloc = s.alloc
  <2>1. q \in MapReg /\ q.now \in q.may /\ q.may = s.allocReg.may \cup {s.alloc}
    BY <1>0, RegStored
  <2>2. r.ok = FALSE /\ r.s = [s EXCEPT !.allocReg = q]
    BY <1>2 DEF Failed
  <2>3. /\ r.s \in StoreType /\ r.s.allocReg = q
        /\ r.s.shard = s.shard /\ r.s.disc = s.disc /\ r.s.discReg = s.discReg /\ r.s.discDirty = s.discDirty
        /\ r.s.res = s.res /\ r.s.fails = s.fails /\ r.s.alloc = s.alloc
    BY <1>0, <2>1, <2>2 DEF StoreType
  <2>4. Quiet(s, r.s)
    BY <2>1, <2>3, AllocStored
  <2> QED
    BY <2>2, <2>3, <2>4
<1>3. CASE r = Done([s EXCEPT !.allocReg = Stored(@, s.alloc), !.allocDirty = FALSE, !.mapStored = TRUE])
  <2> DEFINE q == Stored(s.allocReg, s.alloc)
  <2>1. q \in MapReg /\ q.now \in q.may /\ q.may = {s.alloc}
    BY <1>0, RegStored
  <2>2. r.ok = TRUE /\ r.s = [s EXCEPT !.allocReg = q, !.allocDirty = FALSE, !.mapStored = TRUE]
    BY <1>3 DEF Done
  <2> HIDE DEF q
  <2>a. r.s \in StoreType
    BY ZenonT(60), <1>0, <2>1, <2>2 DEF StoreType
  <2>3. /\ r.s \in StoreType /\ r.s.allocReg = q
        /\ r.s.shard = s.shard /\ r.s.disc = s.disc /\ r.s.discReg = s.discReg /\ r.s.discDirty = s.discDirty
        /\ r.s.res = s.res /\ r.s.fails = s.fails /\ r.s.alloc = s.alloc
    BY <1>0, <2>2, <2>a DEF StoreType
  <2>4. Quiet(s, r.s)
    BY <2>1, <2>3, AllocStored
  <2> QED
    BY <2>2, <2>3, <2>4
<1>4. \/ r = Done(s)
      \/ \E q \in HalfStored(s.allocReg, s.alloc) : r = Failed([s EXCEPT !.allocReg = q])
      \/ r = Done([s EXCEPT !.allocReg = Stored(@, s.alloc), !.allocDirty = FALSE, !.mapStored = TRUE])
  BY DEF PersistAllocations
<1> QED
  BY <1>1, <1>2, <1>3, <1>4

(* Storing the discard map. *)
LEMMA PersistDiscardsIs ==
    ASSUME NEW s, StoreOk(s, TRUE), NEW r \in PersistDiscards(s)
    PROVE  /\ r.ok \in BOOLEAN /\ Quiet(s, r.s)
           /\ r.s.shard = s.shard /\ r.s.disc = s.disc /\ r.s.alloc = s.alloc /\ r.s.allocReg = s.allocReg
           /\ r.s.res = s.res /\ r.s.fails = s.fails
           /\ r.ok => r.s.discReg.may = {s.disc} /\ ~r.s.discDirty
<1>0. s \in StoreType /\ s.discReg \in MapReg /\ s.discReg.now \in s.discReg.may /\ s.disc \in SUBSET Unit
  BY StoreIs DEF StoreOk
<1>1. CASE ~s.discDirty /\ r = Done(s)
  BY <1>1, QuietSelf DEF StoreOk, Done
<1>2. ASSUME s.discDirty, NEW q \in HalfStored(s.discReg, s.disc), r = Failed([s EXCEPT !.discReg = q])
      PROVE  /\ r.ok \in BOOLEAN /\ Quiet(s, r.s) /\ ~r.ok
             /\ r.s.shard = s.shard /\ r.s.disc = s.disc /\ r.s.alloc = s.alloc /\ r.s.allocReg = s.allocReg
             /\ r.s.res = s.res /\ r.s.fails = s.fails
  <2>1. q \in MapReg /\ q.now \in q.may /\ q.may = s.discReg.may \cup {s.disc}
    BY <1>0, RegStored
  <2>2. r.ok = FALSE /\ r.s = [s EXCEPT !.discReg = q]
    BY <1>2 DEF Failed
  <2>3. /\ r.s \in StoreType /\ r.s.discReg = q /\ r.s.discDirty = s.discDirty
        /\ r.s.shard = s.shard /\ r.s.disc = s.disc /\ r.s.alloc = s.alloc /\ r.s.allocReg = s.allocReg
        /\ r.s.res = s.res /\ r.s.fails = s.fails
    BY <1>0, <2>1, <2>2 DEF StoreType
  <2>4. Quiet(s, r.s)
    BY <1>2, <2>1, <2>3, DiscStored
  <2> QED
    BY <2>2, <2>3, <2>4
<1>3. CASE r = Done([s EXCEPT !.discReg = Stored(@, s.disc), !.discDirty = FALSE])
  <2> DEFINE q == Stored(s.discReg, s.disc)
  <2>1. q \in MapReg /\ q.now \in q.may /\ q.may = {s.disc}
    BY <1>0, RegStored
  <2>2. r.ok = TRUE /\ r.s = [s EXCEPT !.discReg = q, !.discDirty = FALSE]
    BY <1>3 DEF Done
  <2> HIDE DEF q
  <2>3. /\ r.s \in StoreType /\ r.s.discReg = q /\ r.s.discDirty = FALSE
        /\ r.s.shard = s.shard /\ r.s.disc = s.disc /\ r.s.alloc = s.alloc /\ r.s.allocReg = s.allocReg
        /\ r.s.res = s.res /\ r.s.fails = s.fails
    BY ZenonT(60), <1>0, <2>1, <2>2 DEF StoreType
  <2>4. Quiet(s, r.s)
    BY <2>1, <2>3, DiscStored
  <2> QED
    BY <2>1, <2>2, <2>3, <2>4
<1>4. \/ ~s.discDirty /\ r = Done(s)
      \/ s.discDirty /\ \E q \in HalfStored(s.discReg, s.disc) : r = Failed([s EXCEPT !.discReg = q])
      \/ r = Done([s EXCEPT !.discReg = Stored(@, s.disc), !.discDirty = FALSE])
  BY DEF PersistDiscards
<1> QED
  BY <1>1, <1>2, <1>3, <1>4

(* Creating the shard when it is missing: it never is. *)
LEMMA EnsureShardIs ==
    ASSUME NEW s, StoreOk(s, TRUE), NEW r \in EnsureShard(s)
    PROVE  /\ r.ok \in BOOLEAN /\ Quiet(s, r.s)
           /\ r.s.shard = s.shard /\ r.s.disc = s.disc /\ r.s.discReg = s.discReg /\ r.s.discDirty = s.discDirty
           /\ r.s.res = s.res /\ r.s.fails = s.fails /\ r.s.alloc = s.alloc
<1>1. CASE r = Done(s)
  BY <1>1, QuietSelf DEF Done
<1>2. CASE r \in PersistAllocations(s)
  BY <1>2, PersistAllocationsIs
<1> QED
  BY <1>1, <1>2 DEF EnsureShard

(* A shard in which everything certain stays so. *)
LEMMA ShardKept ==
    ASSUME NEW s, NEW l \in BOOLEAN, StoreOk(s, l), NEW t \in StoreType, FileOk(t.shard), Certain(s.shard, t.shard),
           t.disc = s.disc, t.discReg = s.discReg, t.discDirty = s.discDirty,
           t.alloc = s.alloc, t.allocReg = s.allocReg
    PROVE  StoreOk(t, l) /\ Keeps(s, t, l, l)
<1>1. StoreOk(t, l)
  BY DEF StoreOk
<1>2. Keeps(s, t, l, l)
  <2> SUFFICES ASSUME NEW u \in Unit
               PROVE  /\ Blank(s, u, l) => Blank(t, u, l)
                      /\ \A c \in Written : Shows(s, u, c, l) => Shows(t, u, c, l)
    BY DEF Keeps
  <2>0. u + 1 \in Pos /\ Zero \in Cell
    BY UnitPos, Cells
  <2>1. Blank(s, u, l) => Blank(t, u, l)
    BY <2>0 DEF Blank, Certain
  <2>2. \A c \in Written : Shows(s, u, c, l) => Shows(t, u, c, l)
    BY <2>0, WrittenIs DEF Shows, Certain
  <2> QED
    BY <2>1, <2>2
<1> QED
  BY <1>1, <1>2

(* A sync that succeeds. *)
LEMMA StoreSynced ==
    ASSUME NEW s, StoreOk(s, TRUE), NEW t \in StoreType, t.shard = Synced(s.shard), s.res \subseteq t.res, t.fails = s.fails,
           t.disc = s.disc, t.discReg = s.discReg, t.discDirty = s.discDirty, t.alloc = s.alloc, t.allocReg = s.allocReg
    PROVE  Quiet(s, t)
<1>0. s \in StoreType /\ FileOk(s.shard) /\ s.fails \in 0..MaxFails
  BY StoreIs DEF StoreOk
<1> DEFINE g == Synced(s.shard)
<1>1. FileOk(g) /\ Certain(s.shard, g) /\ g \in File /\ g.data = s.shard.data
  BY <1>0, SyncedFile DEF FileOk
<1>2. Calm(s.shard, g)
  <2>1. \A j \in Pos : g.opts[j] = IF j \in s.shard.dirty THEN {s.shard.data[j]} ELSE s.shard.opts[j]
    BY <1>0, SyncedFile
  <2> HIDE DEF g
  <2> QED
    BY <1>1, <2>1 DEF Calm
<1>5. StoreOk(t, TRUE) /\ Keeps(s, t, TRUE, TRUE)
  BY <1>1, ShardKept
<1>6. s.fails <= t.fails
  BY <1>0, Consts
<1> QED
  BY <1>2, <1>5, <1>6 DEF Quiet

(* A failed reservation is counted, or the count is saturated. *)
LEMMA ReservationFailedIs ==
    ASSUME NEW s, StoreOk(s, TRUE)
    PROVE  Quiet(s, ReservationFailed(s))
<1>0. s \in StoreType /\ FileOk(s.shard) /\ s.fails \in 0..MaxFails
  BY StoreIs DEF StoreOk
<1> DEFINE g == SyncFailed(s.shard)
           n == IF s.fails < MaxFails THEN s.fails + 1 ELSE s.fails
           t == ReservationFailed(s)
<1>1. FileOk(g) /\ Certain(s.shard, g) /\ g \in File
  BY <1>0, SyncFailedFile DEF FileOk
<1>2. n \in 0..MaxFails /\ s.fails <= n /\ (n = s.fails => n = MaxFails)
  BY <1>0, Consts
<1>3. t = [s EXCEPT !.shard = g, !.fails = n]
  BY DEF ReservationFailed
<1> HIDE DEF g, n, t
<1>4. t \in StoreType /\ t.shard = g /\ t.fails = n
  BY <1>0, <1>1, <1>2, <1>3 DEF StoreType
<1>5. /\ t.disc = s.disc /\ t.discReg = s.discReg /\ t.discDirty = s.discDirty
      /\ t.alloc = s.alloc /\ t.allocReg = s.allocReg /\ t.res = s.res
  BY <1>0, <1>3 DEF StoreType
<1>6. StoreOk(t, TRUE) /\ Keeps(s, t, TRUE, TRUE)
  BY <1>1, <1>4, <1>5, ShardKept
<1>7. Quiet(s, t)
  BY <1>2, <1>4, <1>5, <1>6 DEF Quiet
<1> QED
  BY <1>7 DEF t

(* Reserving a slot: one that succeeds has the slot reserved. *)
LEMMA ReserveSlotIs ==
    ASSUME NEW s, StoreOk(s, TRUE), NEW u \in Unit, NEW r \in ReserveSlot(s, u)
    PROVE  r.ok \in BOOLEAN /\ Quiet(s, r.s) /\ (r.ok => u \in r.s.res)
<1> DEFINE F(e) == {Failed(e.s), Failed(ReservationFailed(e.s)),
                    Done([e.s EXCEPT !.shard = Synced(@), !.res = @ \cup {u}])}
<1>1. PICK e \in EnsureShard(s) : r \in IF e.ok THEN F(e) ELSE {e}
  BY DEF ReserveSlot, Then
<1>2. e.ok \in BOOLEAN /\ Quiet(s, e.s)
  BY EnsureShardIs
<1>3. StoreOk(e.s, TRUE)
  BY <1>2 DEF Quiet
<1>4. CASE ~e.ok
  BY <1>1, <1>2, <1>4
<1>5. CASE r = Failed(e.s)
  BY <1>2, <1>5 DEF Failed
<1>6. CASE r = Failed(ReservationFailed(e.s))
  BY <1>2, <1>3, ReservationFailedIs, QuietTrans, <1>6 DEF Failed
<1>7. CASE r = Done([e.s EXCEPT !.shard = Synced(@), !.res = @ \cup {u}])
  <2>1. r.ok = TRUE /\ r.s = [e.s EXCEPT !.shard = Synced(e.s.shard), !.res = e.s.res \cup {u}]
    BY <1>7 DEF Done
  <2>2. e.s \in StoreType /\ e.s.res \cup {u} \in SUBSET Unit /\ Synced(e.s.shard) \in File
    BY <1>3, StoreIs, SyncedFile DEF StoreOk, FileOk
  <2>3. r.s \in StoreType
    BY <2>1, <2>2 DEF StoreType
  <2>4. /\ r.s.shard = Synced(e.s.shard) /\ r.s.res = e.s.res \cup {u} /\ r.s.fails = e.s.fails
        /\ r.s.disc = e.s.disc /\ r.s.discReg = e.s.discReg /\ r.s.discDirty = e.s.discDirty
        /\ r.s.alloc = e.s.alloc /\ r.s.allocReg = e.s.allocReg
    BY <2>1, <2>2 DEF StoreType
  <2>5. Quiet(e.s, r.s)
    BY <1>3, <2>3, <2>4, StoreSynced
  <2>6. Quiet(s, r.s)
    BY <1>2, <2>5, QuietTrans
  <2> QED
    BY <2>1, <2>4, <2>6
<1> QED
  BY <1>1, <1>4, <1>5, <1>6, <1>7

(* What a reader finds in a slot that is certain. *)
LEMMA HeaderIs ==
    ASSUME NEW s, StoreOk(s, TRUE), NEW u \in Unit
    PROVE  /\ Blank(s, u, TRUE) => SlotHeader(s, u) = Zero
           /\ \A c \in Written : Shows(s, u, c, TRUE) => SlotHeader(s, u) = c
  BY UnitPos, FileIs, Cells, WrittenIs DEF StoreOk, Blank, SlotHeader, HeaderBy, Shows

(* The reservation of a slot that reads as zeros is queued. *)
LEMMA ReclaimUnwrittenIs ==
    ASSUME NEW s, StoreOk(s, TRUE), NEW u \in Unit, SlotHeader(s, u) = Zero
    PROVE  Quiet(s, ReclaimUnwritten(s, u))
<1>0. s \in StoreType /\ s.disc \subseteq Unit /\ s.cursor \in 0..MaxLen /\ s.discDirty \in BOOLEAN /\ s.fails \in 0..MaxFails
  BY StoreIs DEF StoreOk
<1> DEFINE new == s.disc \cup {u}
           dirty == s.discDirty \/ new # s.disc
           cur == IF s.cursor = 0 \/ u < s.cursor THEN u ELSE s.cursor
           t == ReclaimUnwritten(s, u)
<1>1. new \in SUBSET Unit /\ dirty \in BOOLEAN /\ cur \in 0..MaxLen
  BY <1>0, UnitPos, Consts
<1>2. t = [s EXCEPT !.disc = new, !.discDirty = dirty, !.cursor = cur]
  BY <1>0 DEF ReclaimUnwritten, SetDiscarded, StoreType
<1>3. u \in new /\ s.disc \subseteq new /\ (~dirty => ~s.discDirty /\ new = s.disc) /\ \A w \in new : w = u \/ w \in s.disc
  OBVIOUS
<1> HIDE DEF new, dirty, cur, t
<1>4. t \in StoreType /\ t.disc = new /\ t.discDirty = dirty
  BY <1>0, <1>1, <1>2 DEF StoreType
<1>5. /\ t.shard = s.shard /\ t.discReg = s.discReg /\ t.alloc = s.alloc /\ t.allocReg = s.allocReg
      /\ t.res = s.res /\ t.fails = s.fails
  BY <1>0, <1>2 DEF StoreType
<1>6. StoreOk(t, TRUE)
  BY <1>3, <1>4, <1>5 DEF StoreOk
<1>7. Keeps(s, t, TRUE, TRUE)
  <2> SUFFICES ASSUME NEW w \in Unit
               PROVE  /\ Blank(s, w, TRUE) => Blank(t, w, TRUE)
                      /\ \A c \in Written : Shows(s, w, c, TRUE) => Shows(t, w, c, TRUE)
    BY DEF Keeps
  <2>1. Blank(s, w, TRUE) => Blank(t, w, TRUE)
    BY <1>3, <1>4, <1>5 DEF Blank
  <2>2. ASSUME NEW c \in Written, Shows(s, w, c, TRUE) PROVE Shows(t, w, c, TRUE)
    BY <2>2, HeaderIs, WrittenIs, <1>3, <1>4, <1>5 DEF Shows
  <2> QED
    BY <2>1, <2>2
<1>8. s.fails <= t.fails
  BY <1>0, <1>5, Consts
<1>9. Quiet(s, t)
  BY <1>5, <1>6, <1>7, <1>8, CalmSelf DEF Quiet
<1> QED
  BY <1>9 DEF t

-----------------------------------------------------------------------------
(* Stores: reclamation. *)

(* Slots of U are punched: what is certain of any unit stays so. *)
Punches(s, t, U) ==
    /\ StoreOk(t, TRUE) /\ Keeps(s, t, TRUE, TRUE) /\ s.res \ U \subseteq t.res
    /\ t.disc = s.disc /\ t.discReg = s.discReg /\ t.discDirty = s.discDirty

(* That holds when the units of U are in every discard map. *)
LEMMA PunchKept ==
    ASSUME NEW s, StoreOk(s, TRUE), s.discReg.may = {s.disc}, NEW U \in SUBSET s.disc,
           NEW t \in StoreType, FileOk(t.shard), s.res \ U \subseteq t.res,
           \A u \in Unit \ U : \A c \in Cell : s.shard.opts[u + 1] = {c} => t.shard.opts[u + 1] = {c},
           t.disc = s.disc, t.discReg = s.discReg, t.discDirty = s.discDirty,
           t.alloc = s.alloc, t.allocReg = s.allocReg
    PROVE  Punches(s, t, U)
<1>1. StoreOk(t, TRUE)
  BY DEF StoreOk
<1>2. Keeps(s, t, TRUE, TRUE)
  <2> SUFFICES ASSUME NEW u \in Unit
               PROVE  /\ Blank(s, u, TRUE) => Blank(t, u, TRUE)
                      /\ \A c \in Written : Shows(s, u, c, TRUE) => Shows(t, u, c, TRUE)
    BY DEF Keeps
  <2>1. CASE u \in U
    BY <2>1 DEF Blank, Shows
  <2>2. CASE u \notin U
    BY <2>2, Cells, WrittenIs DEF Blank, Shows
  <2> QED
    BY <2>1, <2>2
<1> QED
  BY <1>1, <1>2 DEF Punches

(* Slots that are punched. *)
LEMMA PunchedIs ==
    ASSUME NEW s, StoreOk(s, TRUE), NEW U \in SUBSET Unit
    PROVE  /\ Punched(s, U) \in StoreType /\ FileOk(Punched(s, U).shard) /\ Punched(s, U).res = s.res \ U
           /\ \A u \in Unit \ U : Punched(s, U).shard.opts[u + 1] = s.shard.opts[u + 1]
           /\ Punched(s, U).disc = s.disc /\ Punched(s, U).discReg = s.discReg /\ Punched(s, U).discDirty = s.discDirty
           /\ Punched(s, U).alloc = s.alloc /\ Punched(s, U).allocReg = s.allocReg
<1> DEFINE put == [u \in U |-> Zero]
           g == SlotsPut(s.shard, put)
           t == Punched(s, U)
<1>0. s \in StoreType /\ FileOk(s.shard) /\ s.res \in SUBSET Unit
  BY StoreIs DEF StoreOk
<1>1. put \in [U -> Cell]
  BY Cells
<1>2. t = [s EXCEPT !.shard = g, !.res = s.res \ U]
  BY DEF Punched
<1> HIDE DEF put, t
<1>3. FileOk(g) /\ \A u \in Unit \ U : g.opts[u + 1] = s.shard.opts[u + 1]
  BY <1>0, <1>1, PutFile
<1>4. g \in File
  BY <1>3 DEF FileOk
<1> HIDE DEF g
<1>5. t \in StoreType /\ t.shard = g /\ t.res = s.res \ U
  BY <1>0, <1>2, <1>4 DEF StoreType
<1>6. t.disc = s.disc /\ t.discReg = s.discReg /\ t.discDirty = s.discDirty /\ t.alloc = s.alloc /\ t.allocReg = s.allocReg
  BY <1>0, <1>2 DEF StoreType
<1> QED
  BY <1>3, <1>5, <1>6 DEF t

(* Punching slots that are discarded for certain. *)
LEMMA PunchSlotsIs ==
    ASSUME NEW s, StoreOk(s, TRUE), s.discReg.may = {s.disc}, NEW U \in SUBSET s.disc, NEW r \in PunchSlots(s, U)
    PROVE  r.ok \in BOOLEAN /\ Punches(s, r.s, U)
<1>0. s \in StoreType /\ s.disc \subseteq Unit /\ s.res \subseteq Unit
  BY StoreIs DEF StoreOk
<1>1. CASE r = Done(s)
  BY <1>1, KeepsSelf DEF Done, Punches
<1>2. ASSUME NEW W \in SUBSET U, r = Failed(Punched(s, W))
      PROVE  r.ok \in BOOLEAN /\ Punches(s, r.s, U)
  <2> DEFINE t == Punched(s, W)
  <2>1. W \in SUBSET Unit
    BY <1>0
  <2>2. /\ t \in StoreType /\ FileOk(t.shard) /\ t.res = s.res \ W
        /\ \A u \in Unit \ W : t.shard.opts[u + 1] = s.shard.opts[u + 1]
        /\ t.disc = s.disc /\ t.discReg = s.discReg /\ t.discDirty = s.discDirty
        /\ t.alloc = s.alloc /\ t.allocReg = s.allocReg
    BY <2>1, PunchedIs
  <2> HIDE DEF t
  <2>3. /\ \A u \in Unit \ U : \A c \in Cell : s.shard.opts[u + 1] = {c} => t.shard.opts[u + 1] = {c}
        /\ s.res \ U \subseteq t.res
    BY <2>2
  <2>4. Punches(s, t, U)
    BY <2>2, <2>3, PunchKept
  <2>5. r.ok = FALSE /\ r.s = t
    BY <1>2 DEF Failed, t
  <2> QED
    BY <2>4, <2>5
<1>3. ASSUME NEW f \in {Synced(Punched(s, U).shard), SyncFailed(Punched(s, U).shard)},
             r.s = [Punched(s, U) EXCEPT !.shard = f]
      PROVE  Punches(s, r.s, U)
  <2> DEFINE t == Punched(s, U)
  <2>1. U \in SUBSET Unit
    BY <1>0
  <2>2. /\ t \in StoreType /\ FileOk(t.shard) /\ t.res = s.res \ U
        /\ \A u \in Unit \ U : t.shard.opts[u + 1] = s.shard.opts[u + 1]
        /\ t.disc = s.disc /\ t.discReg = s.discReg /\ t.discDirty = s.discDirty
        /\ t.alloc = s.alloc /\ t.allocReg = s.allocReg
    BY <2>1, PunchedIs
  <2> HIDE DEF t
  <2>3. FileOk(f) /\ Certain(t.shard, f)
    BY <1>3, <2>2, SyncedFile, SyncFailedFile DEF t
  <2>4. f \in File
    BY <2>3 DEF FileOk
  <2>5. r.s = [t EXCEPT !.shard = f]
    BY <1>3 DEF t
  <2>6. r.s \in StoreType /\ r.s.shard = f
    BY <2>2, <2>4, <2>5 DEF StoreType
  <2>7. /\ r.s.res = s.res \ U /\ r.s.disc = s.disc /\ r.s.discReg = s.discReg /\ r.s.discDirty = s.discDirty
        /\ r.s.alloc = s.alloc /\ r.s.allocReg = s.allocReg
    BY <2>2, <2>5 DEF StoreType
  <2>8. \A u \in Unit \ U : \A c \in Cell : s.shard.opts[u + 1] = {c} => f.opts[u + 1] = {c}
    BY <2>2, <2>3, UnitPos DEF Certain
  <2> QED
    BY <2>3, <2>6, <2>7, <2>8, PunchKept
<1>4. \/ r = Done(s)
      \/ r = Done([Punched(s, U) EXCEPT !.shard = Synced(@)])
      \/ r = Failed([Punched(s, U) EXCEPT !.shard = SyncFailed(@)])
      \/ \E u \in U : r = Failed(Punched(s, {w \in U : w < u}))
  BY DEF PunchSlots
<1>5. CASE r = Done([Punched(s, U) EXCEPT !.shard = Synced(@)])
  BY <1>5, <1>3 DEF Done
<1>6. CASE r = Failed([Punched(s, U) EXCEPT !.shard = SyncFailed(@)])
  BY <1>6, <1>3 DEF Failed
<1>7. CASE \E u \in U : r = Failed(Punched(s, {w \in U : w < u}))
  BY <1>7, <1>2
<1> QED
  BY <1>1, <1>4, <1>5, <1>6, <1>7

(* A store of which only the cursor changes. *)
LEMMA CursorMoved ==
    ASSUME NEW s, StoreOk(s, TRUE), NEW n \in 0..MaxLen
    PROVE  /\ StoreOk([s EXCEPT !.cursor = n], TRUE) /\ Keeps(s, [s EXCEPT !.cursor = n], TRUE, TRUE)
           /\ [s EXCEPT !.cursor = n].res = s.res /\ [s EXCEPT !.cursor = n].disc = s.disc
           /\ [s EXCEPT !.cursor = n].discReg = s.discReg
<1>0. s \in StoreType /\ FileOk(s.shard)
  BY DEF StoreOk
<1> DEFINE t == [s EXCEPT !.cursor = n]
<1>1. t \in StoreType
  BY <1>0 DEF StoreType
<1>2. /\ t.shard = s.shard /\ t.disc = s.disc /\ t.discReg = s.discReg /\ t.discDirty = s.discDirty
      /\ t.alloc = s.alloc /\ t.allocReg = s.allocReg /\ t.res = s.res
  BY <1>0 DEF StoreType
<1>3. Certain(s.shard, s.shard)
  BY DEF Certain
<1> HIDE DEF t
<1>4. StoreOk(t, TRUE) /\ Keeps(s, t, TRUE, TRUE)
  BY <1>0, <1>1, <1>2, <1>3, ShardKept
<1> QED
  BY <1>2, <1>4 DEF t

(* Scheduling a reclamation scan. *)
LEMMA ScheduleReclamationIs ==
    ASSUME NEW s, StoreOk(s, TRUE)
    PROVE  /\ StoreOk(ScheduleReclamation(s), TRUE) /\ Keeps(s, ScheduleReclamation(s), TRUE, TRUE)
           /\ ScheduleReclamation(s).res = s.res /\ ScheduleReclamation(s).disc = s.disc
           /\ ScheduleReclamation(s).discReg = s.discReg
<1> DEFINE n == IF s.disc = {} THEN 0 ELSE 1
           t == ScheduleReclamation(s)
<1>1. n \in 0..MaxLen
  BY Consts
<1>2. t = [s EXCEPT !.cursor = n]
  BY DEF ScheduleReclamation
<1> HIDE DEF n, t
<1>3. StoreOk(t, TRUE) /\ Keeps(s, t, TRUE, TRUE) /\ t.res = s.res /\ t.disc = s.disc /\ t.discReg = s.discReg
  BY <1>1, <1>2, CursorMoved
<1> QED
  BY <1>3 DEF t

(* One window: units of the discard map that may be punched, once that map *)
(* is on the disk. *)
LEMMA RetryReclamationIs ==
    ASSUME NEW s, StoreOk(s, TRUE), NEW can, NEW r \in RetryReclamation(s, can)
    PROVE  StoreOk(r.s, TRUE) /\ Keeps(s, r.s, TRUE, TRUE) /\ s.res \ can \subseteq r.s.res
<1> DEFINE end == IF s.cursor + Window < MaxLen THEN s.cursor + Window ELSE MaxLen
           U == (s.cursor..(end - 1)) \cap s.disc \cap can
           n == IF end < MaxLen THEN end ELSE 0
<1>0. s.cursor \in 0..MaxLen /\ end \in 0..MaxLen /\ n \in 0..MaxLen
  BY StoreIs, Consts DEF StoreOk
<1>1. CASE r.s = s
  BY <1>1, KeepsSelf
<1>2. ASSUME ~s.discDirty, NEW e \in PunchSlots(s, U), r = e \/ r = Done([e.s EXCEPT !.cursor = n])
      PROVE  StoreOk(r.s, TRUE) /\ Keeps(s, r.s, TRUE, TRUE) /\ s.res \ can \subseteq r.s.res
  <2>1. s.discReg.may = {s.disc} /\ U \in SUBSET s.disc /\ U \subseteq can
    BY <1>2 DEF StoreOk
  <2> HIDE DEF U, n
  <2>2. Punches(s, e.s, U)
    BY <1>2, <2>1, PunchSlotsIs
  <2>3. StoreOk(e.s, TRUE) /\ Keeps(s, e.s, TRUE, TRUE) /\ s.res \ can \subseteq e.s.res
    BY <2>1, <2>2 DEF Punches
  <2>4. CASE r = e
    BY <2>3, <2>4
  <2>5. CASE r = Done([e.s EXCEPT !.cursor = n])
    <3>1. r.s = [e.s EXCEPT !.cursor = n]
      BY <2>5 DEF Done
    <3>2. StoreOk(r.s, TRUE) /\ Keeps(e.s, r.s, TRUE, TRUE) /\ r.s.res = e.s.res
      <4>1. n \in 0..MaxLen
        BY <1>0 DEF n
      <4>2. PICK a : a = e.s
        OBVIOUS
      <4>3. StoreOk(a, TRUE) /\ r.s = [a EXCEPT !.cursor = n]
        BY <2>3, <3>1, <4>2
      <4>5. StoreOk([a EXCEPT !.cursor = n], TRUE) /\ Keeps(a, [a EXCEPT !.cursor = n], TRUE, TRUE)
        BY <4>1, <4>3, CursorMoved
      <4>6. [a EXCEPT !.cursor = n].res = a.res
        BY <4>1, <4>3, CursorMoved
      <4>7. StoreOk(r.s, TRUE) /\ Keeps(a, r.s, TRUE, TRUE) /\ r.s.res = a.res
        BY <4>3, <4>5, <4>6
      <4> QED
        BY <4>2, <4>7
    <3> QED
      BY <2>3, <3>2, KeepsTrans
  <2> QED
    BY <1>2, <2>4, <2>5
<1>3. CASE s.cursor = 0
  <2>1. r = Done(s)
    BY <1>3 DEF RetryReclamation
  <2> QED
    BY <1>1, <2>1 DEF Done
<1>4. CASE s.cursor # 0 /\ s.discDirty
  <2>1. r = Failed(s)
    BY <1>4 DEF RetryReclamation
  <2> QED
    BY <1>1, <2>1 DEF Failed
<1>5. CASE s.cursor # 0 /\ ~s.discDirty
  <2>1. r \in Then(PunchSlots(s, U), LAMBDA q : {Done([q.s EXCEPT !.cursor = n])})
    BY <1>5 DEF RetryReclamation
  <2>2. PICK e \in PunchSlots(s, U) : r \in IF e.ok THEN {Done([e.s EXCEPT !.cursor = n])} ELSE {e}
    <3> HIDE DEF U, n
    <3> QED
      BY <2>1 DEF Then
  <2>3. r = e \/ r = Done([e.s EXCEPT !.cursor = n])
    <3> HIDE DEF U, n
    <3> QED
      BY <2>2
  <2> QED
    BY <1>2, <1>5, <2>3
<1> QED
  BY <1>3, <1>4, <1>5

-----------------------------------------------------------------------------
(* Stores: closing, power loss and opening. *)

(* Closing a store keeps what is certain. *)
LEMMA ClosedIs ==
    ASSUME NEW s, NEW l \in BOOLEAN, StoreOk(s, l)
    PROVE  StoreOk(Closed(s), FALSE) /\ Keeps(s, Closed(s), l, FALSE) /\ Closed(s).res = s.res
<1> DEFINE t == Closed(s)
<1>0. s \in StoreType /\ FileOk(s.shard) /\ s.allocReg.now \in s.allocReg.may /\ s.discReg.now \in s.discReg.may
  BY DEF StoreOk
<1>a. 0 \in 0..MaxLen /\ 0 \in 0..MaxFails /\ {} \in SUBSET Unit
  BY Consts
<1>1. t \in StoreType
  BY <1>0, <1>a DEF StoreType, Closed
<1>2. t.shard = s.shard /\ t.discReg = s.discReg /\ t.allocReg = s.allocReg /\ t.res = s.res
  BY <1>0 DEF StoreType, Closed
<1> HIDE DEF t
<1>3. StoreOk(t, FALSE)
  BY <1>0, <1>1, <1>2 DEF StoreOk
<1>4. Keeps(s, t, l, FALSE)
  BY <1>2 DEF Keeps, Blank, Shows
<1> QED
  BY <1>2, <1>3, <1>4 DEF t

(* A power loss keeps what is certain. *)
LEMMA StoreSurvivorsIs ==
    ASSUME NEW s, NEW l \in BOOLEAN, StoreOk(s, l), NEW t \in StoreSurvivors(s)
    PROVE  StoreOk(t, FALSE) /\ Keeps(s, t, l, FALSE) /\ t.res = s.res
<1> DEFINE c == Closed(s)
<1>0. /\ s \in StoreType /\ FileOk(s.shard) /\ s.allocReg.may \in SUBSET (SUBSET Unit)
      /\ s.discReg.may \in SUBSET (SUBSET Unit)
  BY StoreIs, RegIs DEF StoreOk
<1>1. c \in StoreType /\ c.res = s.res
  BY <1>0, ClosedIs DEF StoreOk
<1>2. PICK f \in Survivors(s.shard), a \in s.allocReg.may, d \in s.discReg.may :
        t = [c EXCEPT !.shard = f, !.allocReg = Stored(c.allocReg, a), !.discReg = Stored(c.discReg, d)]
  <2>1. PICK f \in Survivors(s.shard), a \in s.allocReg.may, d \in s.discReg.may : t = Survivor(s, f, a, d)
    BY DEF StoreSurvivors
  <2>2. t = [c EXCEPT !.shard = f, !.allocReg = Stored(c.allocReg, a), !.discReg = Stored(c.discReg, d)]
    BY <2>1 DEF Survivor
  <2> QED
    BY <2>2
<1> HIDE DEF c
<1>b. \A r, m : Stored(r, m) = [now |-> m, may |-> {m}]
  BY DEF Stored
<1>c. t = [c EXCEPT !.shard = f, !.allocReg = [now |-> a, may |-> {a}], !.discReg = [now |-> d, may |-> {d}]]
  BY <1>2, <1>b
<1>3. FileOk(f) /\ Certain(s.shard, f) /\ f \in File
  BY <1>0, SurvivorsFile DEF FileOk
<1>4. [now |-> a, may |-> {a}] \in MapReg /\ [now |-> d, may |-> {d}] \in MapReg
  BY <1>0 DEF MapReg
<1>5. t \in StoreType
  BY <1>1, <1>3, <1>4, <1>c DEF StoreType
<1>6. /\ t.shard = f /\ t.res = s.res
      /\ t.allocReg.now = a /\ t.allocReg.may = {a} /\ t.discReg.now = d /\ t.discReg.may = {d}
  BY <1>1, <1>c DEF StoreType
<1>7. StoreOk(t, FALSE)
  BY <1>3, <1>5, <1>6 DEF StoreOk
<1>8. Keeps(s, t, l, FALSE)
  <2> SUFFICES ASSUME NEW u \in Unit
               PROVE  /\ Blank(s, u, l) => Blank(t, u, FALSE)
                      /\ \A w \in Written : Shows(s, u, w, l) => Shows(t, u, w, FALSE)
    BY DEF Keeps
  <2>0. u + 1 \in Pos /\ Zero \in Cell
    BY UnitPos, Cells
  <2>1. Blank(s, u, l) => Blank(t, u, FALSE)
    BY <1>3, <1>6, <2>0 DEF Blank, Certain
  <2>2. \A w \in Written : Shows(s, u, w, l) => Shows(t, u, w, FALSE)
    BY <1>3, <1>6, <2>0, WrittenIs DEF Shows, Certain
  <2> QED
    BY <2>1, <2>2
<1> QED
  BY <1>6, <1>7, <1>8

(* A store that is loaded from its registers is in order. *)
LEMMA LoadedIs ==
    ASSUME NEW s, StoreOk(s, FALSE)
    PROVE  /\ Loaded(s) \in StoreType /\ Loaded(s).shard = s.shard /\ Loaded(s).res = s.res
           /\ Loaded(s).allocReg = s.allocReg /\ Loaded(s).discReg = s.discReg
           /\ Loaded(s).alloc = s.allocReg.now /\ Loaded(s).disc = s.discReg.now /\ Loaded(s).discDirty = TRUE
<1> DEFINE t == Loaded(s)
<1>0. s \in StoreType /\ s.allocReg.now \in SUBSET Unit /\ s.discReg.now \in SUBSET Unit
  BY StoreIs, RegIs DEF StoreOk
<1>a. 0 \in 0..MaxLen /\ 0 \in 0..MaxFails
  BY Consts
<1>1. t \in StoreType
  BY <1>0, <1>a DEF StoreType, Loaded
<1>2. /\ t.shard = s.shard /\ t.res = s.res /\ t.allocReg = s.allocReg /\ t.discReg = s.discReg
      /\ t.alloc = s.allocReg.now /\ t.disc = s.discReg.now /\ t.discDirty = TRUE
  BY <1>0 DEF StoreType, Loaded
<1> QED
  BY <1>1, <1>2

(* Opening a store keeps what is certain. *)
LEMMA OpenStoreIs ==
    ASSUME NEW s, StoreOk(s, FALSE), NEW t \in OpenStore(s)
    PROVE  StoreOk(t, TRUE) /\ Keeps(s, t, FALSE, TRUE) /\ t.res = s.res
<1> DEFINE w == Loaded(s)
           probed == Probed(Loaded(s))
<1>0. /\ FileOk(s.shard) /\ s.allocReg.now \in s.allocReg.may /\ s.discReg.now \in s.discReg.may
  BY DEF StoreOk
<1>1. /\ w \in StoreType /\ w.shard = s.shard /\ w.res = s.res /\ w.allocReg = s.allocReg /\ w.discReg = s.discReg
      /\ w.alloc = s.allocReg.now /\ w.disc = s.discReg.now /\ w.discDirty = TRUE
  BY LoadedIs
<1>2. probed \in SUBSET Unit /\ \A u \in probed : w.shard.data[u + 1].k = "slot"
  BY DEF Probed
<1>3. t = w \/ t = [w EXCEPT !.alloc = w.alloc \cup probed, !.allocDirty = probed # {}]
  BY DEF OpenStore
<1> HIDE DEF w, probed
<1>4. w.alloc \cup probed \in SUBSET Unit /\ (probed # {}) \in BOOLEAN
  BY <1>1, <1>2, StoreIs
<1>5. t \in StoreType
  BY <1>1, <1>3, <1>4 DEF StoreType
<1>6. /\ t.shard = s.shard /\ t.res = s.res /\ t.allocReg = s.allocReg /\ t.discReg = s.discReg
      /\ t.disc = s.discReg.now /\ t.discDirty = TRUE /\ t.alloc \subseteq s.allocReg.now \cup probed
  BY <1>1, <1>3 DEF StoreType
<1>7. StoreOk(t, TRUE)
  BY <1>0, <1>5, <1>6 DEF StoreOk
<1>8. Keeps(s, t, FALSE, TRUE)
  <2> SUFFICES ASSUME NEW u \in Unit
               PROVE  /\ Blank(s, u, FALSE) => Blank(t, u, TRUE)
                      /\ \A c \in Written : Shows(s, u, c, FALSE) => Shows(t, u, c, TRUE)
    BY DEF Keeps
  <2>0. u + 1 \in Pos /\ Zero \in Cell /\ Zero.k # "slot"
    BY UnitPos, Cells
  <2>1. s.shard.opts[u + 1] = {Zero} => u \notin probed
    <3>1. s.shard.opts[u + 1] = {Zero} => s.shard.data[u + 1] = Zero
      BY <1>0, <2>0, FileIs
    <3> QED
      BY <1>1, <1>2, <2>0, <3>1
  <2>2. Blank(s, u, FALSE) => Blank(t, u, TRUE)
    BY <1>0, <1>6, <2>1 DEF Blank
  <2>3. \A c \in Written : Shows(s, u, c, FALSE) => Shows(t, u, c, TRUE)
    BY <1>0, <1>6 DEF Shows
  <2> QED
    BY <2>2, <2>3
<1> QED
  BY <1>6, <1>7, <1>8

-----------------------------------------------------------------------------
(* The journal, and what the store holds of it. *)

(* What the fields of a record are. *)
LEMMA RecordIs ==
    ASSUME NEW log \in Seq(Records), NEW n \in 1..Len(log)
    PROVE  log[n] \in Records /\ log[n].unit \in Unit /\ log[n].v \in Payloads
<1>1. log[n] \in Records
  OBVIOUS
<1> QED
  BY <1>1 DEF Records

(* A unit has at most one last record, also among fewer records. *)
LEMMA LastUnique ==
    ASSUME NEW log, NEW hi \in Nat, NEW h \in Nat, h <= hi, NEW u, NEW n \in Nat, NEW m \in Nat,
           LastOf(log, hi, u, n), LastOf(log, h, u, m), n <= h
    PROVE  n = m
<1>1. n \in 1..h /\ m \in 1..hi /\ log[n].unit = u /\ log[m].unit = u
  BY DEF LastOf
<1>2. ~(n < m)
  <2> SUFFICES ASSUME n < m PROVE FALSE
    OBVIOUS
  <2>1. m \in (n + 1)..hi
    BY <1>1
  <2> QED
    BY <1>1, <2>1 DEF LastOf
<1>3. ~(m < n)
  <2> SUFFICES ASSUME m < n PROVE FALSE
    OBVIOUS
  <2>1. n \in (m + 1)..h
    BY <1>1
  <2> QED
    BY <1>1, <2>1 DEF LastOf
<1> QED
  BY <1>2, <1>3

(* A unit that has a record has a last one. *)
LEMMA LastExists ==
    ASSUME NEW log, NEW hi \in Nat, NEW u, ~NoneOf(log, hi, u)
    PROVE  \E n \in 1..hi : LastOf(log, hi, u, n)
<1> DEFINE T == {k \in 1..hi : log[k].unit = u}
<1>1. T \in SUBSET (0..hi) /\ T # {}
  BY DEF NoneOf
<1>2. PICK n \in T : \A y \in T : y <= n
  BY <1>1, GreatestNat
<1>3. LastOf(log, hi, u, n)
  <2>1. ASSUME NEW k \in (n + 1)..hi PROVE log[k].unit # u
    <3> SUFFICES ASSUME log[k].unit = u PROVE FALSE
      OBVIOUS
    <3>1. k \in T
      OBVIOUS
    <3> QED
      BY <1>2, <3>1
  <2> QED
    BY <2>1 DEF LastOf
<1> QED
  BY <1>3

(* The last record stays the last one among fewer records that have it. *)
LEMMA LastFewer ==
    ASSUME NEW log, NEW log2, NEW hi \in Nat, NEW h \in Nat, h <= hi, \A k \in 1..h : log2[k] = log[k],
           NEW u, NEW n \in Nat, LastOf(log2, hi, u, n), n <= h
    PROVE  LastOf(log, h, u, n)
  BY DEF LastOf

(* A store stays honest when it keeps what is certain. *)
LEMMA HonestKept ==
    ASSUME NEW log \in Seq(Records), NEW hi \in Nat, hi <= Len(log), NEW c, NEW l1, NEW l2,
           NEW s, NEW t, Keeps(s, t, l1, l2), Honest(s, log, hi, c, l1)
    PROVE  Honest(t, log, hi, c, l2)
<1> SUFFICES ASSUME NEW u \in Unit
             PROVE  /\ NoneOf(log, hi, u) => Blank(t, u, l2)
                    /\ \A n \in 1..hi : LastOf(log, hi, u, n) /\ n <= c => Holds(t, u, n, log[n].v, l2)
  BY DEF Honest
<1>1. NoneOf(log, hi, u) => Blank(t, u, l2)
  BY DEF Honest, Keeps
<1>2. ASSUME NEW n \in 1..hi, LastOf(log, hi, u, n), n <= c PROVE Holds(t, u, n, log[n].v, l2)
  BY <1>2, RecordIs, Slots DEF Honest, Holds, Keeps, Payloads
<1> QED
  BY <1>1, <1>2

(* It stays honest when more records become durable. *)
LEMMA HonestGrows ==
    ASSUME NEW log, NEW log2, NEW hi \in Nat, NEW hi2 \in Nat, hi <= hi2, NEW c \in Nat, c <= hi, NEW l, NEW s,
           \A k \in 1..hi : log2[k] = log[k], Honest(s, log, hi, c, l)
    PROVE  Honest(s, log2, hi2, c, l)
<1> SUFFICES ASSUME NEW u \in Unit
             PROVE  /\ NoneOf(log2, hi2, u) => Blank(s, u, l)
                    /\ \A n \in 1..hi2 : LastOf(log2, hi2, u, n) /\ n <= c => Holds(s, u, n, log2[n].v, l)
  BY DEF Honest
<1>1. ASSUME NoneOf(log2, hi2, u) PROVE Blank(s, u, l)
  BY <1>1 DEF NoneOf, Honest
<1>2. ASSUME NEW n \in 1..hi2, LastOf(log2, hi2, u, n), n <= c PROVE Holds(s, u, n, log2[n].v, l)
  BY <1>2, LastFewer DEF Honest
<1> QED
  BY <1>1, <1>2

-----------------------------------------------------------------------------
(* The overlay: its byte counts. *)

(* The count of full versions is a natural. *)
LEMMA FullIs ==
    ASSUME NEW f, NEW P \in SUBSET Unit
    PROVE  Full(f, P) \in Nat /\ IsFiniteSet({u \in P : Size(f[u]) = 1})
<1>1. IsFiniteSet(Unit)
  BY Consts, FS_Interval
<1>2. IsFiniteSet({u \in P : Size(f[u]) = 1})
  BY <1>1, FS_Subset
<1> QED
  BY <1>2, FS_CardinalityType DEF Full

(* It is the sum of the counts of two parts. *)
LEMMA FullParts ==
    ASSUME NEW f, NEW P \in SUBSET Unit
    PROVE  Full(f, Unit) = Full(f, P) + Full(f, Unit \ P)
<1> DEFINE A == {u \in P : Size(f[u]) = 1}
           B == {u \in Unit \ P : Size(f[u]) = 1}
           C == {u \in Unit : Size(f[u]) = 1}
<1>1. IsFiniteSet(A) /\ IsFiniteSet(B) /\ Unit \ P \in SUBSET Unit
  BY FullIs
<1>2. C = A \cup B /\ A \cap B = {}
  OBVIOUS
<1> HIDE DEF A, B, C
<1>3. Cardinality(A \cup B) = Cardinality(A) + Cardinality(B)
  <2>1. Cardinality(A \cup B) = Cardinality(A) + Cardinality(B) - Cardinality(A \cap B)
    BY <1>1, FS_Union
  <2>2. Cardinality(A \cap B) = 0
    BY <1>2, FS_EmptySet
  <2>3. Cardinality(A) \in Nat /\ Cardinality(B) \in Nat
    BY <1>1, FS_CardinalityType
  <2> QED
    BY <2>1, <2>2, <2>3
<1> QED
  BY <1>2, <1>3 DEF Full, A, B, C

(* It depends on the versions only. *)
LEMMA FullSame ==
    ASSUME NEW f, NEW g, NEW P \in SUBSET Unit, \A u \in P : g[u] = f[u]
    PROVE  Full(g, P) = Full(f, P)
  BY DEF Full

(* It is zero where there are none. *)
LEMMA FullNone ==
    ASSUME NEW f, NEW P \in SUBSET Unit, \A u \in P : f[u] = NoVersion
    PROVE  Full(f, P) = 0
  BY FS_EmptySet DEF Size, NoVersion, Full

(* The versions of P are replaced by those of h. *)
LEMMA FullMixed ==
    ASSUME NEW f, NEW h, NEW P \in SUBSET Unit, NEW g, \A u \in Unit : g[u] = IF u \in P THEN h[u] ELSE f[u]
    PROVE  Full(g, Unit) = Full(f, Unit) - Full(f, P) + Full(h, P)
<1>0. Unit \ P \in SUBSET Unit
  OBVIOUS
<1>1. Full(g, Unit) = Full(g, P) + Full(g, Unit \ P) /\ Full(f, Unit) = Full(f, P) + Full(f, Unit \ P)
  BY FullParts
<1>2. Full(g, P) = Full(h, P)
  BY FullSame
<1>3. Full(g, Unit \ P) = Full(f, Unit \ P)
  BY <1>0, FullSame
<1>4. Full(f, P) \in Nat /\ Full(h, P) \in Nat /\ Full(f, Unit \ P) \in Nat
  BY <1>0, FullIs
<1> QED
  BY <1>1, <1>2, <1>3, <1>4

(* One version is replaced. *)
LEMMA FullOne ==
    ASSUME NEW f, NEW u \in Unit
    PROVE  Full(f, {u}) = Size(f[u])
<1>1. CASE Size(f[u]) = 1
  BY <1>1, FS_Singleton DEF Full
<1>2. CASE Size(f[u]) # 1
  BY <1>2, FS_EmptySet DEF Size, Full
<1> QED
  BY <1>1, <1>2

-----------------------------------------------------------------------------
(* The overlay: its operations. *)

(* What the fields of an overlay are. *)
LEMMA OverlayIs ==
    ASSUME NEW o \in OverlayType
    PROVE  /\ o.latest \in [Unit -> Version] /\ o.durable \in [Unit -> Version]
           /\ o.pending \in SUBSET [n : Nat, unit : Unit] /\ o.boundary \in Nat
           /\ o.bytes \in Int /\ o.latestBytes \in Int
           /\ \A u \in Unit : /\ o.latest[u] \in Version /\ o.latest[u].n \in Nat
                              /\ o.durable[u] \in Version /\ o.durable[u].n \in Nat
  BY DEF OverlayType, Version

(* The missing version is a version with sequence zero. *)
LEMMA NoVersionIs == NoVersion \in Version /\ NoVersion.n = 0 /\ NoVersion.v = Tombstone
  BY DEF NoVersion, Version, Payloads

(* What the overlay holds of a unit are records of it. *)
LEMMA OverlayHolds ==
    ASSUME NEW o, NEW log, NEW hi, NEW ck, OverlayOk(o, log, hi, ck), NEW u \in Unit
    PROVE  HoldsLatest(o, log, ck, u) /\ HoldsDurable(o, log, hi, ck, u)
  BY DEF OverlayOk

(* Publishing appends a record and makes it the unit's latest version. *)
LEMMA PublishOk ==
    ASSUME NEW log \in Seq(Records), NEW hi \in Nat, hi <= Len(log), NEW ck \in Nat, ck <= hi,
           NEW o, OverlayOk(o, log, hi, ck), NEW u \in Unit, NEW c \in Payloads,
           NEW log2, log2 = Append(log, [unit |-> u, v |-> c])
    PROVE  OverlayOk(Publish(o, u, Len(log) + 1, c), log2, hi, ck)
<1> DEFINE N == Len(log) + 1
           ver == [n |-> N, v |-> c]
           delta == Size(ver) - Size(o.latest[u])
           L == [o.latest EXCEPT ![u] = ver]
           P == o.pending \cup {[n |-> N, unit |-> u]}
           q == Publish(o, u, N, c)
<1>0. /\ o \in OverlayType /\ o.boundary = hi /\ Len(log) \in Nat /\ N \in Nat
      /\ o.pending = {[n |-> k, unit |-> log[k].unit] : k \in (hi + 1)..Len(log)}
  BY DEF OverlayOk
<1>1. /\ log2 \in Seq(Records) /\ Len(log2) = N /\ log2[N].unit = u /\ log2[N].v = c
      /\ \A k \in 1..Len(log) : log2[k] = log[k]
  BY DEF Records
<1>2. ver \in Version /\ ver # NoVersion /\ ver.n = N /\ ver.v = c
  BY <1>0, NoVersionIs DEF Version
<1>3. L \in [Unit -> Version] /\ L[u] = ver /\ \A w \in Unit : w # u => L[w] = o.latest[w]
  BY <1>0, <1>2, OverlayIs
<1>4. P \in SUBSET [n : Nat, unit : Unit]
  BY <1>0, OverlayIs
<1>5. delta \in Int
  BY DEF Size
<1>6. q = [o EXCEPT !.latest = L, !.pending = P, !.bytes = o.bytes + delta, !.latestBytes = o.latestBytes + delta]
  BY DEF Publish
<1>7. Full(L, Unit) = Full(o.latest, Unit) + delta
  <2>1. \A w \in Unit : L[w] = IF w \in {u} THEN L[w] ELSE o.latest[w]
    BY <1>3
  <2>2. Full(L, Unit) = Full(o.latest, Unit) - Full(o.latest, {u}) + Full(L, {u})
    <3> HIDE DEF L
    <3>1. {u} \in SUBSET Unit
      OBVIOUS
    <3> QED
      BY <2>1, <3>1, FullMixed
  <2>3. Full(o.latest, {u}) = Size(o.latest[u]) /\ Full(L, {u}) = Size(ver)
    BY <1>3, FullOne
  <2>4. Full(o.latest, Unit) \in Nat /\ Size(o.latest[u]) \in Nat /\ Size(ver) \in Nat
    BY FullIs DEF Size
  <2> QED
    BY <2>2, <2>3, <2>4
<1> HIDE DEF ver, L, P, q, delta, N
<1>8. /\ q \in OverlayType /\ q.latest = L /\ q.pending = P /\ q.bytes = o.bytes + delta
      /\ q.latestBytes = o.latestBytes + delta
  <2>1. o.bytes + delta \in Int /\ o.latestBytes + delta \in Int
    BY <1>0, <1>5, OverlayIs
  <2> QED
    BY <1>0, <1>3, <1>4, <1>6, <2>1 DEF OverlayType
<1>9. q.durable = o.durable /\ q.boundary = hi
  BY <1>0, <1>6 DEF OverlayType
<1>10. Counted(q)
  <2>1. o.bytes = Full(o.latest, Unit) + Full(o.durable, Unit) /\ o.latestBytes = Full(o.latest, Unit)
    BY DEF OverlayOk, Counted
  <2>2. Full(o.latest, Unit) \in Nat /\ Full(o.durable, Unit) \in Nat
    BY FullIs
  <2> QED
    BY <1>5, <1>7, <1>8, <1>9, <2>1, <2>2 DEF Counted
<1>11. q.pending = {[n |-> k, unit |-> log2[k].unit] : k \in (hi + 1)..Len(log2)}
  BY <1>1, <1>0, <1>8 DEF N, P
<1>12. ASSUME NEW w \in Unit PROVE HoldsLatest(q, log2, ck, w) /\ HoldsDurable(q, log2, hi, ck, w)
  <2>0. HoldsLatest(o, log, ck, w) /\ HoldsDurable(o, log, hi, ck, w)
    BY OverlayHolds
  <2>a. o.latest[w].n \in Nat /\ o.durable[w].n \in Nat
    BY <1>0, OverlayIs
  <2>1. CASE w = u
    BY <1>2, <1>3, <1>8, <2>1, <1>0, <1>1, <2>0, <1>9 DEF Held, LastOf, N, HoldsLatest, HoldsDurable
  <2>2. CASE w # u
    <3>1. q.latest[w] = o.latest[w] /\ (Held(q, w) <=> Held(o, w))
      BY <1>3, <1>8, <2>2 DEF Held
    <3>2. Held(o, w) => LastOf(log2, Len(log2), w, o.latest[w].n) /\ o.latest[w].v = log2[o.latest[w].n].v
      <4> SUFFICES ASSUME Held(o, w)
                   PROVE  LastOf(log2, Len(log2), w, o.latest[w].n) /\ o.latest[w].v = log2[o.latest[w].n].v
        OBVIOUS
      <4>1. LastOf(log, Len(log), w, o.latest[w].n) /\ o.latest[w].v = log[o.latest[w].n].v
        BY <2>0 DEF HoldsLatest
      <4>2. o.latest[w].n \in 1..Len(log) /\ log2[o.latest[w].n] = log[o.latest[w].n]
        BY <1>1, <4>1 DEF LastOf
      <4>3. \A k \in (o.latest[w].n + 1)..Len(log2) : k \in (o.latest[w].n + 1)..Len(log) \/ k = N
        BY <1>0, <1>1, <2>a DEF N
      <4>4. \A k \in (o.latest[w].n + 1)..Len(log2) : log2[k].unit # w
        BY <1>1, <2>2, <2>a, <4>1, <4>3 DEF LastOf
      <4> QED
        BY <1>0, <1>1, <4>1, <4>2, <4>4 DEF LastOf, N
    <3>3. ~Held(o, w) => \A k \in (ck + 1)..Len(log2) : log2[k].unit # w
      BY <1>0, <1>1, <2>0, <2>2 DEF N, HoldsLatest
    <3>4. HoldsLatest(q, log2, ck, w)
      BY <3>1, <3>2, <3>3 DEF HoldsLatest
    <3>5. o.durable[w] # NoVersion => LastOf(log2, hi, w, o.durable[w].n) /\ o.durable[w].v = log2[o.durable[w].n].v
      BY <1>1, <2>0 DEF HoldsDurable, LastOf
    <3>6. o.durable[w] = NoVersion => \A k \in (ck + 1)..hi : log2[k].unit # w
      BY <1>1, <2>0 DEF HoldsDurable
    <3> QED
      BY <1>9, <2>0, <3>1, <3>4, <3>5, <3>6 DEF HoldsDurable
  <2> QED
    BY <2>1, <2>2
<1>13. OverlayOk(q, log2, hi, ck)
  BY <1>8, <1>9, <1>10, <1>11, <1>12 DEF OverlayOk
<1> QED
  BY <1>13 DEF q, N

(* Promotion, when all records become durable or none does: what becomes *)
(* durable are the latest versions beyond the old boundary. *)
LEMMA PromoteOk ==
    ASSUME NEW log \in Seq(Records), NEW hi \in Nat, hi <= Len(log), NEW ck \in Nat, ck <= hi,
           NEW o, OverlayOk(o, log, hi, ck), NEW d \in {hi, Len(log)}
    PROVE  OverlayOk(Promote(o, d), log, d, ck)
<1> DEFINE ready == {p \in o.pending : p.n <= d}
           prom == {u \in Unit : [n |-> o.latest[u].n, unit |-> u] \in ready /\ o.durable[u].n < o.latest[u].n}
           D == [u \in Unit |-> IF u \in prom THEN o.latest[u] ELSE o.durable[u]]
           b == IF d > o.boundary THEN d ELSE o.boundary
           m == o.bytes - Full(o.durable, prom) + Full(o.latest, prom)
           q == Promote(o, d)
<1>0. /\ o \in OverlayType /\ o.boundary = hi /\ Len(log) \in Nat /\ d \in Nat /\ hi <= d /\ d <= Len(log)
      /\ o.pending = {[n |-> k, unit |-> log[k].unit] : k \in (hi + 1)..Len(log)}
  BY DEF OverlayOk
<1>1. q = [o EXCEPT !.boundary = b, !.pending = o.pending \ ready, !.durable = D, !.bytes = m]
  BY DEF Promote
<1>2. b = d
  BY <1>0
<1>3. prom \in SUBSET Unit
  OBVIOUS
<1>4. \A u \in Unit : o.latest[u].n \in Nat /\ o.durable[u].n \in Nat
  BY <1>0, OverlayIs
<1>5. ASSUME NEW u \in Unit PROVE u \in prom <=> Held(o, u) /\ hi < o.latest[u].n /\ o.latest[u].n <= d
  <2>0. HoldsLatest(o, log, ck, u) /\ HoldsDurable(o, log, hi, ck, u)
    BY OverlayHolds
  <2>1. ASSUME u \in prom PROVE Held(o, u) /\ hi < o.latest[u].n /\ o.latest[u].n <= d
    <3>1. PICK k \in (hi + 1)..Len(log) : [n |-> o.latest[u].n, unit |-> u] = [n |-> k, unit |-> log[k].unit]
      BY <1>0, <2>1
    <3>2. o.latest[u].n = k /\ o.latest[u].n <= d
      BY <2>1, <3>1
    <3>3. Held(o, u)
      BY <1>0, <3>2, NoVersionIs DEF Held
    <3> QED
      BY <1>0, <3>2, <3>3
  <2>2. ASSUME Held(o, u), hi < o.latest[u].n, o.latest[u].n <= d PROVE u \in prom
    <3>1. o.latest[u].n \in 1..Len(log) /\ log[o.latest[u].n].unit = u
      BY <2>0, <2>2 DEF HoldsLatest, LastOf
    <3>2. o.latest[u].n \in (hi + 1)..Len(log)
      BY <1>0, <1>4, <2>2, <3>1
    <3>3. [n |-> o.latest[u].n, unit |-> u] \in ready
      BY <1>0, <2>2, <3>1, <3>2
    <3>4. o.durable[u].n <= hi
      BY NoVersionIs, <2>0 DEF HoldsDurable, LastOf
    <3> HIDE DEF ready
    <3> QED
      BY <1>4, <2>2, <3>3, <3>4
  <2> QED
    BY <2>1, <2>2
<1>6. D \in [Unit -> Version] /\ \A u \in Unit : D[u] = IF u \in prom THEN o.latest[u] ELSE o.durable[u]
  <2> HIDE DEF prom
  <2> QED
    BY <1>0, OverlayIs
<1>7. o.pending \ ready = {[n |-> k, unit |-> log[k].unit] : k \in (d + 1)..Len(log)}
  <2>1. \A k \in (hi + 1)..Len(log) : [n |-> k, unit |-> log[k].unit] \in ready <=> k <= d
    BY <1>0
  <2>2. \A k : k \in (d + 1)..Len(log) <=> k \in (hi + 1)..Len(log) /\ ~(k <= d)
    BY <1>0
  <2> HIDE DEF ready
  <2> QED
    BY <1>0, <2>1, <2>2
<1>8. m = Full(o.latest, Unit) + Full(D, Unit)
  <2>1. Full(D, Unit) = Full(o.durable, Unit) - Full(o.durable, prom) + Full(o.latest, prom)
    <3> HIDE DEF D, prom
    <3> QED
      BY <1>3, <1>6, FullMixed
  <2>2. o.bytes = Full(o.latest, Unit) + Full(o.durable, Unit)
    BY DEF OverlayOk, Counted
  <2>3. /\ Full(o.latest, Unit) \in Nat /\ Full(o.durable, Unit) \in Nat
        /\ Full(o.durable, prom) \in Nat /\ Full(o.latest, prom) \in Nat
    BY <1>3, FullIs
  <2> HIDE DEF D, prom
  <2> QED
    BY <2>1, <2>2, <2>3
<1>9. m \in Int
  <2>1. Full(o.latest, Unit) \in Nat /\ Full(D, Unit) \in Nat
    BY FullIs
  <2> HIDE DEF m, D
  <2> QED
    BY <1>8, <2>1
<1>10. o.pending \ ready \in SUBSET [n : Nat, unit : Unit]
  BY <1>0, OverlayIs
<1> HIDE DEF ready, prom, D, b, m, q
<1>11. q \in OverlayType /\ q.boundary = d /\ q.pending = o.pending \ ready /\ q.durable = D /\ q.bytes = m
  BY <1>0, <1>1, <1>2, <1>6, <1>9, <1>10 DEF OverlayType
<1>12. q.latest = o.latest /\ q.latestBytes = o.latestBytes
  BY <1>0, <1>1 DEF OverlayType
<1>13. Counted(q)
  BY <1>8, <1>11, <1>12 DEF OverlayOk, Counted
<1>14. ASSUME NEW u \in Unit PROVE HoldsLatest(q, log, ck, u) /\ HoldsDurable(q, log, d, ck, u)
  <2>0. HoldsLatest(o, log, ck, u) /\ HoldsDurable(o, log, hi, ck, u)
    BY OverlayHolds
  <2>1. Held(q, u) <=> Held(o, u)
    BY <1>12 DEF Held
  <2>2. HoldsLatest(q, log, ck, u)
    BY <1>12, <2>0, <2>1 DEF HoldsLatest
  <2>3. CASE u \in prom
    BY <1>5, <1>6, <1>11, <2>3, <2>0, <1>0, <1>4, LastFewer, <1>12, <2>1, <2>2 DEF Held, HoldsLatest,
       HoldsDurable
  <2>4. CASE u \notin prom
    <3>1. q.durable[u] = o.durable[u]
      BY <1>6, <1>11, <2>4
    <3>2. ~Held(o, u) \/ o.latest[u].n <= hi \/ d < o.latest[u].n
      BY <1>0, <1>4, <1>5, <2>4
    <3>3. CASE d = hi
      BY <1>12, <2>0, <2>1, <2>2, <3>1, <3>3 DEF HoldsDurable
    <3>4. CASE d = Len(log)
      BY <2>0, <1>0, <1>4, <3>2, <3>4, <1>12, <2>1, <2>2, <3>1 DEF HoldsLatest, LastOf, HoldsDurable, Held
    <3> QED
      BY <3>3, <3>4
  <2> QED
    BY <2>3, <2>4
<1>15. OverlayOk(q, log, d, ck)
  BY <1>7, <1>11, <1>13, <1>14 DEF OverlayOk
<1> QED
  BY <1>15 DEF q

(* Retiring what the checkpoint covers. *)
LEMMA RetireOk ==
    ASSUME NEW log \in Seq(Records), NEW hi \in Nat, hi <= Len(log), NEW ck \in Nat, ck <= hi,
           NEW o, OverlayOk(o, log, hi, ck)
    PROVE  OverlayOk(Retire(o, ck), log, hi, ck)
<1> DEFINE covered == {u \in Unit : o.durable[u] # NoVersion /\ o.durable[u].n <= ck}
           gone == {u \in Unit : Held(o, u) /\ o.latest[u].n <= ck}
           D == [u \in Unit |-> IF u \in covered THEN NoVersion ELSE o.durable[u]]
           L == [u \in Unit |-> IF u \in gone THEN NoVersion ELSE o.latest[u]]
           P == {p \in o.pending : p.n > ck}
           m == o.bytes - Full(o.durable, covered) - Full(o.latest, gone)
           n == o.latestBytes - Full(o.latest, gone)
           q == Retire(o, ck)
<1>0. /\ o \in OverlayType /\ o.boundary = hi /\ Len(log) \in Nat
      /\ o.pending = {[n |-> k, unit |-> log[k].unit] : k \in (hi + 1)..Len(log)}
  BY DEF OverlayOk
<1>1. q = [o EXCEPT !.durable = D, !.latest = L, !.pending = P, !.bytes = m, !.latestBytes = n]
  BY DEF Retire
<1>2. \A u \in Unit : o.latest[u].n \in Nat /\ o.durable[u].n \in Nat
  BY <1>0, OverlayIs
<1>3. P = o.pending
  BY <1>0
<1>4. \A u \in Unit : /\ u \in covered <=> o.durable[u] # NoVersion /\ o.durable[u].n <= ck
                      /\ u \in gone <=> Held(o, u) /\ o.latest[u].n <= ck
  OBVIOUS
<1>5. covered \in SUBSET Unit /\ gone \in SUBSET Unit
  OBVIOUS
<1> HIDE DEF covered, gone
<1>6. /\ D \in [Unit -> Version] /\ \A u \in Unit : D[u] = IF u \in covered THEN NoVersion ELSE o.durable[u]
  BY <1>0, OverlayIs, NoVersionIs
<1>7. /\ L \in [Unit -> Version] /\ \A u \in Unit : L[u] = IF u \in gone THEN NoVersion ELSE o.latest[u]
  BY <1>0, OverlayIs, NoVersionIs
<1> HIDE DEF D, L, P
<1>8. Full(D, Unit) = Full(o.durable, Unit) - Full(o.durable, covered) /\ Full(L, Unit) = Full(o.latest, Unit) - Full(o.latest, gone)
  <2> DEFINE h == [u \in Unit |-> NoVersion]
  <2>1. \A u \in Unit : h[u] = NoVersion
    OBVIOUS
  <2> HIDE DEF h
  <2>2. Full(h, covered) = 0 /\ Full(h, gone) = 0
    BY <1>5, <2>1, FullNone
  <2>3. \A u \in Unit : D[u] = IF u \in covered THEN h[u] ELSE o.durable[u]
    BY <1>6, <2>1
  <2>4. \A u \in Unit : L[u] = IF u \in gone THEN h[u] ELSE o.latest[u]
    BY <1>7, <2>1
  <2>5. Full(D, Unit) = Full(o.durable, Unit) - Full(o.durable, covered) + Full(h, covered)
    BY <1>5, <2>3, FullMixed
  <2>6. Full(L, Unit) = Full(o.latest, Unit) - Full(o.latest, gone) + Full(h, gone)
    BY <1>5, <2>4, FullMixed
  <2>7. Full(o.durable, covered) \in Nat /\ Full(o.durable, Unit) \in Nat /\ Full(o.latest, gone) \in Nat /\ Full(o.latest, Unit) \in Nat
    BY <1>5, FullIs
  <2> QED
    BY <2>2, <2>5, <2>6, <2>7
<1>9. o.bytes = Full(o.latest, Unit) + Full(o.durable, Unit) /\ o.latestBytes = Full(o.latest, Unit)
  BY DEF OverlayOk, Counted
<1>10. /\ Full(o.durable, covered) \in Nat /\ Full(o.durable, Unit) \in Nat
       /\ Full(o.latest, gone) \in Nat /\ Full(o.latest, Unit) \in Nat
  BY <1>5, FullIs
<1>11. m \in Int /\ n \in Int /\ m = Full(L, Unit) + Full(D, Unit) /\ n = Full(L, Unit)
  BY <1>8, <1>9, <1>10
<1> HIDE DEF m, n, q
<1>12. q \in OverlayType /\ q.durable = D /\ q.latest = L /\ q.pending = P /\ q.bytes = m /\ q.latestBytes = n
  BY <1>0, <1>3, OverlayIs, <1>1, <1>6, <1>7, <1>11 DEF OverlayType
<1>13. q.boundary = hi
  BY <1>0, <1>1 DEF OverlayType
<1>14. Counted(q)
  BY <1>11, <1>12 DEF Counted
<1>15. ASSUME NEW u \in Unit PROVE HoldsLatest(q, log, ck, u) /\ HoldsDurable(q, log, hi, ck, u)
  <2>0. HoldsLatest(o, log, ck, u) /\ HoldsDurable(o, log, hi, ck, u)
    BY OverlayHolds
  <2>1. Held(q, u) <=> Held(o, u) /\ ~(o.latest[u].n <= ck)
    BY <1>4, <1>7, <1>12 DEF Held
  <2>2. Held(q, u) => q.latest[u] = o.latest[u]
    BY <1>7, <1>12 DEF Held
  <2>3. Held(o, u) /\ o.latest[u].n <= ck => \A k \in (ck + 1)..Len(log) : log[k].unit # u
    <3> SUFFICES ASSUME Held(o, u), o.latest[u].n <= ck, NEW k \in (ck + 1)..Len(log) PROVE log[k].unit # u
      OBVIOUS
    <3>1. k \in (o.latest[u].n + 1)..Len(log)
      BY <1>2
    <3> QED
      BY <2>0, <3>1 DEF HoldsLatest, LastOf
  <2>4. HoldsLatest(q, log, ck, u)
    BY <2>0, <2>1, <2>2, <2>3 DEF HoldsLatest
  <2>5. q.durable[u] # NoVersion => q.durable[u] = o.durable[u] /\ o.durable[u] # NoVersion /\ ~(o.durable[u].n <= ck)
    BY <1>4, <1>6, <1>12
  <2>6. ASSUME q.durable[u] # NoVersion
        PROVE  Held(q, u) /\ LastOf(log, hi, u, q.durable[u].n) /\ q.durable[u].v = log[q.durable[u].n].v
    <3>1. Held(o, u) /\ LastOf(log, hi, u, o.durable[u].n) /\ o.durable[u].v = log[o.durable[u].n].v
      BY <2>0, <2>5, <2>6 DEF HoldsDurable
    <3>2. ~(o.latest[u].n < o.durable[u].n)
      <4> SUFFICES ASSUME o.latest[u].n < o.durable[u].n PROVE FALSE
        OBVIOUS
      <4>1. LastOf(log, Len(log), u, o.latest[u].n) /\ o.durable[u].n \in 1..hi /\ log[o.durable[u].n].unit = u
        BY <2>0, <3>1 DEF HoldsLatest, LastOf
      <4>2. o.durable[u].n \in (o.latest[u].n + 1)..Len(log)
        BY <1>0, <1>2, <4>1
      <4> QED
        BY <4>1, <4>2 DEF LastOf
    <3>3. ~(o.latest[u].n <= ck)
      BY <1>2, <2>5, <2>6, <3>2
    <3> QED
      BY <2>1, <2>5, <2>6, <3>1, <3>3
  <2>7. ASSUME q.durable[u] = NoVersion, NEW k \in (ck + 1)..hi PROVE log[k].unit # u
    BY <2>0, <2>7, <1>4, <1>6, <1>12, <1>2 DEF HoldsDurable, LastOf
  <2>8. Held(q, u) /\ q.latest[u].n <= hi => q.durable[u] = q.latest[u]
    BY <1>4, <1>6, <1>12, <2>0, <2>1, <2>2 DEF HoldsDurable
  <2> QED
    BY <2>4, <2>6, <2>7, <2>8 DEF HoldsDurable
<1>16. OverlayOk(q, log, hi, ck)
  BY <1>0, <1>3, <1>12, <1>13, <1>14, <1>15 DEF OverlayOk
<1> QED
  BY <1>16 DEF q

(* A later checkpoint covers more. *)
LEMMA OverlayCovered ==
    ASSUME NEW log, Len(log) \in Nat, NEW hi \in Nat, NEW ck \in Nat, NEW c \in Nat, ck <= c,
           NEW o, OverlayOk(o, log, hi, ck)
    PROVE  OverlayOk(o, log, hi, c)
  BY OverlayHolds DEF HoldsLatest, HoldsDurable, OverlayOk

(* After a restart everything is in the slots. *)
LEMMA EmptyOk ==
    ASSUME NEW log \in Seq(Records)
    PROVE  OverlayOk(Promote(EmptyOverlay, Len(log)), log, Len(log), Len(log))
<1> DEFINE N == Len(log)
           e == EmptyOverlay
           q == [e EXCEPT !.boundary = N]
<1>0. N \in Nat
  OBVIOUS
<1>1. /\ e \in OverlayType /\ e.pending = {} /\ e.boundary = 0 /\ e.bytes = 0 /\ e.latestBytes = 0
      /\ e.latest \in [Unit -> Version] /\ e.durable \in [Unit -> Version]
      /\ \A u \in Unit : e.latest[u] = NoVersion /\ e.durable[u] = NoVersion
  BY NoVersionIs DEF EmptyOverlay, OverlayType
<1> HIDE DEF e
<1>2. Promote(e, N) \in OverlayType /\ Promote(e, N).boundary = N /\ Promote(e, N).pending = {}
      /\ Promote(e, N).bytes = 0 /\ Promote(e, N).latestBytes = 0
      /\ \A u \in Unit : Promote(e, N).latest[u] = NoVersion /\ Promote(e, N).durable[u] = NoVersion
  <2> DEFINE ready == {p \in e.pending : p.n <= N}
             prom == {u \in Unit : [n |-> e.latest[u].n, unit |-> u] \in ready /\ e.durable[u].n < e.latest[u].n}
             D == [u \in Unit |-> IF u \in prom THEN e.latest[u] ELSE e.durable[u]]
             b == IF N > e.boundary THEN N ELSE e.boundary
             m == e.bytes - Full(e.durable, prom) + Full(e.latest, prom)
  <2>1. ready = {} /\ prom = {} /\ e.pending \ ready = {}
    BY <1>1
  <2>2. b = N
    BY <1>0, <1>1
  <2>3. Promote(e, N) = [e EXCEPT !.boundary = b, !.pending = e.pending \ ready, !.durable = D, !.bytes = m]
    BY DEF Promote
  <2>4. Full(e.durable, prom) = 0 /\ Full(e.latest, prom) = 0
    BY <2>1, FullNone
  <2>5. m = 0
    BY <1>1, <2>4
  <2>6. D \in [Unit -> Version] /\ \A u \in Unit : D[u] = NoVersion
    BY <1>1, <2>1
  <2> HIDE DEF D, m, b, ready, prom
  <2>7. Promote(e, N) = [e EXCEPT !.boundary = N, !.pending = {}, !.durable = D, !.bytes = 0]
    BY <2>1, <2>2, <2>3, <2>5
  <2>8. {} \in SUBSET [n : Nat, unit : Unit] /\ 0 \in Int
    OBVIOUS
  <2> HIDE DEF N
  <2> QED
    BY <1>0, <1>1, <2>6, <2>7, <2>8 DEF OverlayType
<1> DEFINE w == Promote(e, N)
<1> HIDE DEF w
<1>3. Counted(w)
  BY <1>2, FullNone DEF w, Counted
<1>4. ASSUME NEW u \in Unit PROVE HoldsLatest(w, log, N, u) /\ HoldsDurable(w, log, N, N, u)
  BY <1>2, <1>0 DEF Held, w, HoldsLatest, HoldsDurable
<1>5. {[n |-> k, unit |-> log[k].unit] : k \in (N + 1)..Len(log)} = {}
  BY <1>0
<1>6. OverlayOk(w, log, N, N)
  BY <1>2, <1>3, <1>4, <1>5 DEF OverlayOk, w
<1> QED
  BY <1>6 DEF w, e

-----------------------------------------------------------------------------
(* The volume: what its steps keep. *)

DiskOk(v, live) ==
    /\ v \in VolumeType /\ JournalOk(v) /\ CkOk(v, live) /\ Reserved(v) /\ StoreOk(v.s, live)
    /\ \A c \in v.ckReg.may : Honest(v.s, v.log, v.durable, c, live)

UpOk(v) == DiskOk(v, TRUE) /\ OverlayOk(v.o, v.log, v.durable, v.ck)

(* A step that a plan in flight survives. *)
Ahead(v, w) ==
    /\ w.ck = v.ck /\ w.ckReg = v.ckReg /\ v.durable <= w.durable /\ w.durable \in Nat
    /\ \A k \in 1..v.durable : w.log[k] = v.log[k]
    /\ Quiet(v.s, w.s)

WithStore(v, t) == [v EXCEPT !.s = t]
Rolled(v, d) == Promoted([v EXCEPT !.durable = d])
Published(v, u, c) ==
    Promoted([v EXCEPT !.log = Append(@, [unit |-> u, v |-> c]), !.o = Publish(@, u, Appended(v) + 1, c)])

(* What the fields of a volume are. *)
LEMMA VolumeIs ==
    ASSUME NEW v \in VolumeType
    PROVE  /\ v.log \in Seq(Records) /\ v.durable \in Nat /\ v.o \in OverlayType /\ v.s \in StoreType
           /\ v.ck \in Nat /\ v.ckReg \in [now : Nat, may : SUBSET Nat] /\ v.ckReg.may \in SUBSET Nat /\ v.ckReg.now \in Nat
           /\ Len(v.log) \in Nat
  BY DEF VolumeType

(* What DiskOk says of them. *)
LEMMA DiskIs ==
    ASSUME NEW v, NEW l, DiskOk(v, l)
    PROVE  /\ v \in VolumeType /\ v.log \in Seq(Records) /\ v.durable \in Nat /\ Len(v.log) \in Nat /\ v.s \in StoreType
           /\ v.ck \in Nat /\ v.ckReg.may \in SUBSET Nat /\ v.ckReg.now \in v.ckReg.may /\ v.ckReg.now \in Nat
           /\ v.durable <= Len(v.log) /\ Len(v.log) <= MaxRecords /\ v.ck <= v.durable
           /\ StoreOk(v.s, l) /\ v.durable <= v.durable /\ \A c \in v.ckReg.may : c \in Nat /\ c <= v.durable
  BY VolumeIs DEF DiskOk, JournalOk, CkOk

(* A volume with another store. *)
LEMMA WithStoreIs ==
    ASSUME NEW v \in VolumeType, NEW t \in StoreType
    PROVE  /\ WithStore(v, t) \in VolumeType /\ WithStore(v, t).s = t
           /\ WithStore(v, t).log = v.log /\ WithStore(v, t).durable = v.durable /\ WithStore(v, t).o = v.o
           /\ WithStore(v, t).ck = v.ck /\ WithStore(v, t).ckReg = v.ckReg
  BY DEF VolumeType, WithStore

(* A store that keeps what is certain and what is reserved. *)
LEMMA WithStoreOk ==
    ASSUME NEW v, DiskOk(v, TRUE), NEW t, StoreOk(t, TRUE), Keeps(v.s, t, TRUE, TRUE),
           \A c \in v.ckReg.may : \A k \in (c + 1)..Len(v.log) : v.log[k].v # Tombstone => v.log[k].unit \in t.res
    PROVE  DiskOk(WithStore(v, t), TRUE)
<1> DEFINE w == WithStore(v, t)
<1>0. v \in VolumeType /\ t \in StoreType /\ v.log \in Seq(Records) /\ v.durable \in Nat /\ v.durable <= Len(v.log)
  BY DiskIs DEF StoreOk
<1>1. w \in VolumeType /\ w.s = t /\ w.log = v.log /\ w.durable = v.durable /\ w.o = v.o /\ w.ck = v.ck /\ w.ckReg = v.ckReg
  BY <1>0, WithStoreIs
<1> HIDE DEF w
<1>2. JournalOk(w) /\ CkOk(w, TRUE)
  BY <1>1 DEF DiskOk, JournalOk, CkOk
<1>3. Reserved(w)
  BY <1>1 DEF Reserved
<1>4. ASSUME NEW c \in v.ckReg.may PROVE Honest(t, v.log, v.durable, c, TRUE)
  BY <1>0, HonestKept DEF DiskOk
<1>5. DiskOk(w, TRUE)
  BY <1>1, <1>2, <1>3, <1>4 DEF DiskOk
<1> QED
  BY <1>5 DEF w

(* The same for a volume that is up. *)
LEMMA WithStoreUp ==
    ASSUME NEW v, UpOk(v), NEW t, StoreOk(t, TRUE), Keeps(v.s, t, TRUE, TRUE),
           \A c \in v.ckReg.may : \A k \in (c + 1)..Len(v.log) : v.log[k].v # Tombstone => v.log[k].unit \in t.res
    PROVE  UpOk(WithStore(v, t))
  BY WithStoreOk, DiskIs, WithStoreIs DEF UpOk, StoreOk

(* A quiet step of the store. *)
LEMMA QuietDisk ==
    ASSUME NEW v, DiskOk(v, TRUE), NEW t, Quiet(v.s, t)
    PROVE  DiskOk(WithStore(v, t), TRUE)
  BY WithStoreOk DEF Quiet, DiskOk, Reserved

(* The same for a volume that is up. *)
LEMMA QuietUp ==
    ASSUME NEW v, UpOk(v), NEW t, Quiet(v.s, t)
    PROVE  UpOk(WithStore(v, t)) /\ Ahead(v, WithStore(v, t))
<1>1. StoreOk(t, TRUE) /\ Keeps(v.s, t, TRUE, TRUE) /\ v.s.res \subseteq t.res
  BY DEF Quiet
<1>2. \A c \in v.ckReg.may : \A k \in (c + 1)..Len(v.log) : v.log[k].v # Tombstone => v.log[k].unit \in t.res
  BY <1>1 DEF UpOk, DiskOk, Reserved
<1>3. UpOk(WithStore(v, t))
  BY <1>1, <1>2, WithStoreUp
<1>4. v \in VolumeType /\ t \in StoreType /\ v.durable \in Nat /\ v.durable <= v.durable
  BY DiskIs DEF StoreOk, UpOk, Quiet
<1>5. Ahead(v, WithStore(v, t))
  BY <1>4, WithStoreIs DEF Ahead
<1> QED
  BY <1>3, <1>5

(* Ahead is reflexive. *)
LEMMA AheadSelf ==
    ASSUME NEW v, UpOk(v)
    PROVE  Ahead(v, v)
  BY DiskIs, QuietSelf DEF UpOk, Ahead

(* Ahead is transitive. *)
LEMMA AheadTrans ==
    ASSUME NEW v, NEW w, NEW z, UpOk(v), Ahead(v, w), Ahead(w, z)
    PROVE  Ahead(v, z)
<1>1. v.durable \in Nat /\ w.durable \in Nat /\ z.durable \in Nat /\ v.durable <= w.durable /\ w.durable <= z.durable
  BY DiskIs DEF UpOk, Ahead
<1>2. v.durable <= z.durable /\ \A k \in 1..v.durable : k \in 1..w.durable
  BY <1>1
<1>3. \A k \in 1..v.durable : z.log[k] = v.log[k]
  BY <1>2 DEF Ahead
<1>4. Quiet(v.s, z.s)
  BY DiskIs, QuietTrans DEF UpOk, Ahead
<1> QED
  BY <1>1, <1>2, <1>3, <1>4 DEF Ahead

(* More records become durable, and their versions are promoted. *)
LEMMA RolledOk ==
    ASSUME NEW v, UpOk(v), NEW d \in {v.durable, Len(v.log)}
    PROVE  /\ UpOk(Rolled(v, d)) /\ Ahead(v, Rolled(v, d))
           /\ Rolled(v, d).log = v.log /\ Rolled(v, d).durable = d /\ Rolled(v, d).s = v.s
<1> DEFINE w == Rolled(v, d)
           p == Promote(v.o, d)
<1>0. /\ v \in VolumeType /\ v.log \in Seq(Records) /\ v.durable \in Nat /\ Len(v.log) \in Nat /\ v.ck \in Nat
      /\ v.durable <= Len(v.log) /\ v.ck <= v.durable /\ DiskOk(v, TRUE)
      /\ v.ckReg.may \in SUBSET Nat /\ \A c \in v.ckReg.may : c <= v.durable
  BY DiskIs DEF UpOk
<1>1. d \in Nat /\ v.durable <= d /\ d <= Len(v.log) /\ d \in 0..Len(v.log)
  BY <1>0
<1>2. OverlayOk(p, v.log, d, v.ck)
  BY <1>0, PromoteOk DEF UpOk
<1>3. p \in OverlayType
  BY <1>2 DEF OverlayOk
<1>4. w = [v EXCEPT !.durable = d, !.o = p]
  BY <1>0 DEF Rolled, Promoted, VolumeType
<1> HIDE DEF w, p
<1>5. w \in VolumeType /\ w.durable = d /\ w.o = p
  BY <1>0, <1>1, <1>3, <1>4 DEF VolumeType
<1>6. w.log = v.log /\ w.s = v.s /\ w.ck = v.ck /\ w.ckReg = v.ckReg
  BY <1>0, <1>4 DEF VolumeType
<1>7. JournalOk(w)
  BY <1>0, <1>1, <1>5, <1>6 DEF DiskOk, JournalOk
<1>8. CkOk(w, TRUE)
  BY <1>0, <1>1, <1>5, <1>6 DEF DiskOk, CkOk
<1>9. Reserved(w) /\ StoreOk(w.s, TRUE)
  BY <1>0, <1>6 DEF DiskOk, Reserved
<1>10. ASSUME NEW c \in w.ckReg.may PROVE Honest(w.s, w.log, w.durable, c, TRUE)
  BY <1>0, <1>6, <1>1, <1>5, HonestGrows DEF DiskOk
<1>11. UpOk(w)
  BY <1>2, <1>5, <1>6, <1>7, <1>8, <1>9, <1>10 DEF UpOk, DiskOk
<1>12. Ahead(v, w)
  BY <1>1, <1>5, <1>6, <1>9, QuietSelf DEF Ahead
<1> QED
  BY <1>5, <1>6, <1>11, <1>12 DEF w

(* A record is appended and published. *)
LEMMA PublishedOk ==
    ASSUME NEW v, UpOk(v), Len(v.log) < MaxRecords, NEW u \in Unit, NEW c \in Payloads, c # Tombstone => u \in v.s.res
    PROVE  /\ UpOk(Published(v, u, c)) /\ Ahead(v, Published(v, u, c))
           /\ Published(v, u, c).log = Append(v.log, [unit |-> u, v |-> c]) /\ Published(v, u, c).durable = v.durable
<1> DEFINE log2 == Append(v.log, [unit |-> u, v |-> c])
           q == Publish(v.o, u, Len(v.log) + 1, c)
           p == Promote(q, v.durable)
           w == Published(v, u, c)
<1>0. /\ v \in VolumeType /\ v.log \in Seq(Records) /\ v.durable \in Nat /\ Len(v.log) \in Nat /\ v.ck \in Nat
      /\ v.durable <= Len(v.log) /\ v.ck <= v.durable /\ DiskOk(v, TRUE) /\ v.durable <= v.durable
      /\ v.ckReg.may \in SUBSET Nat /\ \A b \in v.ckReg.may : b <= v.durable
  BY DiskIs DEF UpOk
<1>1. /\ log2 \in Seq(Records) /\ Len(log2) = Len(v.log) + 1 /\ log2[Len(v.log) + 1] = [unit |-> u, v |-> c]
      /\ \A k \in 1..Len(v.log) : log2[k] = v.log[k]
  BY <1>0 DEF Records
<1>2. OverlayOk(q, log2, v.durable, v.ck)
  BY <1>0, PublishOk DEF UpOk
<1> HIDE DEF q
<1>3. OverlayOk(p, log2, v.durable, v.ck)
  <2>1. v.durable <= Len(log2)
    BY <1>0, <1>1
  <2> HIDE DEF log2
  <2> QED
    BY <1>0, <1>1, <1>2, <2>1, PromoteOk
<1>4. p \in OverlayType
  BY <1>3 DEF OverlayOk
<1>5. w = [v EXCEPT !.log = log2, !.o = p]
  BY <1>0 DEF Published, Promoted, VolumeType, Appended, q
<1> HIDE DEF w, p, log2
<1>6. w \in VolumeType /\ w.log = log2 /\ w.o = p
  BY <1>0, <1>1, <1>4, <1>5 DEF VolumeType
<1>7. w.durable = v.durable /\ w.s = v.s /\ w.ck = v.ck /\ w.ckReg = v.ckReg
  BY <1>0, <1>5 DEF VolumeType
<1>8. JournalOk(w)
  BY <1>0, <1>1, Consts, <1>6, <1>7 DEF JournalOk
<1>9. CkOk(w, TRUE)
  BY <1>0, <1>7 DEF DiskOk, CkOk
<1>10. Reserved(w)
  <2> SUFFICES ASSUME NEW b \in v.ckReg.may, NEW k \in (b + 1)..Len(log2), log2[k].v # Tombstone
               PROVE  log2[k].unit \in v.s.res
    BY <1>6, <1>7 DEF Reserved
  <2>1. b \in Nat
    BY <1>0
  <2>2. CASE k = Len(v.log) + 1
    BY <1>1, <2>2
  <2>3. CASE k # Len(v.log) + 1
    <3>1. k \in (b + 1)..Len(v.log) /\ k \in 1..Len(v.log)
      BY <1>0, <1>1, <2>1, <2>3
    <3> QED
      BY <1>0, <1>1, <3>1 DEF DiskOk, Reserved
  <2> QED
    BY <2>2, <2>3
<1>11. StoreOk(w.s, TRUE)
  BY <1>0, <1>7 DEF DiskOk
<1>12. \A k \in 1..v.durable : log2[k] = v.log[k]
  BY <1>0, <1>1
<1>13. ASSUME NEW b \in w.ckReg.may PROVE Honest(w.s, w.log, w.durable, b, TRUE)
  <2>1. Honest(v.s, v.log, v.durable, b, TRUE) /\ b \in Nat /\ b <= v.durable
    BY <1>0, <1>7 DEF DiskOk
  <2>2. Honest(v.s, log2, v.durable, b, TRUE)
    BY <1>0, <1>12, <2>1, HonestGrows
  <2> QED
    BY <1>6, <1>7, <2>2
<1>14. UpOk(w)
  BY <1>3, <1>6, <1>7, <1>8, <1>9, <1>10, <1>11, <1>13 DEF UpOk, DiskOk
<1>15. Ahead(v, w)
  BY <1>0, <1>6, <1>7, <1>11, <1>12, QuietSelf DEF Ahead
<1> QED
  BY <1>6, <1>7, <1>14, <1>15 DEF w, log2

-----------------------------------------------------------------------------
(* Foreground handlers. *)

(* An outcome of a store operation, as one of the volume. *)
LEMMA OnStoreIs ==
    ASSUME NEW v, NEW S, NEW r \in OnStore(v, S)
    PROVE  \E e \in S : r.ok = e.ok /\ r.x = WithStore(v, e.s)
  BY DEF OnStore, WithStore

(* What a foreground handler may do: the volume stays in order and a plan *)
(* in flight survives. *)
Handled(v, r) == r.ok \in BOOLEAN /\ UpOk(r.x) /\ Ahead(v, r.x)

(* JournalWriter::sync: the journal is as it was. *)
LEMMA JournalSyncIs ==
    ASSUME NEW v, UpOk(v), NEW r \in JournalSync(v)
    PROVE  Handled(v, r) /\ r.x.log = v.log /\ (r.ok => r.x.durable = Len(r.x.log))
<1>1. CASE r = Bad(v)
  BY <1>1, AheadSelf DEF Bad, Handled
<1>2. CASE r = Good(Rolled(v, Len(v.log)))
  <2>1. r.ok = TRUE /\ r.x = Rolled(v, Len(v.log))
    BY <1>2 DEF Good
  <2>2. PICK d \in {v.durable, Len(v.log)} : d = Len(v.log)
    OBVIOUS
  <2>3. UpOk(Rolled(v, d)) /\ Ahead(v, Rolled(v, d)) /\ Rolled(v, d).log = v.log /\ Rolled(v, d).durable = d
    BY RolledOk
  <2> QED
    BY <2>1, <2>2, <2>3 DEF Handled
<1>3. r = Bad(v) \/ r = Good(Rolled(v, Len(v.log)))
  BY DEF JournalSync, Rolled, Appended
<1> QED
  BY <1>1, <1>2, <1>3

(* A handler that goes on after another step. *)
LEMMA HandledAfter ==
    ASSUME NEW v, NEW w, UpOk(v), Ahead(v, w), NEW r, Handled(w, r)
    PROVE  Handled(v, r)
  BY AheadTrans DEF Handled

(* An append: the record is there, or the call failed. *)
LEMMA AppendPublishIs ==
    ASSUME NEW v, UpOk(v), Len(v.log) < MaxRecords, NEW u \in Unit, NEW c \in Payloads, c # Tombstone => u \in v.s.res,
           NEW fua \in BOOLEAN, NEW r \in AppendPublish(v, u, c, fua)
    PROVE  /\ Handled(v, r) /\ (r.ok /\ fua => r.x.durable = Len(r.x.log))
           /\ r.x.log = Append(v.log, [unit |-> u, v |-> c]) \/ (r.x.log = v.log /\ ~r.ok)
<1> DEFINE Pub(d) == Promoted([Rolled(v, d) EXCEPT !.log = Append(@, [unit |-> u, v |-> c]),
                                                  !.o = Publish(@, u, Appended(v) + 1, c)])
<1>1. PICK d \in {v.durable, Len(v.log)} :
        r \in {Bad(Rolled(v, d))} \cup IF fua THEN JournalSync(Pub(d)) ELSE {Good(Pub(d))}
  BY DEF AppendPublish, Rolled, Appended
<1> DEFINE a == Rolled(v, d)
           b == Published(a, u, c)
<1>2. UpOk(a) /\ Ahead(v, a) /\ a.log = v.log /\ a.s = v.s
  BY RolledOk
<1>3. Pub(d) = b
  BY <1>2 DEF Published, Appended
<1> HIDE DEF a, Pub
<1>4. UpOk(b) /\ Ahead(a, b) /\ b.log = Append(v.log, [unit |-> u, v |-> c])
  BY <1>2, PublishedOk
<1>5. Ahead(v, b)
  <2> HIDE DEF b
  <2> QED
    BY <1>2, <1>4, AheadTrans
<1> HIDE DEF b
<1>6. CASE r = Bad(a)
  BY <1>6, <1>2 DEF Bad, Handled
<1>7. CASE r = Good(b) /\ ~fua
  BY <1>7, <1>4, <1>5 DEF Good, Handled
<1>8. CASE r \in JournalSync(b)
  BY <1>4, <1>8, JournalSyncIs, <1>5, HandledAfter
<1>9. r = Bad(a) \/ (r = Good(b) /\ ~fua) \/ r \in JournalSync(b)
  BY <1>1, <1>3 DEF a
<1> QED
  BY <1>6, <1>7, <1>8, <1>9

(* write_ct: the reservation, then the append. *)
LEMMA WriteOutcomesIs ==
    ASSUME NEW v, UpOk(v), Len(v.log) < MaxRecords, NEW u \in Unit, NEW c \in Ciphertext,
           NEW fua \in BOOLEAN, NEW r \in WriteOutcomes(v, u, c, fua)
    PROVE  /\ Handled(v, r) /\ (r.ok /\ fua => r.x.durable = Len(r.x.log))
           /\ r.x.log = Append(v.log, [unit |-> u, v |-> c]) \/ (r.x.log = v.log /\ ~r.ok)
<1>1. PICK e \in OnStore(v, ReserveSlot(v.s, u)) : r \in IF e.ok THEN AppendPublish(e.x, u, c, fua) ELSE {e}
  BY DEF WriteOutcomes, Then
<1>2. PICK q \in ReserveSlot(v.s, u) : e.ok = q.ok /\ e.x = WithStore(v, q.s)
  BY OnStoreIs
<1>3. v \in VolumeType /\ StoreOk(v.s, TRUE)
  BY DiskIs DEF UpOk
<1>4. q.ok \in BOOLEAN /\ Quiet(v.s, q.s) /\ (q.ok => u \in q.s.res)
  BY <1>3, ReserveSlotIs
<1>5. UpOk(e.x) /\ Ahead(v, e.x)
  BY <1>2, <1>4, QuietUp
<1>6. e.x.log = v.log /\ e.x.s = q.s
  BY <1>4, <1>2, <1>3, WithStoreIs DEF Quiet, StoreOk
<1>7. CASE ~e.ok
  BY <1>1, <1>2, <1>4, <1>5, <1>6, <1>7 DEF Handled
<1>8. CASE e.ok
  BY <1>1, <1>2, <1>4, <1>6, <1>8, <1>5, AppendPublishIs, HandledAfter DEF Payloads
<1> QED
  BY <1>7, <1>8

(* discard_ct: the tombstone is appended, or nothing is. *)
LEMMA DiscardOutcomesIs ==
    ASSUME NEW v, UpOk(v), Len(v.log) < MaxRecords, NEW u \in Unit,
           NEW fua \in BOOLEAN, NEW r \in DiscardOutcomes(v, u, fua)
    PROVE  /\ Handled(v, r) /\ (r.ok /\ fua /\ ~Unwritten(v, u) => r.x.durable = Len(r.x.log))
           /\ r.x.log = Append(v.log, [unit |-> u, v |-> Tombstone]) \/ r.x.log = v.log
<1>1. CASE r \in JournalSync(v)
  BY <1>1, JournalSyncIs
<1>2. CASE ~fua /\ r = Good(v)
  BY <1>2, AheadSelf DEF Good, Handled
<1>3. CASE Unwritten(v, u) /\ r = Good([v EXCEPT !.s = ReclaimUnwritten(@, u)])
  <2> DEFINE t == ReclaimUnwritten(v.s, u)
  <2>1. v \in VolumeType /\ StoreOk(v.s, TRUE)
    BY DiskIs DEF UpOk
  <2>2. Quiet(v.s, t)
    BY <1>3, <2>1, ReclaimUnwrittenIs DEF Unwritten
  <2>3. t \in StoreType
    BY <2>2 DEF Quiet, StoreOk
  <2>4. r.ok = TRUE /\ r.x = WithStore(v, t)
    BY <1>3 DEF Good, WithStore
  <2> HIDE DEF t
  <2>5. UpOk(WithStore(v, t)) /\ Ahead(v, WithStore(v, t))
    BY <2>2, QuietUp
  <2>6. WithStore(v, t).log = v.log
    BY <2>1, <2>3, WithStoreIs
  <2> QED
    BY <1>3, <2>4, <2>5, <2>6 DEF Handled
<1>4. CASE r \in AppendPublish(v, u, Tombstone, fua)
  BY <1>4, AppendPublishIs DEF Payloads
<1> QED
  BY <1>1, <1>2, <1>3, <1>4 DEF DiscardOutcomes

(* A plan in flight survives a step of a foreground handler. *)
LEMMA PlanKept ==
    ASSUME NEW v, NEW w, UpOk(v), Ahead(v, w), NEW p, PlanOk(p, v)
    PROVE  PlanOk(p, w)
<1>0. /\ v.durable \in Nat /\ w.durable \in Nat /\ StoreOk(v.s, TRUE) /\ StoreOk(w.s, TRUE) /\ FileOk(v.s.shard)
      /\ v.durable <= w.durable
  BY DiskIs DEF UpOk, Ahead, Quiet, StoreOk
<1>1. p \in PlanType /\ p.base \in Nat /\ p.horizon \in Nat /\ p.fails \in 0..MaxFails /\ p.items \subseteq Item /\ p.horizon <= v.durable
  BY DEF PlanOk, PlanType
<1>2. v.s.fails \in Nat /\ w.s.fails \in Nat /\ v.s.fails <= w.s.fails /\ p.fails \in Nat /\ p.fails <= v.s.fails
  BY <1>0, StoreIs, <1>1, Consts DEF StoreOk, PlanOk, Ahead, Quiet
<1>3. p.base = w.ck /\ p.horizon <= w.durable /\ (\A c \in w.ckReg.may : c <= p.horizon) /\ p.fails <= w.s.fails
  BY <1>0, <1>1, <1>2 DEF PlanOk, Ahead
<1>4. ItemsOk(p.items, w.log, p.base, p.horizon)
  BY <1>0, <1>1 DEF Ahead, PlanOk, ItemsOk, LastOf
<1>5. ASSUME BarriersHold(w.s, p.fails)
      PROVE  /\ \A i \in Writes(p.items) \ p.todo : InPlace(w.s.shard, i)
             /\ p.stage = "finish" => \A i \in Writes(p.items) : w.s.shard.opts[i.unit + 1] = {ItemSlot(i)}
  <2>1. w.s.fails = v.s.fails /\ w.s.fails # MaxFails /\ BarriersHold(v.s, p.fails)
    BY <1>2, <1>5 DEF BarriersHold
  <2>2. Calm(v.s.shard, w.s.shard)
    BY <2>1 DEF Ahead, Quiet
  <2>3. \A i \in Writes(p.items) : i \in Item /\ i.unit + 1 \in Pos /\ ItemSlot(i) \in Cell
    <3> SUFFICES ASSUME NEW i \in Writes(p.items) PROVE i \in Item /\ i.unit + 1 \in Pos /\ ItemSlot(i) \in Cell
      OBVIOUS
    <3>1. i \in Item /\ i.ver.v # Tombstone
      BY <1>1 DEF Writes
    <3>2. i.unit \in Unit /\ i.ver.n \in Nat /\ i.ver.v \in Ciphertext
      BY <3>1 DEF Item, Version, Payloads
    <3> QED
      BY <3>1, <3>2, UnitPos, Slots DEF ItemSlot
  <2>4. ASSUME NEW i \in Writes(p.items) \ p.todo PROVE InPlace(w.s.shard, i)
    BY <2>1, <2>3, <2>2 DEF PlanOk, InPlace, Calm
  <2>5. ASSUME p.stage = "finish", NEW i \in Writes(p.items) PROVE w.s.shard.opts[i.unit + 1] = {ItemSlot(i)}
    <3>1. v.s.shard.opts[i.unit + 1] = {ItemSlot(i)} /\ i.unit + 1 \in Pos /\ ItemSlot(i) \in Cell
      BY <2>1, <2>3, <2>5 DEF PlanOk
    <3>2. v.s.shard.data[i.unit + 1] = ItemSlot(i)
      BY <1>0, <3>1, FileIs
    <3> QED
      BY <2>2, <3>1, <3>2 DEF Calm
  <2> QED
    BY <2>4, <2>5
<1>6. p.todo \subseteq Writes(p.items) /\ (p.stage = "finish" => p.todo = {})
  BY DEF PlanOk
<1> QED
  BY <1>1, <1>3, <1>4, <1>5, <1>6 DEF PlanOk

-----------------------------------------------------------------------------
(* Checkpoints: the plan and its slots. *)

(* What the fields of a checkpoint item are. *)
LEMMA ItemIs ==
    ASSUME NEW i \in Item
    PROVE  /\ i.unit \in Unit /\ i.ver.n \in Nat /\ i.ver.v \in Payloads /\ i.unit + 1 \in Pos
           /\ i.ver.v # Tombstone => ItemSlot(i) \in Written /\ ItemSlot(i) \in Cell /\ ItemSlot(i) = Slot(i.ver.n, i.ver.v)
           /\ i = [unit |-> i.unit, ver |-> [n |-> i.ver.n, v |-> i.ver.v]]
  BY Slots, UnitPos DEF Item, Version, Payloads, ItemSlot

(* Promotion up to the boundary that is already there. *)
LEMMA PromotedIs ==
    ASSUME NEW v, UpOk(v)
    PROVE  /\ UpOk(Promoted(v)) /\ Promoted(v).log = v.log /\ Promoted(v).durable = v.durable /\ Promoted(v).s = v.s
           /\ Promoted(v).ck = v.ck /\ Promoted(v).ckReg = v.ckReg
<1>0. v \in VolumeType
  BY DiskIs DEF UpOk
<1>1. [v EXCEPT !.durable = v.durable] = v
  BY <1>0 DEF VolumeType
<1>2. Rolled(v, v.durable) = Promoted(v)
  BY <1>1 DEF Rolled
<1>3. PICK d \in {v.durable, Len(v.log)} : d = v.durable
  OBVIOUS
<1>4. /\ UpOk(Rolled(v, d)) /\ Ahead(v, Rolled(v, d))
      /\ Rolled(v, d).log = v.log /\ Rolled(v, d).durable = d /\ Rolled(v, d).s = v.s
  BY RolledOk
<1> QED
  BY <1>2, <1>3, <1>4 DEF Ahead

(* The plan that a checkpoint prepares. *)
LEMMA PrepareOk ==
    ASSUME NEW v, UpOk(v), NEW items, items = IF v.durable <= v.ck THEN {} ELSE CollectDurable(v.o, v.durable),
           NEW h, h = IF v.durable < v.ck THEN v.ck ELSE v.durable
    PROVE  PlanOk([stage |-> "write", base |-> v.ck, horizon |-> h, items |-> items, todo |-> Writes(items),
                   fails |-> v.s.fails], v)
<1>0. /\ v.durable \in Nat /\ v.ck \in Nat /\ v.ck <= v.durable /\ v.durable <= v.durable /\ StoreOk(v.s, TRUE)
      /\ \A c \in v.ckReg.may : c \in Nat /\ c <= v.durable
  BY DiskIs DEF UpOk
<1>1. h = v.durable
  BY <1>0
<1>2. v.o \in OverlayType /\ v.s.fails \in 0..MaxFails /\ v.s.fails <= v.s.fails
  BY <1>0, StoreIs, Consts DEF UpOk, OverlayOk, StoreOk
<1>3. ASSUME NEW i \in items
      PROVE  /\ i \in Item /\ LastOf(v.log, h, i.unit, i.ver.n) /\ i.ver.v = v.log[i.ver.n].v
  BY <1>2, OverlayIs, OverlayHolds, <1>1 DEF CollectDurable, UpOk, Item, HoldsDurable
<1>4. ASSUME NEW k \in (v.ck + 1)..h PROVE \E i \in items : i.unit = v.log[k].unit
  <2>0. k \in 1..Len(v.log) /\ v.log \in Seq(Records) /\ ~(v.durable <= v.ck) /\ k \in (v.ck + 1)..v.durable
    <3>1. v.log \in Seq(Records) /\ Len(v.log) \in Nat /\ v.durable <= Len(v.log)
      BY DiskIs DEF UpOk
    <3> QED
      BY <1>0, <1>1, <3>1
  <2>1. PICK u \in Unit : u = v.log[k].unit
    BY <2>0, RecordIs
  <2> DEFINE i == [unit |-> u, ver |-> v.o.durable[u]]
  <2>2. HoldsDurable(v.o, v.log, v.durable, v.ck, u)
    BY <2>1, OverlayHolds DEF UpOk
  <2>3. v.o.durable[u] # NoVersion
    BY <2>0, <2>1, <2>2 DEF HoldsDurable
  <2>4. v.o.durable[u].n <= v.durable
    BY <2>2, <2>3 DEF HoldsDurable, LastOf
  <2>5. i \in CollectDurable(v.o, v.durable)
    BY <2>1, <2>3, <2>4 DEF CollectDurable
  <2>6. i \in items /\ i.unit = v.log[k].unit
    BY <2>0, <2>1, <2>5
  <2> QED
    BY <2>6
<1>5. ItemsOk(items, v.log, v.ck, h)
  BY <1>3, <1>4 DEF ItemsOk
<1> DEFINE p == [stage |-> "write", base |-> v.ck, horizon |-> h, items |-> items, todo |-> Writes(items),
                 fails |-> v.s.fails]
<1>6. items \in SUBSET Item /\ Writes(items) \in SUBSET Item
  BY <1>3 DEF Writes
<1>7. /\ p \in PlanType /\ p.stage = "write" /\ p.base = v.ck /\ p.horizon = h /\ p.items = items
      /\ p.todo = Writes(items) /\ p.fails = v.s.fails
  BY <1>0, <1>1, <1>2, <1>6 DEF PlanType
<1> HIDE DEF p
<1>8. PlanOk(p, v)
  BY <1>0, <1>1, <1>2, <1>5, <1>7 DEF PlanOk
<1> QED
  BY <1>8 DEF p

(* Slots of U change, and nothing else of the store; their units have a *)
(* record, and the one that checkpoint c covers is not lost. *)
Untouched(s, t, U) ==
    /\ \A u \in Unit \ U : t.shard.opts[u + 1] = s.shard.opts[u + 1]
    /\ t.disc = s.disc /\ t.discReg = s.discReg /\ t.alloc = s.alloc /\ t.allocReg = s.allocReg
Spared(s, t, U, log, hi, c) ==
    \A u \in U : /\ ~NoneOf(log, hi, u)
                 /\ \A m \in 1..hi : LastOf(log, hi, u, m) /\ m <= c =>
                      /\ log[m].v # Tombstone
                      /\ s.shard.opts[u + 1] = {Slot(m, log[m].v)} => t.shard.opts[u + 1] = {Slot(m, log[m].v)}

(* A store stays honest when the slots that change are of units it owes *)
(* nothing. *)
LEMMA Overwritten ==
    ASSUME NEW s, NEW t, NEW U, NEW log, NEW hi, NEW c,
           Untouched(s, t, U), Spared(s, t, U, log, hi, c), Honest(s, log, hi, c, TRUE)
    PROVE  Honest(t, log, hi, c, TRUE)
<1> SUFFICES ASSUME NEW u \in Unit
             PROVE  /\ NoneOf(log, hi, u) => Blank(t, u, TRUE)
                    /\ \A n \in 1..hi : LastOf(log, hi, u, n) /\ n <= c => Holds(t, u, n, log[n].v, TRUE)
  BY DEF Honest
<1>0. /\ NoneOf(log, hi, u) => Blank(s, u, TRUE)
      /\ \A n \in 1..hi : LastOf(log, hi, u, n) /\ n <= c => Holds(s, u, n, log[n].v, TRUE)
  BY DEF Honest
<1>1. CASE u \notin U
  BY <1>1, <1>0 DEF Untouched, Blank, Holds, Shows
<1>2. CASE u \in U
  BY <1>2, <1>0 DEF Spared, Holds, Shows, Untouched
<1> QED
  BY <1>1, <1>2

WithShard(s, g) == [s EXCEPT !.shard = g]

(* A store with another shard. *)
LEMMA WithShardIs ==
    ASSUME NEW s \in StoreType, NEW g \in File
    PROVE  /\ WithShard(s, g) \in StoreType /\ WithShard(s, g).shard = g /\ WithShard(s, g).res = s.res
           /\ WithShard(s, g).disc = s.disc /\ WithShard(s, g).discReg = s.discReg /\ WithShard(s, g).discDirty = s.discDirty
           /\ WithShard(s, g).alloc = s.alloc /\ WithShard(s, g).allocReg = s.allocReg /\ WithShard(s, g).fails = s.fails
<1> DEFINE t == WithShard(s, g)
<1>1. t \in StoreType
  BY DEF StoreType, WithShard
<1>2. /\ t.shard = g /\ t.res = s.res /\ t.disc = s.disc /\ t.discReg = s.discReg /\ t.discDirty = s.discDirty
      /\ t.alloc = s.alloc /\ t.allocReg = s.allocReg /\ t.fails = s.fails
  BY DEF StoreType, WithShard
<1> QED
  BY <1>1, <1>2

(* A plan has one item of a unit. *)
LEMMA ItemsUnique ==
    ASSUME NEW log, NEW base, NEW h \in Nat, NEW items \in SUBSET Item, ItemsOk(items, log, base, h),
           NEW i \in items, NEW j \in items, i.unit = j.unit
    PROVE  i = j
  BY ItemIs, LastUnique DEF ItemsOk, LastOf

(* The slots of items are written. *)
LEMMA WriteItemsIs ==
    ASSUME NEW f, FileOk(f), NEW items \in SUBSET Item, \A i \in items : i.ver.v # Tombstone,
           \A i, j \in items : i.unit = j.unit => i = j
    PROVE  /\ FileOk(WriteItems(f, items)) /\ f.dirty \subseteq WriteItems(f, items).dirty
           /\ \A i \in items : /\ WriteItems(f, items).data[i.unit + 1] = ItemSlot(i)
                               /\ WriteItems(f, items).opts[i.unit + 1] = f.opts[i.unit + 1] \cup {ItemSlot(i)}
                               /\ i.unit + 1 \in WriteItems(f, items).dirty
           /\ \A u \in Unit \ UnitsOf(items) : /\ WriteItems(f, items).data[u + 1] = f.data[u + 1]
                                               /\ WriteItems(f, items).opts[u + 1] = f.opts[u + 1]
<1> DEFINE U == UnitsOf(items)
           put == [u \in U |-> ItemSlot(CHOOSE i \in items : i.unit = u)]
           g == SlotsPut(f, put)
<1>0. U \in SUBSET Unit /\ \A i \in items : i.unit \in U /\ i.unit \in Unit /\ ItemSlot(i) \in Cell
  BY ItemIs DEF UnitsOf
<1>1. \A i \in items : (CHOOSE j \in items : j.unit = i.unit) = i
  OBVIOUS
<1>2. \A i \in items : put[i.unit] = ItemSlot(i)
  BY <1>0, <1>1
<1>3. \A u \in U : put[u] \in Cell
  <2> SUFFICES ASSUME NEW u \in U PROVE put[u] \in Cell
    OBVIOUS
  <2>1. PICK i \in items : u = i.unit
    BY DEF UnitsOf
  <2> QED
    BY <1>0, <1>2, <2>1
<1>4. put \in [U -> Cell]
  BY <1>3
<1>5. g = WriteItems(f, items)
  BY DEF WriteItems
<1> HIDE DEF put, U, g
<1>6. /\ FileOk(g) /\ g.dirty = f.dirty \cup {j \in Pos : j - 1 \in U}
      /\ \A u \in U : g.data[u + 1] = put[u] /\ g.opts[u + 1] = f.opts[u + 1] \cup {put[u]}
      /\ \A u \in Unit \ U : g.data[u + 1] = f.data[u + 1] /\ g.opts[u + 1] = f.opts[u + 1]
  BY <1>0, <1>4, PutFile DEF g
<1>7. \A i \in items : i.unit + 1 \in g.dirty
  BY <1>0, <1>6, UnitPos
<1>8. \A i \in items : g.data[i.unit + 1] = ItemSlot(i) /\ g.opts[i.unit + 1] = f.opts[i.unit + 1] \cup {ItemSlot(i)}
  BY <1>0, <1>2, <1>6
<1>9. \A u \in Unit \ U : g.data[u + 1] = f.data[u + 1] /\ g.opts[u + 1] = f.opts[u + 1]
  BY <1>6
<1>10. FileOk(g) /\ f.dirty \subseteq g.dirty
  BY <1>6
<1> QED
  BY <1>5, <1>7, <1>8, <1>9, <1>10 DEF U

(* The write of a slot fails half way. *)
LEMMA SlotTornIs ==
    ASSUME NEW f, FileOk(f), NEW u \in Unit, NEW c \in Cell
    PROVE  /\ FileOk(SlotTorn(f, u, c)) /\ (f.opts[u + 1] = {c} => SlotTorn(f, u, c).opts[u + 1] = {c})
           /\ \A w \in Unit \ {u} : SlotTorn(f, u, c).opts[w + 1] = f.opts[w + 1]
<1>1. CASE f.data[u + 1] = c
  BY <1>1 DEF SlotTorn
<1>2. CASE f.data[u + 1] # c
  <2> DEFINE put == [w \in {u} |-> Torn]
             g == SlotsPut(f, put)
  <2>1. SlotTorn(f, u, c) = g
    BY <1>2 DEF SlotTorn, SlotWritten
  <2>2. put \in [{u} -> Cell] /\ {u} \in SUBSET Unit
    BY Cells
  <2> HIDE DEF put, g
  <2>3. FileOk(g) /\ \A w \in Unit \ {u} : g.opts[w + 1] = f.opts[w + 1]
    BY <2>2, PutFile DEF g
  <2>4. f.opts[u + 1] # {c}
    BY <1>2, FileIs, UnitPos
  <2> QED
    BY <2>1, <2>3, <2>4
<1> QED
  BY <1>1, <1>2

(* A slot of the plan is written, all of it or half. *)
LEMMA PlanSlotOk ==
    ASSUME NEW v, UpOk(v), NEW p, PlanOk(p, v), NEW i \in p.todo, NEW g, FileOk(g),
           v.s.shard.opts[i.unit + 1] = {ItemSlot(i)} => g.opts[i.unit + 1] = {ItemSlot(i)},
           \A u \in Unit \ {i.unit} : g.opts[u + 1] = v.s.shard.opts[u + 1]
    PROVE  UpOk(WithStore(v, WithShard(v.s, g)))
<1> DEFINE s == v.s
           t == WithShard(s, g)
           w == WithStore(v, t)
<1>0. /\ v \in VolumeType /\ s \in StoreType /\ StoreOk(s, TRUE) /\ v.log \in Seq(Records) /\ v.durable \in Nat
      /\ v.durable <= Len(v.log) /\ DiskOk(v, TRUE)
      /\ \A c \in v.ckReg.may : c \in Nat /\ c <= v.durable
  BY DiskIs DEF UpOk
<1>1. /\ t \in StoreType /\ t.shard = g /\ t.res = s.res /\ t.disc = s.disc /\ t.discReg = s.discReg
      /\ t.discDirty = s.discDirty /\ t.alloc = s.alloc /\ t.allocReg = s.allocReg
  BY <1>0, WithShardIs DEF FileOk
<1>2. i \in Item /\ i.ver.v # Tombstone /\ i \in p.items
  BY DEF PlanOk, PlanType, Writes
<1>3. i.unit \in Unit /\ i.ver.n \in Nat /\ ItemSlot(i) = Slot(i.ver.n, i.ver.v)
  BY <1>2, ItemIs
<1>4. /\ LastOf(v.log, p.horizon, i.unit, i.ver.n) /\ i.ver.v = v.log[i.ver.n].v
      /\ p.horizon \in Nat /\ p.horizon <= v.durable /\ \A c \in v.ckReg.may : c <= p.horizon
  BY <1>2 DEF PlanOk, ItemsOk, PlanType
<1>5. i.ver.n \in 1..v.durable /\ v.log[i.ver.n].unit = i.unit
  BY <1>0, <1>3, <1>4 DEF LastOf
<1>6. w \in VolumeType /\ w.s = t /\ w.log = v.log /\ w.durable = v.durable /\ w.o = v.o /\ w.ck = v.ck /\ w.ckReg = v.ckReg
  BY <1>0, <1>1, WithStoreIs
<1>7. ASSUME NEW c \in v.ckReg.may PROVE Honest(t, v.log, v.durable, c, TRUE)
  <2>1. c \in Nat /\ c <= p.horizon /\ Honest(s, v.log, v.durable, c, TRUE)
    BY <1>0, <1>4 DEF DiskOk
  <2>2. ~NoneOf(v.log, v.durable, i.unit)
    BY <1>5 DEF NoneOf
  <2>3. ASSUME NEW m \in 1..v.durable, LastOf(v.log, v.durable, i.unit, m), m <= c
        PROVE  m = i.ver.n
    BY <1>4, <2>1, <2>3, <1>0, <1>3, LastUnique
  <2>4. Untouched(s, t, {i.unit})
    BY <1>1 DEF Untouched
  <2>5. Spared(s, t, {i.unit}, v.log, v.durable, c)
    BY <1>1, <1>2, <1>3, <1>4, <2>2, <2>3 DEF Spared
  <2> QED
    BY <2>1, <2>4, <2>5, Overwritten
<1> HIDE DEF t, w
<1>8. StoreOk(t, TRUE)
  BY <1>0, <1>1 DEF StoreOk
<1>9. JournalOk(w) /\ CkOk(w, TRUE) /\ Reserved(w)
  BY <1>0, <1>1, <1>6 DEF DiskOk, JournalOk, CkOk, Reserved
<1>10. DiskOk(w, TRUE)
  BY <1>6, <1>7, <1>8, <1>9 DEF DiskOk
<1>11. UpOk(w)
  BY <1>6, <1>10 DEF UpOk
<1> QED
  BY <1>11 DEF w, t

(* A plan writes a slot, or fails to. *)
LEMMA PlanWriteOk ==
    ASSUME NEW v, UpOk(v), NEW p, PlanOk(p, v), p.stage = "write", NEW i \in p.todo
    PROVE  /\ UpOk(WithStore(v, WithShard(v.s, WriteItems(v.s.shard, {i}))))
           /\ PlanOk([p EXCEPT !.todo = p.todo \ {i}], WithStore(v, WithShard(v.s, WriteItems(v.s.shard, {i}))))
<1> DEFINE s == v.s
           f == s.shard
           g == WriteItems(f, {i})
           t == WithShard(s, g)
           w == WithStore(v, t)
           q == [p EXCEPT !.todo = p.todo \ {i}]
<1>0. v \in VolumeType /\ s \in StoreType /\ StoreOk(s, TRUE) /\ FileOk(f)
  BY DiskIs DEF UpOk, StoreOk
<1>1. /\ p \in PlanType /\ p.items \in SUBSET Item /\ p.todo \in SUBSET Item /\ p.horizon \in Nat
      /\ p.todo \subseteq Writes(p.items) /\ ItemsOk(p.items, v.log, p.base, p.horizon)
  BY DEF PlanOk, PlanType
<1>2. i \in Item /\ i.ver.v # Tombstone /\ i \in p.items
  BY <1>1 DEF Writes
<1>3. i.unit \in Unit /\ ItemSlot(i) \in Cell
  BY <1>2, ItemIs
<1>4. /\ FileOk(g) /\ f.dirty \subseteq g.dirty /\ g.data[i.unit + 1] = ItemSlot(i) /\ i.unit + 1 \in g.dirty
      /\ g.opts[i.unit + 1] = f.opts[i.unit + 1] \cup {ItemSlot(i)}
      /\ \A u \in Unit \ {i.unit} : g.data[u + 1] = f.data[u + 1] /\ g.opts[u + 1] = f.opts[u + 1]
  <2>1. PICK I : I = {i}
    OBVIOUS
  <2>2. I \in SUBSET Item /\ (\A j \in I : j.ver.v # Tombstone) /\ \A j, k \in I : j.unit = k.unit => j = k
    BY <1>2, <2>1
  <2>3. i \in I /\ UnitsOf(I) = {i.unit} /\ g = WriteItems(f, I)
    BY <2>1 DEF UnitsOf
  <2> HIDE DEF f, g
  <2>4. /\ FileOk(WriteItems(f, I)) /\ f.dirty \subseteq WriteItems(f, I).dirty
        /\ \A j \in I : /\ WriteItems(f, I).data[j.unit + 1] = ItemSlot(j)
                       /\ WriteItems(f, I).opts[j.unit + 1] = f.opts[j.unit + 1] \cup {ItemSlot(j)}
                       /\ j.unit + 1 \in WriteItems(f, I).dirty
        /\ \A u \in Unit \ UnitsOf(I) : /\ WriteItems(f, I).data[u + 1] = f.data[u + 1]
                                        /\ WriteItems(f, I).opts[u + 1] = f.opts[u + 1]
    BY <1>0, <2>2, WriteItemsIs
  <2> QED
    BY <2>3, <2>4
<1> HIDE DEF g
<1>5. UpOk(w)
  BY <1>4, PlanSlotOk
<1>6. /\ t \in StoreType /\ t.shard = g /\ t.fails = s.fails
  BY <1>0, <1>4, WithShardIs DEF FileOk
<1>7. w.s = t /\ w.log = v.log /\ w.durable = v.durable /\ w.ck = v.ck /\ w.ckReg = v.ckReg
  BY <1>0, <1>6, WithStoreIs
<1>8. q \in PlanType /\ q.todo = p.todo \ {i}
  BY <1>1 DEF PlanType
<1>9. q.stage = p.stage /\ q.base = p.base /\ q.horizon = p.horizon /\ q.items = p.items /\ q.fails = p.fails
  BY <1>1 DEF PlanType
<1> HIDE DEF t, w, q
<1>10. ASSUME BarriersHold(s, p.fails), NEW j \in Writes(p.items) \ q.todo PROVE InPlace(g, j)
  BY <1>4, <1>1, <1>8, <1>10, <1>2, ItemsUnique, ItemIs DEF InPlace, Writes, PlanOk
<1>11. BarriersHold(w.s, q.fails) => BarriersHold(s, p.fails)
  BY <1>6, <1>7, <1>9 DEF BarriersHold
<1>12. PlanOk(q, w)
  BY <1>6, <1>7, <1>8, <1>9, <1>10, <1>11 DEF PlanOk
<1> QED
  BY <1>5, <1>12 DEF w, q, t, g

(* The shard is synced. *)
LEMMA PlanSyncOk ==
    ASSUME NEW v, UpOk(v), NEW p, PlanOk(p, v), p.stage = "write", p.todo = {},
           NEW r, r \in IF Writes(p.items) = {} THEN {Good(v)} ELSE ShardSynced(v)
    PROVE  /\ r.ok \in BOOLEAN /\ UpOk(r.x) /\ r.x.log = v.log /\ r.x.durable = v.durable
           /\ r.ok => PlanOk([p EXCEPT !.stage = "finish"], r.x)
<1> DEFINE s == v.s
           f == s.shard
           q == [p EXCEPT !.stage = "finish"]
<1>0. v \in VolumeType /\ s \in StoreType /\ StoreOk(s, TRUE) /\ FileOk(f) /\ s.fails \in 0..MaxFails
  BY DiskIs, StoreIs DEF UpOk, StoreOk
<1>1. p \in PlanType /\ p.items \in SUBSET Item
  BY DEF PlanOk, PlanType
<1>2. /\ q \in PlanType /\ q.stage = "finish" /\ q.todo = p.todo /\ q.base = p.base /\ q.horizon = p.horizon
      /\ q.items = p.items /\ q.fails = p.fails
  BY <1>1 DEF PlanType
<1> HIDE DEF q
<1>3. ASSUME NEW w, PlanOk(p, w), BarriersHold(w.s, p.fails) => \A i \in Writes(p.items) : w.s.shard.opts[i.unit + 1] = {ItemSlot(i)}
      PROVE  PlanOk(q, w)
  BY <1>2, <1>3 DEF PlanOk
<1>4. CASE Writes(p.items) = {}
  <2>1. r = Good(v)
    BY <1>4
  <2>2. r.ok = TRUE /\ r.x = v
    BY <2>1 DEF Good
  <2>3. PlanOk(q, v)
    BY <1>3, <1>4
  <2> QED
    BY <2>2, <2>3 DEF q
<1>5. CASE r = Good([v EXCEPT !.s.shard = Synced(@)]) /\ Writes(p.items) # {}
  <2> DEFINE g == Synced(f)
             t == WithShard(s, g)
  <2>1. r.ok = TRUE /\ r.x = WithStore(v, t)
    BY <1>5 DEF Good, WithStore, WithShard
  <2>2. FileOk(g) /\ \A j \in Pos : g.opts[j] = IF j \in f.dirty THEN {f.data[j]} ELSE f.opts[j]
    BY <1>0, SyncedFile
  <2>3. /\ t \in StoreType /\ t.shard = g /\ t.res = s.res /\ t.disc = s.disc /\ t.discReg = s.discReg
        /\ t.discDirty = s.discDirty /\ t.alloc = s.alloc /\ t.allocReg = s.allocReg /\ t.fails = s.fails
    BY <1>0, <2>2, WithShardIs DEF FileOk
  <2> HIDE DEF t
  <2>4. Quiet(s, t)
    BY <2>3, <1>0, StoreSynced
  <2>5. UpOk(r.x) /\ Ahead(v, r.x)
    BY <2>1, <2>4, QuietUp
  <2>6. r.x.s = t /\ r.x.log = v.log /\ r.x.durable = v.durable
    BY <1>0, <2>1, <2>3, WithStoreIs
  <2>7. PlanOk(p, r.x)
    BY <2>5, PlanKept
  <2>8. ASSUME BarriersHold(t, p.fails), NEW i \in Writes(p.items) PROVE g.opts[i.unit + 1] = {ItemSlot(i)}
    BY <2>3, <2>8, <1>1, ItemIs, <2>2 DEF BarriersHold, PlanOk, Writes, InPlace
  <2>9. PlanOk(q, r.x)
    BY <1>3, <2>3, <2>6, <2>7, <2>8
  <2> QED
    BY <2>1, <2>5, <2>6, <2>9 DEF q
<1>6. CASE r = Bad([v EXCEPT !.s.shard = SyncFailed(@)])
  <2> DEFINE g == SyncFailed(f)
             t == WithShard(s, g)
  <2>1. r.ok = FALSE /\ r.x = WithStore(v, t)
    BY <1>6 DEF Bad, WithStore, WithShard
  <2>2. FileOk(g) /\ Certain(f, g)
    BY <1>0, SyncFailedFile
  <2>3. /\ t \in StoreType /\ t.shard = g /\ t.res = s.res /\ t.disc = s.disc /\ t.discReg = s.discReg
        /\ t.discDirty = s.discDirty /\ t.alloc = s.alloc /\ t.allocReg = s.allocReg
    BY <1>0, <2>2, WithShardIs DEF FileOk
  <2> HIDE DEF t
  <2>4. StoreOk(t, TRUE) /\ Keeps(s, t, TRUE, TRUE)
    BY <1>0, <2>2, <2>3, ShardKept
  <2>5. \A c \in v.ckReg.may : \A k \in (c + 1)..Len(v.log) : v.log[k].v # Tombstone => v.log[k].unit \in t.res
    BY <2>3 DEF UpOk, DiskOk, Reserved
  <2>6. UpOk(r.x)
    BY <2>1, <2>4, <2>5, WithStoreUp
  <2>7. r.x.log = v.log /\ r.x.durable = v.durable
    BY <1>0, <2>1, <2>3, WithStoreIs
  <2> QED
    BY <2>1, <2>6, <2>7
<1> QED
  BY <1>4, <1>5, <1>6 DEF ShardSynced


-----------------------------------------------------------------------------
(* Checkpoints: their publication. *)

(* What a checkpoint may do under the lock: the journal stays as it is. *)
Finished(v, r) == r.ok \in BOOLEAN /\ UpOk(r.x) /\ r.x.log = v.log /\ r.x.durable = v.durable

Retired(v, c) == [v EXCEPT !.o = Retire(@, c)]

(* The versions that the checkpoint covers leave the overlay. *)
LEMMA RetiredOk ==
    ASSUME NEW v, UpOk(v), NEW c, c = v.ck
    PROVE  /\ UpOk(Retired(v, c)) /\ Retired(v, c).log = v.log /\ Retired(v, c).durable = v.durable
           /\ Retired(v, c).s = v.s /\ Retired(v, c).ck = v.ck /\ Retired(v, c).ckReg = v.ckReg
<1> DEFINE w == Retired(v, c)
<1>1. /\ v \in VolumeType /\ v.log \in Seq(Records) /\ v.durable \in Nat /\ v.durable <= Len(v.log)
      /\ v.ck \in Nat /\ v.ck <= v.durable
  BY DiskIs DEF UpOk
<1>2. OverlayOk(v.o, v.log, v.durable, v.ck)
  BY DEF UpOk
<1>3. OverlayOk(Retire(v.o, c), v.log, v.durable, v.ck)
  BY <1>1, <1>2, RetireOk
<1>4. Retire(v.o, c) \in OverlayType
  BY <1>3 DEF OverlayOk
<1>5. w \in VolumeType /\ w.o = Retire(v.o, c)
  BY <1>1, <1>4 DEF Retired, VolumeType
<1>6. w.log = v.log /\ w.durable = v.durable /\ w.s = v.s /\ w.ck = v.ck /\ w.ckReg = v.ckReg
  BY <1>1 DEF Retired, VolumeType
<1> HIDE DEF w
<1>7. DiskOk(w, TRUE)
  BY <1>5, <1>6 DEF UpOk, DiskOk, JournalOk, CkOk, Reserved
<1>8. UpOk(w)
  BY <1>3, <1>5, <1>6, <1>7 DEF UpOk
<1> QED
  BY <1>6, <1>8 DEF w

(* Reclamation of the units without a version, once no restart can find an *)
(* older checkpoint than the one in memory. *)
LEMMA ReclaimedOk ==
    ASSUME NEW v, UpOk(v), v.ckReg.may = {v.ck}, NEW r \in Swallowed(v, RetryReclamation(v.s, Idle(v)))
    PROVE  Finished(v, r)
<1>1. PICK e \in RetryReclamation(v.s, Idle(v)) : r = Good([v EXCEPT !.s = e.s])
  BY DEF Swallowed
<1>2. r.ok = TRUE /\ r.x = WithStore(v, e.s)
  BY <1>1 DEF Good, WithStore
<1>3. v \in VolumeType /\ StoreOk(v.s, TRUE) /\ v.log \in Seq(Records) /\ Len(v.log) \in Nat /\ v.ck \in Nat
  BY DiskIs DEF UpOk
<1>4. StoreOk(e.s, TRUE) /\ Keeps(v.s, e.s, TRUE, TRUE) /\ v.s.res \ Idle(v) \subseteq e.s.res
  BY <1>3, RetryReclamationIs
<1>5. ASSUME NEW c \in v.ckReg.may, NEW k \in (c + 1)..Len(v.log), v.log[k].v # Tombstone
      PROVE  v.log[k].unit \in e.s.res
  BY <1>5, <1>3, RecordIs, OverlayHolds, <1>4 DEF UpOk, DiskOk, Reserved, HoldsLatest, Idle
<1>6. UpOk(r.x)
  BY <1>2, <1>4, <1>5, WithStoreUp
<1>7. e.s \in StoreType
  BY <1>4 DEF StoreOk
<1>8. r.x.log = v.log /\ r.x.durable = v.durable
  BY <1>2, <1>3, <1>7, WithStoreIs
<1> QED
  BY <1>2, <1>6, <1>8 DEF Finished

(* Steps that only store maps. *)
LEMMA StoreStep ==
    ASSUME NEW v, UpOk(v), NEW S, \A e \in S : e.ok \in BOOLEAN /\ Quiet(v.s, e.s), NEW r \in OnStore(v, S)
    PROVE  /\ Finished(v, r) /\ Ahead(v, r.x) /\ r.x.o = v.o /\ r.x.ck = v.ck /\ r.x.ckReg = v.ckReg
           /\ \E e \in S : r.ok = e.ok /\ r.x.s = e.s
<1>1. PICK e \in S : r.ok = e.ok /\ r.x = WithStore(v, e.s)
  BY OnStoreIs
<1>2. UpOk(r.x) /\ Ahead(v, r.x)
  BY <1>1, QuietUp
<1>3. e.s \in StoreType /\ v \in VolumeType
  BY DiskIs DEF Quiet, StoreOk, UpOk
<1>4. r.x.log = v.log /\ r.x.durable = v.durable /\ r.x.o = v.o /\ r.x.ck = v.ck /\ r.x.ckReg = v.ckReg /\ r.x.s = e.s
  BY <1>1, <1>3, WithStoreIs
<1> QED
  BY <1>1, <1>2, <1>4 DEF Finished

(* Storing the discard map, as a step of a volume that is up. *)
LEMMA DiscardsStep ==
    ASSUME NEW v, UpOk(v), NEW r \in OnStore(v, PersistDiscards(v.s))
    PROVE  Finished(v, r) /\ r.x.ck = v.ck /\ r.x.ckReg = v.ckReg
<1>1. StoreOk(v.s, TRUE)
  BY DiskIs DEF UpOk
<1>2. \A e \in PersistDiscards(v.s) : e.ok \in BOOLEAN /\ Quiet(v.s, e.s)
  BY <1>1, PersistDiscardsIs
<1> QED
  BY <1>2, StoreStep

(* Storing the allocation map, as a step of a volume that is up. *)
LEMMA AllocationsStep ==
    ASSUME NEW v, UpOk(v), NEW r \in OnStore(v, PersistAllocations(v.s))
    PROVE  Finished(v, r) /\ r.x.ck = v.ck /\ r.x.ckReg = v.ckReg
  BY DiskIs, PersistAllocationsIs, StoreStep DEF UpOk

(* A finishing step after another. *)
LEMMA FinishedTrans ==
    ASSUME NEW v, NEW w, w.log = v.log, w.durable = v.durable, NEW r, Finished(w, r)
    PROVE  Finished(v, r)
  BY DEF Finished

(* Pruning the journal changes nothing here. *)
LEMMA PrunedIs ==
    ASSUME NEW v, NEW q \in Pruned(v)
    PROVE  q.ok \in BOOLEAN /\ q.x = v
<1>1. CASE q = Bad(v)
  BY <1>1 DEF Bad
<1>2. CASE q = Good(v)
  BY <1>2 DEF Good
<1> QED
  BY <1>1, <1>2 DEF Pruned

(* A checkpoint with nothing to cover. *)
LEMMA FinishIdleIs ==
    ASSUME NEW v, UpOk(v), NEW b, b = v.ck, v.ckReg.may = {v.ck}, NEW r \in FinishIdle(v, b)
    PROVE  Finished(v, r)
<1> DEFINE a == Retired(v, b)
           R == IF HasPendingRepairs(v.s)
                THEN Then(OnStore(a, PersistDiscards(v.s)), LAMBDA e : OnStore(e.x, PersistAllocations(e.x.s)))
                ELSE {Good(a)}
<1>1. PICK e \in R : r \in IF e.ok THEN Then(Pruned(e.x), LAMBDA q : Swallowed(q.x, RetryReclamation(q.x.s, Idle(q.x))))
                          ELSE {e}
  BY DEF FinishIdle, Then, Retired
<1>2. UpOk(a) /\ a.log = v.log /\ a.durable = v.durable /\ a.s = v.s /\ a.ck = v.ck /\ a.ckReg = v.ckReg
  BY RetiredOk
<1> HIDE DEF a
<1>3. Finished(a, e) /\ e.x.ck = a.ck /\ e.x.ckReg = a.ckReg
  <2>1. CASE e = Good(a)
    BY <1>2, <2>1 DEF Good, Finished
  <2>2. CASE e # Good(a)
    BY <1>1, <2>2, <1>2, DiscardsStep, AllocationsStep, FinishedTrans DEF Then, Finished
  <2> QED
    BY <2>1, <2>2
<1>4. Finished(v, e)
  BY <1>2, <1>3, FinishedTrans
<1>5. CASE ~e.ok
  BY <1>1, <1>4, <1>5
<1>6. CASE e.ok
  BY <1>1, <1>6, PrunedIs, <1>4, <1>2, <1>3, ReclaimedOk, FinishedTrans DEF Then, Finished
<1> QED
  BY <1>4, <1>5, <1>6 DEF Finished

(* The maps are marked: A are the units to be allocated, D those that are *)
(* discarded and W those that are not. *)
OfUnits(A, D, W) == A \subseteq Unit /\ D \subseteq Unit /\ W \subseteq A
Marked(s, A, D, W) == SetDiscarded(MarkAllocated(s, A), D, W)

(* Their units have a record, and the maps tell the truth about the one *)
(* that checkpoint c covers. *)
Truthful(log, hi, c, A, D, W) ==
    \A u \in A \cup D \cup W :
      /\ ~NoneOf(log, hi, u)
      /\ \A m \in 1..hi : LastOf(log, hi, u, m) /\ m <= c =>
           (u \in W /\ log[m].v # Tombstone) \/ (u \in D \ A /\ log[m].v = Tombstone)

IsMarked(t, s, A, D, W) ==
    /\ t \in StoreType /\ t.disc = (s.disc \cup D) \ W /\ t.alloc = s.alloc \cup A
    /\ ~t.discDirty => ~s.discDirty /\ t.disc = s.disc
    /\ t.discReg = s.discReg /\ t.allocReg = s.allocReg /\ t.shard = s.shard /\ t.res = s.res /\ t.fails = s.fails

(* What marking units in the maps makes of a store. *)
LEMMA MarkedIs ==
    ASSUME NEW s, StoreOk(s, TRUE), NEW A, NEW D, NEW W, OfUnits(A, D, W)
    PROVE  IsMarked(Marked(s, A, D, W), s, A, D, W)
<1> DEFINE new == (s.disc \cup D) \ W
           t == Marked(s, A, D, W)
<1>1. /\ s \in StoreType /\ s.alloc \subseteq Unit /\ s.disc \subseteq Unit
      /\ s.allocDirty \in BOOLEAN /\ s.discDirty \in BOOLEAN
  BY StoreIs DEF StoreOk
<1>2. t = [s EXCEPT !.alloc = s.alloc \cup A, !.allocDirty = s.allocDirty \/ ~(A \subseteq s.alloc),
                    !.disc = new, !.discDirty = s.discDirty \/ new # s.disc]
  BY <1>1 DEF Marked, SetDiscarded, MarkAllocated, StoreType
<1>3. /\ s.alloc \cup A \in SUBSET Unit /\ new \in SUBSET Unit
      /\ (s.allocDirty \/ ~(A \subseteq s.alloc)) \in BOOLEAN /\ (s.discDirty \/ new # s.disc) \in BOOLEAN
  BY <1>1 DEF OfUnits
<1> HIDE DEF t, new
<1>4. t \in StoreType
  BY <1>1, <1>2, <1>3 DEF StoreType
<1>5. /\ t.shard = s.shard /\ t.alloc = s.alloc \cup A /\ t.disc = new /\ t.discReg = s.discReg
      /\ t.allocReg = s.allocReg /\ t.res = s.res /\ t.fails = s.fails
  BY <1>1, <1>2 DEF StoreType
<1>6. ~t.discDirty => ~s.discDirty /\ new = s.disc
  BY <1>1, <1>2 DEF StoreType
<1>7. IsMarked(t, s, A, D, W)
  BY <1>4, <1>5, <1>6 DEF IsMarked, new
<1> QED
  BY <1>7 DEF t

(* A store whose maps are marked is in order. *)
LEMMA MarkedOk ==
    ASSUME NEW s, StoreOk(s, TRUE), NEW A, NEW D, NEW W, NEW t, IsMarked(t, s, A, D, W)
    PROVE  StoreOk(t, TRUE)
  BY DEF IsMarked, StoreOk

(* A map that is truthful keeps the store honest. *)
LEMMA MarkedHonest ==
    ASSUME NEW s, NEW A, NEW D, NEW W, OfUnits(A, D, W), NEW t, IsMarked(t, s, A, D, W),
           NEW log, NEW hi, NEW c, Truthful(log, hi, c, A, D, W), Honest(s, log, hi, c, TRUE)
    PROVE  Honest(t, log, hi, c, TRUE)
<1>1. /\ t.disc = (s.disc \cup D) \ W /\ t.alloc = s.alloc \cup A /\ t.discReg = s.discReg
      /\ t.allocReg = s.allocReg /\ t.shard = s.shard
  BY DEF IsMarked
<1> SUFFICES ASSUME NEW u \in Unit
             PROVE  /\ NoneOf(log, hi, u) => Blank(t, u, TRUE)
                    /\ \A n \in 1..hi : LastOf(log, hi, u, n) /\ n <= c => Holds(t, u, n, log[n].v, TRUE)
  BY DEF Honest
<1>2. /\ NoneOf(log, hi, u) => Blank(s, u, TRUE)
      /\ \A n \in 1..hi : LastOf(log, hi, u, n) /\ n <= c => Holds(s, u, n, log[n].v, TRUE)
  BY DEF Honest
<1>3. CASE u \notin A \cup D \cup W
  BY <1>1, <1>3, <1>2 DEF Blank, Shows, Holds
<1>4. CASE u \in A \cup D \cup W
  BY <1>4, <1>2, <1>1 DEF Truthful, Holds, Shows, Blank, OfUnits
<1> QED
  BY <1>3, <1>4

(* The slots of the writes of a batch are certain and its discards are in *)
(* the discard map on the disk: the store is honest about all of it. *)
Settles(s, items) ==
    /\ s.discReg.may = {s.disc}
    /\ \A i \in Writes(items) : s.shard.opts[i.unit + 1] = {ItemSlot(i)} /\ i.unit \notin s.disc
    /\ \A i \in Discards(items) : i.unit \in s.disc

(* A store that holds the items of a plan is honest about its horizon. *)
LEMMA SettledHonest ==
    ASSUME NEW s, NEW log, NEW hi \in Nat, NEW c \in Nat, NEW h \in Nat, h <= hi, NEW items \in SUBSET Item,
           ItemsOk(items, log, c, h), Settles(s, items), Honest(s, log, hi, c, TRUE)
    PROVE  Honest(s, log, hi, h, TRUE)
<1> SUFFICES ASSUME NEW u \in Unit
             PROVE  /\ NoneOf(log, hi, u) => Blank(s, u, TRUE)
                    /\ \A n \in 1..hi : LastOf(log, hi, u, n) /\ n <= h => Holds(s, u, n, log[n].v, TRUE)
  BY DEF Honest
<1>1. NoneOf(log, hi, u) => Blank(s, u, TRUE)
  BY DEF Honest
<1>2. ASSUME NEW n \in 1..hi, LastOf(log, hi, u, n), n <= h
      PROVE  Holds(s, u, n, log[n].v, TRUE)
  <2>1. CASE n <= c
    BY <1>2, <2>1 DEF Honest
  <2>2. CASE n > c
    <3>1. n \in (c + 1)..h /\ n \in Nat
      BY <1>2, <2>2
    <3>2. PICK i \in items : i.unit = log[n].unit
      BY <3>1 DEF ItemsOk
    <3>3. i.unit = u
      BY <1>2, <3>2 DEF LastOf
    <3>4. LastOf(log, h, u, i.ver.n) /\ i.ver.v = log[i.ver.n].v /\ i.ver.n \in Nat
      BY <3>3, ItemIs DEF ItemsOk
    <3>5. n = i.ver.n
      BY <1>2, <3>1, <3>4, LastUnique
    <3>6. CASE i \in Writes(items)
      BY <3>6, <3>3, <3>4, <3>5 DEF Writes, Settles, ItemSlot, Shows, Holds
    <3>7. CASE i \in Discards(items)
      BY <3>7, <3>3, <3>4, <3>5 DEF Writes, Discards, Settles, Blank, Holds
    <3> QED
      BY <3>6, <3>7 DEF Discards
  <2>3. n <= c \/ n > c
    OBVIOUS
  <2> QED
    BY <2>1, <2>2, <2>3
<1> QED
  BY <1>1, <1>2

(* Steps of the volume that change its store only. *)
SameBut(v, w) == w.log = v.log /\ w.durable = v.durable /\ w.o = v.o /\ w.ck = v.ck /\ w.ckReg = v.ckReg

(* SameBut is transitive. *)
LEMMA SameButTrans ==
    ASSUME NEW v, NEW w, NEW z, SameBut(v, w), SameBut(w, z)
    PROVE  SameBut(v, z)
  BY DEF SameBut

(* A volume that is up stays so when only its disk changes. *)
LEMMA SameButUp ==
    ASSUME NEW v, UpOk(v), NEW w, SameBut(v, w), DiskOk(w, TRUE)
    PROVE  UpOk(w)
  BY DEF SameBut, UpOk

(* A quiet step of the store, as one of the volume. *)
LEMMA QuietStep ==
    ASSUME NEW v, DiskOk(v, TRUE), NEW S, \A e \in S : e.ok \in BOOLEAN /\ Quiet(v.s, e.s), NEW r \in OnStore(v, S)
    PROVE  /\ r.ok \in BOOLEAN /\ DiskOk(r.x, TRUE) /\ SameBut(v, r.x)
           /\ \E e \in S : r.ok = e.ok /\ r.x.s = e.s
<1>1. PICK e \in S : r.ok = e.ok /\ r.x = WithStore(v, e.s)
  BY OnStoreIs
<1>2. DiskOk(r.x, TRUE)
  BY <1>1, QuietDisk
<1>3. e.s \in StoreType /\ v \in VolumeType
  BY DiskIs DEF Quiet, StoreOk
<1>4. SameBut(v, r.x) /\ r.x.s = e.s
  BY <1>1, <1>3, WithStoreIs DEF SameBut
<1> QED
  BY <1>1, <1>2, <1>4

(* Storing the allocation map, as a step of the volume. *)
LEMMA AllocStep ==
    ASSUME NEW v, DiskOk(v, TRUE), NEW r \in OnStore(v, PersistAllocations(v.s))
    PROVE  /\ r.ok \in BOOLEAN /\ DiskOk(r.x, TRUE) /\ SameBut(v, r.x) /\ Quiet(v.s, r.x.s)
           /\ r.x.s.shard = v.s.shard /\ r.x.s.disc = v.s.disc /\ r.x.s.discReg = v.s.discReg
<1>1. StoreOk(v.s, TRUE)
  BY DiskIs
<1>2. \A i \in PersistAllocations(v.s) : i.ok \in BOOLEAN /\ Quiet(v.s, i.s)
  BY <1>1, PersistAllocationsIs
<1>3. r.ok \in BOOLEAN /\ DiskOk(r.x, TRUE) /\ SameBut(v, r.x) /\ \E i \in PersistAllocations(v.s) : r.ok = i.ok /\ r.x.s = i.s
  BY <1>2, QuietStep
<1>4. PICK i \in PersistAllocations(v.s) : r.ok = i.ok /\ r.x.s = i.s
  BY <1>3
<1>5. i.s.shard = v.s.shard /\ i.s.disc = v.s.disc /\ i.s.discReg = v.s.discReg /\ Quiet(v.s, i.s)
  BY <1>1, PersistAllocationsIs
<1> QED
  BY <1>3, <1>4, <1>5

(* Creating the shard, as a step of the volume. *)
LEMMA EnsureStep ==
    ASSUME NEW v, DiskOk(v, TRUE), NEW r \in OnStore(v, EnsureShard(v.s))
    PROVE  r.ok \in BOOLEAN /\ DiskOk(r.x, TRUE) /\ SameBut(v, r.x) /\ Quiet(v.s, r.x.s) /\ r.x.s.shard = v.s.shard
<1>1. StoreOk(v.s, TRUE)
  BY DiskIs
<1>2. \A i \in EnsureShard(v.s) : i.ok \in BOOLEAN /\ Quiet(v.s, i.s)
  BY <1>1, EnsureShardIs
<1>3. r.ok \in BOOLEAN /\ DiskOk(r.x, TRUE) /\ SameBut(v, r.x) /\ \E i \in EnsureShard(v.s) : r.ok = i.ok /\ r.x.s = i.s
  BY <1>2, QuietStep
<1>4. PICK i \in EnsureShard(v.s) : r.ok = i.ok /\ r.x.s = i.s
  BY <1>3
<1>5. i.s.shard = v.s.shard /\ Quiet(v.s, i.s)
  BY <1>1, EnsureShardIs
<1> QED
  BY <1>3, <1>4, <1>5

(* A store that is honest about every checkpoint a restart may find. *)
LEMMA WithHonest ==
    ASSUME NEW v, DiskOk(v, TRUE), NEW t, StoreOk(t, TRUE), v.s.res \subseteq t.res,
           \A c \in v.ckReg.may : Honest(t, v.log, v.durable, c, TRUE)
    PROVE  DiskOk(WithStore(v, t), TRUE) /\ SameBut(v, WithStore(v, t)) /\ WithStore(v, t).s = t
<1> DEFINE w == WithStore(v, t)
<1>0. v \in VolumeType /\ t \in StoreType
  BY DiskIs DEF StoreOk
<1>1. w \in VolumeType /\ w.s = t /\ SameBut(v, w)
  BY <1>0, WithStoreIs DEF SameBut
<1> HIDE DEF w
<1>2. JournalOk(w) /\ CkOk(w, TRUE)
  BY <1>1 DEF DiskOk, JournalOk, CkOk, SameBut
<1>3. Reserved(w)
  BY <1>1 DEF Reserved, SameBut, DiskOk
<1>4. DiskOk(w, TRUE)
  BY <1>1, <1>2, <1>3 DEF DiskOk, SameBut
<1> QED
  BY <1>1, <1>4 DEF w

(* A store operation on a changed store, as a step of the changed volume. *)
LEMMA OnStoreSame ==
    ASSUME NEW v \in VolumeType, NEW t, NEW S, NEW r \in OnStore(v, S)
    PROVE  r \in OnStore(WithStore(v, t), S)
  BY DEF OnStore, WithStore, VolumeType

(* The marked maps are stored, the discard map first. *)
MapsStored(v, A, D, W) ==
    Then(OnStore(v, PersistDiscards(Marked(v.s, A, D, W))), LAMBDA q : OnStore(q.x, PersistAllocations(q.x.s)))

MapsKept(v, r, A, D, W) ==
    /\ r.ok \in BOOLEAN /\ DiskOk(r.x, TRUE) /\ SameBut(v, r.x)
    /\ r.x.s.shard = v.s.shard /\ r.x.s.disc = (v.s.disc \cup D) \ W
    /\ r.ok => r.x.s.discReg.may = {r.x.s.disc}
    /\ \A c : Truthful(v.log, v.durable, c, A, D, W) /\ Honest(v.s, v.log, v.durable, c, TRUE)
                => Honest(r.x.s, v.log, v.durable, c, TRUE)

(* The maps are marked and stored, the discard map first. *)
LEMMA MapsStoredIs ==
    ASSUME NEW v, DiskOk(v, TRUE), NEW A, NEW D, NEW W, OfUnits(A, D, W),
           \A c \in v.ckReg.may : Truthful(v.log, v.durable, c, A, D, W), NEW r \in MapsStored(v, A, D, W)
    PROVE  MapsKept(v, r, A, D, W)
<1> DEFINE m == Marked(v.s, A, D, W)
           y == WithStore(v, m)
<1>1. PICK q \in OnStore(v, PersistDiscards(m)) : r \in IF q.ok THEN OnStore(q.x, PersistAllocations(q.x.s)) ELSE {q}
  BY DEF MapsStored, Then
<1>2. v \in VolumeType /\ StoreOk(v.s, TRUE) /\ v.log \in Seq(Records) /\ v.durable \in Nat /\ v.durable <= Len(v.log)
  BY DiskIs
<1>3. IsMarked(m, v.s, A, D, W)
  BY <1>2, MarkedIs
<1> HIDE DEF m
<1>4. StoreOk(m, TRUE)
  BY <1>2, <1>3, MarkedOk
<1>5. ASSUME NEW c, Truthful(v.log, v.durable, c, A, D, W), Honest(v.s, v.log, v.durable, c, TRUE)
      PROVE  Honest(m, v.log, v.durable, c, TRUE)
  BY <1>3, <1>5, MarkedHonest
<1>6. DiskOk(y, TRUE) /\ SameBut(v, y) /\ y.s = m
  BY <1>5, <1>3, <1>4, WithHonest DEF DiskOk, IsMarked
<1>7. q \in OnStore(y, PersistDiscards(m))
  BY <1>1, <1>2, OnStoreSame
<1> HIDE DEF y
<1>8. \A e \in PersistDiscards(m) : e.ok \in BOOLEAN /\ Quiet(m, e.s)
  BY <1>4, PersistDiscardsIs
<1>9. q.ok \in BOOLEAN /\ DiskOk(q.x, TRUE) /\ SameBut(y, q.x) /\ \E e \in PersistDiscards(m) : q.ok = e.ok /\ q.x.s = e.s
  <2>1. PICK S : S = PersistDiscards(m)
    OBVIOUS
  <2>2. \A e \in S : e.ok \in BOOLEAN /\ Quiet(y.s, e.s)
    BY <1>6, <1>8, <2>1
  <2>3. q \in OnStore(y, S) /\ DiskOk(y, TRUE)
    BY <1>6, <1>7, <2>1
  <2>4. q.ok \in BOOLEAN /\ DiskOk(q.x, TRUE) /\ SameBut(y, q.x) /\ \E e \in S : q.ok = e.ok /\ q.x.s = e.s
    BY <2>2, <2>3, QuietStep
  <2> QED
    BY <2>1, <2>4
<1>10. PICK e \in PersistDiscards(m) : q.ok = e.ok /\ q.x.s = e.s
  BY <1>9
<1>11. /\ q.x.s.shard = m.shard /\ q.x.s.disc = m.disc /\ Quiet(m, q.x.s)
       /\ q.ok => q.x.s.discReg.may = {m.disc}
  BY ZenonT(60), <1>4, <1>10, PersistDiscardsIs
<1>12. SameBut(v, q.x)
  BY <1>6, <1>9, SameButTrans
<1>13. q.x.s.shard = v.s.shard /\ q.x.s.disc = (v.s.disc \cup D) \ W
  BY <1>3, <1>11 DEF IsMarked
<1>14. ASSUME NEW c, Truthful(v.log, v.durable, c, A, D, W), Honest(v.s, v.log, v.durable, c, TRUE)
       PROVE  Honest(q.x.s, v.log, v.durable, c, TRUE)
  BY <1>5, <1>11, <1>14, <1>2, HonestKept DEF Quiet
<1>15. CASE ~q.ok
  BY <1>1, <1>15, <1>9, <1>12, <1>13, <1>14 DEF MapsKept
<1>16. CASE q.ok
  <2>1. r \in OnStore(q.x, PersistAllocations(q.x.s)) /\ StoreOk(q.x.s, TRUE)
    BY <1>1, <1>9, <1>16, DiskIs
  <2>2. DiskOk(q.x, TRUE)
    BY <1>9
  <2>3. r.ok \in BOOLEAN /\ DiskOk(r.x, TRUE) /\ SameBut(q.x, r.x)
    BY <2>1, <2>2, AllocStep
  <2>5. /\ r.x.s.shard = q.x.s.shard /\ r.x.s.disc = q.x.s.disc /\ r.x.s.discReg = q.x.s.discReg
        /\ Quiet(q.x.s, r.x.s)
    BY <2>1, <2>2, AllocStep
  <2>6. SameBut(v, r.x)
    BY <1>12, <2>3, SameButTrans
  <2>7. ASSUME NEW c, Truthful(v.log, v.durable, c, A, D, W), Honest(v.s, v.log, v.durable, c, TRUE)
        PROVE  Honest(r.x.s, v.log, v.durable, c, TRUE)
    BY <1>14, <2>5, <2>7, <1>2, HonestKept DEF Quiet
  <2>8. r.x.s.discReg.may = {r.x.s.disc}
    BY <1>11, <1>16, <2>5
  <2> QED
    BY <1>13, <2>3, <2>5, <2>6, <2>7, <2>8 DEF MapsKept
<1> QED
  BY <1>9, <1>15, <1>16

(* The maps that a plan marks are truthful about every checkpoint that a *)
(* restart may find: none is beyond the horizon. *)
LEMMA PlanUnits ==
    ASSUME NEW log, NEW base, NEW h \in Nat, NEW items \in SUBSET Item, ItemsOk(items, log, base, h)
    PROVE  /\ OfUnits(UnitsOf(Writes(items)), UnitsOf(Discards(items)), UnitsOf(Writes(items)))
           /\ UnitsOf(Writes(items)) \cap UnitsOf(Discards(items)) = {}
  BY ItemIs, ItemsUnique DEF OfUnits, UnitsOf, Writes, Discards

(* The marks of a plan are true of every checkpoint up to its horizon. *)
LEMMA PlanTruthful ==
    ASSUME NEW log, NEW base, NEW h \in Nat, NEW hi \in Nat, h <= hi, NEW items \in SUBSET Item,
           ItemsOk(items, log, base, h), NEW c \in Nat, c <= h
    PROVE  Truthful(log, hi, c, UnitsOf(Writes(items)), UnitsOf(Discards(items)), UnitsOf(Writes(items)))
<1> DEFINE W == UnitsOf(Writes(items))
           D == UnitsOf(Discards(items))
<1>1. W \cap D = {}
  BY PlanUnits
<1> SUFFICES ASSUME NEW u \in W \cup D \cup W
             PROVE  /\ ~NoneOf(log, hi, u)
                    /\ \A m \in 1..hi : LastOf(log, hi, u, m) /\ m <= c =>
                         (u \in W /\ log[m].v # Tombstone) \/ (u \in D \ W /\ log[m].v = Tombstone)
  BY DEF Truthful
<1>2. PICK i \in items : i.unit = u /\ (i \in Writes(items) \/ i \in Discards(items))
  BY DEF UnitsOf, Writes, Discards
<1>3. LastOf(log, h, u, i.ver.n) /\ i.ver.v = log[i.ver.n].v /\ i.ver.n \in Nat
  BY <1>2, ItemIs DEF ItemsOk
<1>4. i.ver.n \in 1..hi /\ log[i.ver.n].unit = u
  BY <1>3 DEF LastOf
<1>5. ~NoneOf(log, hi, u)
  BY <1>4 DEF NoneOf
<1>6. ASSUME NEW m \in 1..hi, LastOf(log, hi, u, m), m <= c
      PROVE  (u \in W /\ log[m].v # Tombstone) \/ (u \in D \ W /\ log[m].v = Tombstone)
  <2>1. m \in Nat /\ m <= h
    BY <1>6
  <2>2. m = i.ver.n
    BY <1>3, <1>6, <2>1, LastUnique
  <2>3. CASE i \in Writes(items)
    BY <1>2, <2>3, <1>3, <2>2 DEF UnitsOf, Writes
  <2>4. CASE i \in Discards(items)
    <3>1. u \in D
      BY <1>2, <2>4 DEF UnitsOf
    <3>2. i.ver.v = Tombstone
      BY <1>2, <2>4 DEF Writes, Discards
    <3> HIDE DEF W, D
    <3> QED
      BY <1>1, <1>3, <2>2, <3>1, <3>2
  <2> QED
    BY <1>2, <2>3, <2>4
<1> QED
  BY <1>5, <1>6

(* The slots of a plan that was synced are on the disk: once the maps are, *)
(* the store is honest about the plan's horizon. *)
MapsDone(v, r, items, h) ==
    /\ r.ok \in BOOLEAN /\ DiskOk(r.x, TRUE) /\ SameBut(v, r.x)
    /\ r.ok => /\ Honest(r.x.s, v.log, v.durable, h, TRUE)
               /\ r.x.s.discReg.may = {r.x.s.disc} /\ UnitsOf(Discards(items)) \subseteq r.x.s.disc

(* The maps of a plan are stored, and the store is honest about its *)
(* horizon. *)
LEMMA MapsPersistedIs ==
    ASSUME NEW v, UpOk(v), NEW p, PlanOk(p, v), p.stage = "finish", BarriersHold(v.s, p.fails),
           NEW r \in MapsPersisted(v, p.items)
    PROVE  MapsDone(v, r, p.items, p.horizon)
<1> DEFINE W == UnitsOf(Writes(p.items))
           D == UnitsOf(Discards(p.items))
<1>1. PICK e \in IF Writes(p.items) = {} THEN {Good(v)} ELSE OnStore(v, EnsureShard(v.s)) :
        r \in IF e.ok THEN MapsStored(e.x, W, D, W) ELSE {e}
  BY DEF MapsPersisted, MapsStored, Marked, Then
<1>2. /\ v \in VolumeType /\ StoreOk(v.s, TRUE) /\ v.durable \in Nat /\ v.ck \in Nat /\ DiskOk(v, TRUE)
      /\ \A c \in v.ckReg.may : c \in Nat
  BY DiskIs DEF UpOk
<1>3. /\ p \in PlanType /\ p.items \in SUBSET Item /\ p.horizon \in Nat /\ p.horizon <= v.durable /\ p.base = v.ck
      /\ ItemsOk(p.items, v.log, v.ck, p.horizon) /\ (\A c \in v.ckReg.may : c <= p.horizon)
      /\ \A i \in Writes(p.items) : v.s.shard.opts[i.unit + 1] = {ItemSlot(i)}
  BY DEF PlanOk, PlanType
<1>4. OfUnits(W, D, W) /\ W \cap D = {}
  BY <1>3, PlanUnits
<1>5. \A c \in v.ckReg.may : Truthful(v.log, v.durable, c, W, D, W)
  BY <1>2, <1>3, PlanTruthful
<1>6. e.ok \in BOOLEAN /\ DiskOk(e.x, TRUE) /\ SameBut(v, e.x) /\ e.x.s.shard = v.s.shard
  <2>1. CASE e = Good(v)
    BY <2>1, <1>2 DEF Good, SameBut
  <2>2. CASE e \in OnStore(v, EnsureShard(v.s))
    BY <1>2, <2>2, EnsureStep
  <2> QED
    BY <1>1, <2>1, <2>2
<1> HIDE DEF W, D
<1>7. CASE ~e.ok
  BY <1>1, <1>6, <1>7 DEF MapsDone
<1>8. CASE e.ok
  <2>1. PICK z : z = e.x
    OBVIOUS
  <2>2. DiskOk(z, TRUE) /\ SameBut(v, z) /\ z.s.shard = v.s.shard /\ r \in MapsStored(z, W, D, W)
    BY <1>1, <1>6, <1>8, <2>1
  <2>3. z.log = v.log /\ z.durable = v.durable /\ z.ck = v.ck /\ z.ckReg = v.ckReg
    BY <2>2 DEF SameBut
  <2>4. \A c \in z.ckReg.may : Truthful(z.log, z.durable, c, W, D, W)
    BY <1>5, <2>3
  <2>5. MapsKept(z, r, W, D, W)
    BY <1>4, <2>2, <2>4, MapsStoredIs
  <2>6. /\ r.ok \in BOOLEAN /\ DiskOk(r.x, TRUE) /\ SameBut(z, r.x) /\ r.x.s.shard = v.s.shard
        /\ r.x.s.disc = (z.s.disc \cup D) \ W
        /\ r.ok => r.x.s.discReg.may = {r.x.s.disc}
    BY <2>2, <2>5 DEF MapsKept
  <2>7. SameBut(v, r.x)
    BY <2>2, <2>6, SameButTrans
  <2>8. D \subseteq r.x.s.disc /\ \A u \in W : u \notin r.x.s.disc
    BY <1>4, <2>6
  <2>9. ASSUME r.ok PROVE Honest(r.x.s, v.log, v.durable, p.horizon, TRUE)
    <3>1. /\ \A i \in Writes(p.items) : i.unit \in W
          /\ \A i \in Discards(p.items) : i.unit \in D
      BY DEF W, D, UnitsOf
    <3>2. Settles(r.x.s, p.items)
      BY <1>3, <2>6, <2>8, <2>9, <3>1 DEF Settles
    <3>3. v.ck \in v.ckReg.may /\ r.x.ckReg = v.ckReg /\ r.x.log = v.log /\ r.x.durable = v.durable
      BY <1>2, <2>7 DEF SameBut, DiskOk, CkOk
    <3>4. Honest(r.x.s, v.log, v.durable, v.ck, TRUE)
      BY <2>6, <3>3 DEF DiskOk
    <3> QED
      BY <1>2, <1>3, <3>2, <3>4, SettledHonest
  <2> QED
    BY <2>6, <2>7, <2>8, <2>9 DEF MapsDone, D
<1> QED
  BY <1>6, <1>7, <1>8

(* The checkpoint state is stored: a restart may find the horizon, and *)
(* only the horizon when the store succeeded. *)
WithReg(v, g) == [v EXCEPT !.ckReg = g]
Advanced(v, h) == [v EXCEPT !.ck = h, !.ckReg = Stored(@, h)]

(* A volume with another checkpoint register. *)
LEMMA WithRegIs ==
    ASSUME NEW v \in VolumeType, NEW g \in [now : Nat, may : SUBSET Nat]
    PROVE  /\ WithReg(v, g) \in VolumeType /\ WithReg(v, g).ckReg = g /\ WithReg(v, g).ck = v.ck
           /\ WithReg(v, g).log = v.log /\ WithReg(v, g).durable = v.durable
           /\ WithReg(v, g).o = v.o /\ WithReg(v, g).s = v.s
  BY DEF WithReg, VolumeType

(* A volume whose checkpoint is advanced. *)
LEMMA AdvancedIs ==
    ASSUME NEW v \in VolumeType, NEW h \in Nat
    PROVE  /\ Advanced(v, h) \in VolumeType /\ Advanced(v, h).ckReg = [now |-> h, may |-> {h}] /\ Advanced(v, h).ck = h
           /\ Advanced(v, h).log = v.log /\ Advanced(v, h).durable = v.durable
           /\ Advanced(v, h).o = v.o /\ Advanced(v, h).s = v.s
  BY DEF Stored, Advanced, VolumeType

(* What it takes for a restart to find checkpoint h. *)
LEMMA ReservedBeyond ==
    ASSUME NEW v, DiskOk(v, TRUE), NEW h \in Nat, v.ck <= h, NEW k \in (h + 1)..Len(v.log), v.log[k].v # Tombstone
    PROVE  v.log[k].unit \in v.s.res
  BY DiskIs DEF DiskOk, CkOk, Reserved

(* A checkpoint state that may be on the disk or not. *)
LEMMA HalfPublished ==
    ASSUME NEW v, DiskOk(v, TRUE), NEW h \in Nat, v.ck <= h, h <= v.durable, Honest(v.s, v.log, v.durable, h, TRUE),
           NEW g \in HalfStored(v.ckReg, h)
    PROVE  /\ DiskOk(WithReg(v, g), TRUE) /\ WithReg(v, g).ck = v.ck /\ WithReg(v, g).log = v.log
           /\ WithReg(v, g).durable = v.durable /\ WithReg(v, g).o = v.o /\ WithReg(v, g).s = v.s
<1> DEFINE w == WithReg(v, g)
<1>1. /\ v \in VolumeType /\ v.ckReg.may \in SUBSET Nat /\ v.ckReg.now \in v.ckReg.may /\ v.ckReg.now \in Nat
      /\ v.ck \in Nat /\ StoreOk(v.s, TRUE)
  BY DiskIs
<1>2. g.may = v.ckReg.may \cup {h} /\ g.now \in {v.ckReg.now, h} /\ g = [now |-> g.now, may |-> g.may]
  BY DEF HalfStored
<1>3. g \in [now : Nat, may : SUBSET Nat] /\ g.now \in g.may
  BY <1>1, <1>2
<1>4. /\ w \in VolumeType /\ w.ckReg = g /\ w.ck = v.ck /\ w.log = v.log /\ w.durable = v.durable /\ w.o = v.o /\ w.s = v.s
  BY <1>1, <1>3, WithRegIs
<1> HIDE DEF w
<1>5. JournalOk(w)
  BY <1>4 DEF DiskOk, JournalOk
<1>6. CkOk(w, TRUE)
  BY <1>2, <1>3, <1>4 DEF DiskOk, CkOk
<1>7. Reserved(w)
  BY ReservedBeyond, <1>2, <1>4 DEF DiskOk, Reserved
<1>8. \A c \in w.ckReg.may : Honest(w.s, w.log, w.durable, c, TRUE)
  BY <1>2, <1>4 DEF DiskOk
<1>9. DiskOk(w, TRUE)
  BY <1>1, <1>4, <1>5, <1>6, <1>7, <1>8 DEF DiskOk
<1> QED
  BY <1>4, <1>9 DEF w

(* A checkpoint state that is on the disk. *)
LEMMA AllPublished ==
    ASSUME NEW v, DiskOk(v, TRUE), NEW h \in Nat, v.ck <= h, h <= v.durable, Honest(v.s, v.log, v.durable, h, TRUE)
    PROVE  /\ DiskOk(Advanced(v, h), TRUE) /\ Advanced(v, h).ck = h /\ Advanced(v, h).ckReg.may = {h}
           /\ Advanced(v, h).log = v.log /\ Advanced(v, h).durable = v.durable /\ Advanced(v, h).o = v.o /\ Advanced(v, h).s = v.s
<1> DEFINE w == Advanced(v, h)
<1>0. h <= h
  OBVIOUS
<1>1. v \in VolumeType /\ v.ck \in Nat /\ StoreOk(v.s, TRUE)
  BY DiskIs
<1>2. /\ w \in VolumeType /\ w.ckReg = [now |-> h, may |-> {h}] /\ w.ck = h /\ w.log = v.log /\ w.durable = v.durable
      /\ w.o = v.o /\ w.s = v.s
  BY <1>1, AdvancedIs
<1> HIDE DEF w
<1>3. w.ckReg.may = {h} /\ w.ckReg.now = h /\ w.ckReg \in [now : Nat, may : SUBSET Nat]
  BY <1>2
<1>4. JournalOk(w)
  BY <1>2 DEF DiskOk, JournalOk
<1>5. CkOk(w, TRUE)
  BY <1>0, <1>1, <1>2, <1>3 DEF CkOk
<1>6. Reserved(w)
  BY ReservedBeyond, <1>2, <1>3 DEF Reserved
<1>7. \A c \in w.ckReg.may : Honest(w.s, w.log, w.durable, c, TRUE)
  BY <1>2, <1>3
<1>8. DiskOk(w, TRUE)
  BY <1>1, <1>2, <1>4, <1>5, <1>6, <1>7 DEF DiskOk
<1> QED
  BY <1>2, <1>3, <1>8 DEF w

(* Both outcomes of publishing a checkpoint state. *)
LEMMA StatePublishedIs ==
    ASSUME NEW v, DiskOk(v, TRUE), NEW h \in Nat, v.ck <= h, h <= v.durable, Honest(v.s, v.log, v.durable, h, TRUE),
           NEW r \in StatePublished(v, h)
    PROVE  /\ r.ok \in BOOLEAN /\ DiskOk(r.x, TRUE)
           /\ r.x.log = v.log /\ r.x.durable = v.durable /\ r.x.o = v.o /\ r.x.s = v.s
           /\ ~r.ok => r.x.ck = v.ck
           /\ r.ok => r.x.ck = h /\ r.x.ckReg.may = {h}
<1>1. CASE \E g \in HalfStored(v.ckReg, h) : r = Bad([v EXCEPT !.ckReg = g])
  <2>1. PICK g \in HalfStored(v.ckReg, h) : r = Bad([v EXCEPT !.ckReg = g])
    BY <1>1
  <2>2. r.ok = FALSE /\ r.x = WithReg(v, g)
    BY <2>1 DEF Bad, WithReg
  <2>3. /\ DiskOk(WithReg(v, g), TRUE) /\ WithReg(v, g).ck = v.ck /\ WithReg(v, g).log = v.log
        /\ WithReg(v, g).durable = v.durable /\ WithReg(v, g).o = v.o /\ WithReg(v, g).s = v.s
    BY <2>1, HalfPublished
  <2> QED
    BY <2>2, <2>3
<1>2. CASE r = Good(Advanced(v, h))
  BY <1>2, AllPublished DEF Good
<1> QED
  BY <1>1, <1>2 DEF StatePublished, Advanced

(* A slot that is punched has no newer record, which would need it. *)
LEMMA PunchableIs ==
    ASSUME NEW v, UpOk(v), NEW p, PlanOk(p, v), NEW u \in Punchable(v, p.items)
    PROVE  u \in UnitsOf(Discards(p.items)) /\ \A k \in (p.horizon + 1)..Len(v.log) : v.log[k].unit # u
<1>1. PICK i \in Discards(p.items) : i.unit = u /\ (~Held(v.o, i.unit) \/ v.o.latest[i.unit].n <= i.ver.n)
  BY DEF Punchable
<1>2. u \in UnitsOf(Discards(p.items))
  BY <1>1 DEF UnitsOf
<1>3. i \in p.items /\ p.items \in SUBSET Item /\ p.horizon \in Nat /\ p.base = v.ck /\ (\A c \in v.ckReg.may : c <= p.horizon)
  BY <1>1 DEF Discards, PlanOk, PlanType
<1>4. LastOf(v.log, p.horizon, i.unit, i.ver.n)
  BY <1>3 DEF PlanOk, ItemsOk
<1>5. i.unit \in Unit /\ i.ver.n \in Nat
  BY <1>3, ItemIs
<1>6. i.ver.n <= p.horizon
  BY <1>3, <1>4, <1>5 DEF LastOf
<1>7. v.ck \in Nat /\ v.ck <= p.horizon /\ Len(v.log) \in Nat
  BY <1>3, DiskIs DEF UpOk, DiskOk, CkOk
<1>8. HoldsLatest(v.o, v.log, v.ck, u)
  BY <1>1, <1>5, OverlayHolds DEF UpOk
<1>9. v.o.latest[u].n \in Nat
  BY <1>1, <1>5, OverlayIs DEF UpOk, OverlayOk
<1>10. ASSUME NEW k \in (p.horizon + 1)..Len(v.log), v.log[k].unit = u PROVE FALSE
  <2>1. k \in (v.ck + 1)..Len(v.log) /\ k > p.horizon
    BY <1>3, <1>7
  <2>2. Held(v.o, u)
    BY <1>8, <1>10, <2>1 DEF HoldsLatest
  <2>3. LastOf(v.log, Len(v.log), u, v.o.latest[u].n)
    BY <1>8, <2>2 DEF HoldsLatest
  <2>4. v.o.latest[u].n <= p.horizon
    BY <1>1, <1>3, <1>5, <1>6, <1>9, <2>2
  <2>5. k \in (v.o.latest[u].n + 1)..Len(v.log)
    BY <1>3, <1>9, <2>1, <2>4
  <2> QED
    BY <1>10, <2>3, <2>5 DEF LastOf
<1> QED
  BY <1>2, <1>10

(* Unreserved units: no write of theirs is beyond the checkpoint. *)
Spent(v, U) == \A k \in (v.ck + 1)..Len(v.log) : v.log[k].unit \notin U

(* Slots of spent units are punched. *)
LEMMA PunchedUp ==
    ASSUME NEW v, UpOk(v), v.ckReg.may = {v.ck}, v.s.discReg.may = {v.s.disc}, NEW U \in SUBSET v.s.disc, Spent(v, U),
           NEW e \in PunchSlots(v.s, U), NEW t, t = IF e.ok THEN e.s ELSE ScheduleReclamation(e.s)
    PROVE  e.ok \in BOOLEAN /\ UpOk(WithStore(v, t)) /\ SameBut(v, WithStore(v, t))
<1>1. v \in VolumeType /\ StoreOk(v.s, TRUE)
  BY DiskIs DEF UpOk
<1>2. e.ok \in BOOLEAN /\ Punches(v.s, e.s, U)
  BY <1>1, PunchSlotsIs
<1>3. StoreOk(e.s, TRUE) /\ Keeps(v.s, e.s, TRUE, TRUE) /\ v.s.res \ U \subseteq e.s.res
  BY <1>2 DEF Punches
<1>4. StoreOk(t, TRUE) /\ Keeps(v.s, t, TRUE, TRUE) /\ v.s.res \ U \subseteq t.res
  BY <1>3, ScheduleReclamationIs, KeepsTrans
<1>5. \A c \in v.ckReg.may : \A k \in (c + 1)..Len(v.log) : v.log[k].v # Tombstone => v.log[k].unit \in t.res
  BY <1>4 DEF UpOk, DiskOk, Reserved, Spent
<1>6. UpOk(WithStore(v, t))
  BY <1>4, <1>5, WithStoreUp
<1>7. t \in StoreType
  BY <1>4 DEF StoreOk
<1>8. SameBut(v, WithStore(v, t))
  BY <1>1, <1>7, WithStoreIs DEF SameBut
<1> QED
  BY <1>2, <1>6, <1>8

(* What a checkpoint does after its state is on the disk. *)
LEMMA ReclaimedIs ==
    ASSUME NEW v, UpOk(v), v.ckReg.may = {v.ck}, v.s.discReg.may = {v.s.disc}, NEW U \in SUBSET v.s.disc, Spent(v, U),
           NEW h, h = v.ck, NEW r \in Reclaimed(v, h, U)
    PROVE  Finished(v, r)
<1> DEFINE T(e) == IF e.ok THEN e.s ELSE ScheduleReclamation(e.s)
           Z(e) == Retired(WithStore(v, T(e)), h)
           R(e) == IF e.ok THEN Swallowed(Z(e), RetryReclamation(Z(e).s, Idle(Z(e)))) ELSE {Good(Z(e))}
<1>0. PICK e \in PunchSlots(v.s, U) : r \in Then(Pruned(WithStore(v, T(e))), LAMBDA q : R(e))
  BY ZenonT(60) DEF Reclaimed, WithStore, Retired
<1>1. \E q \in Pruned(WithStore(v, T(e))) : r \in IF q.ok THEN R(e) ELSE {q}
  <2> HIDE DEF R, T
  <2> QED
    BY <1>0 DEF Then
<1>2. PICK t : t = T(e)
  OBVIOUS
<1>3. e.ok \in BOOLEAN /\ UpOk(WithStore(v, t)) /\ SameBut(v, WithStore(v, t))
  BY <1>2, PunchedUp
<1>4. PICK w : w = WithStore(v, t)
  OBVIOUS
<1>5. UpOk(w) /\ w.log = v.log /\ w.durable = v.durable /\ w.ck = h /\ w.ckReg.may = {h}
  BY <1>3, <1>4 DEF SameBut
<1>6. PICK z : z = Retired(w, h)
  OBVIOUS
<1>7. UpOk(z) /\ z.log = v.log /\ z.durable = v.durable /\ z.ckReg.may = {z.ck}
  BY <1>5, <1>6, RetiredOk
<1>8. WithStore(v, T(e)) = w /\ Z(e) = z
  BY <1>2, <1>4, <1>6
<1> HIDE DEF Z, T
<1>9. PICK q \in Pruned(w) :
        r \in IF q.ok THEN IF e.ok THEN Swallowed(z, RetryReclamation(z.s, Idle(z))) ELSE {Good(z)} ELSE {q}
  BY <1>1, <1>8
<1>10. q.ok \in BOOLEAN /\ q.x = w
  BY <1>9, PrunedIs
<1>11. CASE ~q.ok
  BY <1>5, <1>9, <1>10, <1>11 DEF Finished
<1>12. CASE q.ok /\ e.ok
  BY <1>9, <1>12, <1>7, ReclaimedOk, FinishedTrans
<1>13. CASE q.ok /\ ~e.ok
  <2>1. r = Good(z)
    BY <1>9, <1>13
  <2>2. r.ok = TRUE /\ r.x = z
    BY <2>1 DEF Good
  <2> QED
    BY <1>7, <2>2 DEF Finished
<1> QED
  BY <1>3, <1>10, <1>11, <1>12, <1>13

(* finish_checkpoint leaves a volume that is up, with the same journal. *)
LEMMA FinishOutcomesIs ==
    ASSUME NEW v, UpOk(v), NEW p, PlanOk(p, v), p.stage = "finish", NEW r \in FinishOutcomes(v, p)
    PROVE  Finished(v, r)
<1>1. /\ v.ck \in Nat /\ v.durable \in Nat /\ v.log \in Seq(Records) /\ v.ckReg.may \in SUBSET Nat
      /\ v.ck \in v.ckReg.may /\ (\A c \in v.ckReg.may : v.ck <= c /\ c \in Nat) /\ Len(v.log) \in Nat
  BY DiskIs DEF UpOk, DiskOk, CkOk
<1>2. /\ p.base = v.ck /\ p.horizon \in Nat /\ p.horizon <= v.durable /\ \A c \in v.ckReg.may : c <= p.horizon
  BY DEF PlanOk, PlanType
<1>3. CASE r = Bad(v)
  BY <1>3 DEF Bad, Finished
<1>4. CASE p.horizon <= p.base /\ r \in FinishIdle(v, p.base)
  BY <1>1, <1>2, <1>4, FinishIdleIs
<1>5. CASE /\ BarriersHold(v.s, p.fails) /\ p.horizon > p.base
           /\ r \in Then(MapsPersisted(v, p.items), LAMBDA e :
                     Then(StatePublished(e.x, p.horizon), LAMBDA q : Reclaimed(q.x, p.horizon, Punchable(v, p.items))))
  <2>1. PICK e \in MapsPersisted(v, p.items) :
          r \in IF e.ok THEN Then(StatePublished(e.x, p.horizon), LAMBDA q : Reclaimed(q.x, p.horizon, Punchable(v, p.items)))
                ELSE {e}
    BY <1>5 DEF Then
  <2>2. MapsDone(v, e, p.items, p.horizon)
    BY <1>5, MapsPersistedIs
  <2>3. PICK y : y = e.x
    OBVIOUS
  <2>4. e.ok \in BOOLEAN /\ DiskOk(y, TRUE) /\ SameBut(v, y)
    BY <2>2, <2>3 DEF MapsDone
  <2>5. UpOk(y)
    BY <2>4, SameButUp
  <2>6. y.log = v.log /\ y.durable = v.durable /\ y.o = v.o /\ y.ck = v.ck /\ y.ckReg = v.ckReg
    BY <2>4 DEF SameBut
  <2>7. CASE ~e.ok
    BY <2>1, <2>3, <2>4, <2>5, <2>6, <2>7 DEF Finished
  <2>8. CASE e.ok
    <3>1. /\ Honest(y.s, y.log, y.durable, p.horizon, TRUE) /\ y.s.discReg.may = {y.s.disc}
          /\ UnitsOf(Discards(p.items)) \subseteq y.s.disc
      BY <2>2, <2>3, <2>6, <2>8 DEF MapsDone
    <3>2. PICK q \in StatePublished(y, p.horizon) :
            r \in IF q.ok THEN Reclaimed(q.x, p.horizon, Punchable(v, p.items)) ELSE {q}
      BY <2>1, <2>3, <2>8 DEF Then
    <3>3. y.ck <= p.horizon /\ p.horizon <= y.durable
      BY <1>1, <1>2, <2>6
    <3>4. /\ q.ok \in BOOLEAN /\ DiskOk(q.x, TRUE)
          /\ q.x.log = y.log /\ q.x.durable = y.durable /\ q.x.o = y.o /\ q.x.s = y.s
          /\ ~q.ok => q.x.ck = y.ck
          /\ q.ok => q.x.ck = p.horizon /\ q.x.ckReg.may = {p.horizon}
      BY <1>2, <2>4, <3>1, <3>2, <3>3, StatePublishedIs
    <3>5. OverlayOk(v.o, v.log, v.durable, v.ck)
      BY DEF UpOk
    <3>6. OverlayOk(v.o, v.log, v.durable, p.horizon)
      BY <2>6, <3>3, <1>1, <1>2, <3>5, OverlayCovered
    <3>7. UpOk(q.x)
      BY <2>6, <3>4, <3>5, <3>6 DEF UpOk
    <3>8. CASE ~q.ok
      BY <2>6, <3>2, <3>4, <3>7, <3>8 DEF Finished
    <3>9. CASE q.ok
      <4>1. PICK z : z = q.x
        OBVIOUS
      <4>2. PICK U : U = Punchable(v, p.items)
        OBVIOUS
      <4>3. UpOk(z) /\ z.ck = p.horizon /\ z.ckReg.may = {z.ck} /\ z.log = v.log /\ z.durable = v.durable /\ z.s = y.s
        BY <2>6, <3>4, <3>7, <3>9, <4>1
      <4>4. \A u \in U : u \in UnitsOf(Discards(p.items)) /\ \A k \in (p.horizon + 1)..Len(v.log) : v.log[k].unit # u
        BY <4>2, PunchableIs
      <4>5. U \in SUBSET z.s.disc /\ z.s.discReg.may = {z.s.disc}
        BY <3>1, <4>3, <4>4
      <4>6. Spent(z, U)
        BY <4>3, <4>4 DEF Spent
      <4>7. r \in Reclaimed(z, p.horizon, U)
        BY <3>2, <3>9, <4>1, <4>2
      <4>8. Finished(z, r)
        BY <4>3, <4>5, <4>6, <4>7, ReclaimedIs
      <4> QED
        BY <4>3, <4>8, FinishedTrans
    <3> QED
      BY <3>4, <3>8, <3>9
  <2> QED
    BY <2>4, <2>7, <2>8
<1> QED
  BY <1>1, <1>2, <1>3, <1>4, <1>5 DEF FinishOutcomes

-----------------------------------------------------------------------------
(* The end of a process, power loss and the page cache. *)

(* The empty overlay is an overlay. *)
LEMMA EmptyTyped == EmptyOverlay \in OverlayType
  BY NoVersionIs DEF EmptyOverlay, OverlayType

(* A process ends: its files are as they were. *)
LEMMA DeadOk ==
    ASSUME NEW v, NEW l \in BOOLEAN, DiskOk(v, l)
    PROVE  /\ DiskOk(Dead(v), FALSE) /\ Dead(v).log = v.log /\ Dead(v).durable = v.durable
           /\ Dead(v).ckReg = v.ckReg /\ Dead(v).s = Closed(v.s)
<1> DEFINE w == Dead(v)
<1>1. /\ v \in VolumeType /\ StoreOk(v.s, l) /\ v.log \in Seq(Records) /\ v.durable \in Nat /\ v.durable <= Len(v.log)
  BY DiskIs
<1>2. StoreOk(Closed(v.s), FALSE) /\ Keeps(v.s, Closed(v.s), l, FALSE) /\ Closed(v.s).res = v.s.res
  BY <1>1, ClosedIs
<1>3. EmptyOverlay \in OverlayType
  BY EmptyTyped
<1>4. Closed(v.s) \in StoreType
  BY <1>2 DEF StoreOk
<1>5. w \in VolumeType /\ w.ck = 0
  BY <1>1, <1>3, <1>4 DEF Dead, VolumeType
<1>6. w.log = v.log /\ w.durable = v.durable /\ w.ckReg = v.ckReg /\ w.s = Closed(v.s)
  BY <1>1 DEF Dead, VolumeType
<1> HIDE DEF w
<1>7. JournalOk(w) /\ Reserved(w)
  BY <1>2, <1>6 DEF DiskOk, JournalOk, Reserved
<1>8. CkOk(w, FALSE)
  BY <1>1, <1>5, <1>6 DEF DiskOk, CkOk
<1>9. ASSUME NEW c \in w.ckReg.may PROVE Honest(w.s, w.log, w.durable, c, FALSE)
  BY <1>6, <1>1, <1>2, HonestKept DEF DiskOk
<1>10. DiskOk(w, FALSE)
  BY <1>2, <1>5, <1>6, <1>7, <1>8, <1>9 DEF DiskOk
<1> QED
  BY <1>6, <1>10 DEF w

(* A power loss. *)
Lost(v, t, c) == [Dead(v) EXCEPT !.s = t, !.ckReg = Stored(@, c)]

(* A power loss leaves a disk in order. *)
LEMMA LostOk ==
    ASSUME NEW v, NEW l \in BOOLEAN, DiskOk(v, l), NEW t \in StoreSurvivors(v.s), NEW c \in v.ckReg.may
    PROVE  DiskOk(Lost(v, t, c), FALSE) /\ Lost(v, t, c).log = v.log /\ Lost(v, t, c).durable = v.durable
<1> DEFINE w == Lost(v, t, c)
<1>1. /\ v \in VolumeType /\ StoreOk(v.s, l) /\ v.log \in Seq(Records) /\ v.durable \in Nat /\ v.durable <= Len(v.log)
      /\ c \in Nat /\ c <= v.durable
  BY DiskIs
<1>2. DiskOk(Dead(v), FALSE) /\ Dead(v).log = v.log /\ Dead(v).durable = v.durable
  BY DeadOk
<1>3. Dead(v) \in VolumeType /\ Dead(v).ck \in Nat /\ Dead(v).ck <= v.durable
  BY <1>2, DiskIs
<1>4. StoreOk(t, FALSE) /\ Keeps(v.s, t, l, FALSE) /\ t.res = v.s.res
  BY <1>1, StoreSurvivorsIs
<1>5. t \in StoreType
  BY <1>4 DEF StoreOk
<1>6. Stored(Dead(v).ckReg, c) = [now |-> c, may |-> {c}] /\ [now |-> c, may |-> {c}] \in [now : Nat, may : SUBSET Nat]
  BY <1>1 DEF Stored
<1>7. w = [Dead(v) EXCEPT !.s = t, !.ckReg = [now |-> c, may |-> {c}]]
  BY <1>6 DEF Lost
<1>8. w \in VolumeType
  BY <1>3, <1>5, <1>6, <1>7 DEF VolumeType
<1>9. w.log = v.log /\ w.durable = v.durable /\ w.s = t /\ w.ckReg = [now |-> c, may |-> {c}] /\ w.ck = Dead(v).ck
  BY <1>2, <1>3, <1>7 DEF VolumeType
<1> HIDE DEF w
<1>10. w.ckReg.may = {c} /\ w.ckReg.now = c
  BY <1>9
<1>11. JournalOk(w) /\ Reserved(w)
  BY <1>4, <1>9, <1>10 DEF DiskOk, JournalOk, Reserved
<1>12. CkOk(w, FALSE)
  BY <1>1, <1>3, <1>6, <1>9, <1>10 DEF CkOk
<1>13. Honest(t, v.log, v.durable, c, FALSE)
  BY <1>1, <1>4, HonestKept DEF DiskOk
<1>14. \A d \in w.ckReg.may : Honest(w.s, w.log, w.durable, d, FALSE)
  BY <1>9, <1>10, <1>13
<1>15. DiskOk(w, FALSE)
  BY <1>4, <1>8, <1>9, <1>11, <1>12, <1>14 DEF DiskOk
<1> QED
  BY <1>9, <1>15 DEF w

(* The page cache drops clean cells of the shard. *)
OnShard(v, g) == WithStore(v, WithShard(v.s, g))

(* An eviction leaves a disk in order. *)
LEMMA DroppedOk ==
    ASSUME NEW v, NEW l \in BOOLEAN, DiskOk(v, l), NEW g \in Evicted(v.s.shard)
    PROVE  /\ DiskOk(OnShard(v, g), l) /\ SameBut(v, OnShard(v, g)) /\ Keeps(v.s, OnShard(v, g).s, l, l)
           /\ OnShard(v, g).s.shard = g /\ OnShard(v, g).s.fails = v.s.fails
<1> DEFINE t == WithShard(v.s, g)
           w == WithStore(v, t)
<1>1. /\ v \in VolumeType /\ StoreOk(v.s, l) /\ v.s \in StoreType /\ v.log \in Seq(Records)
      /\ v.durable \in Nat /\ v.durable <= Len(v.log)
  BY DiskIs
<1>2. FileOk(v.s.shard)
  BY <1>1 DEF StoreOk
<1>3. FileOk(g) /\ Certain(v.s.shard, g)
  BY <1>2, EvictedFile
<1>4. /\ t \in StoreType /\ t.shard = g /\ t.res = v.s.res /\ t.disc = v.s.disc /\ t.discReg = v.s.discReg
      /\ t.discDirty = v.s.discDirty /\ t.alloc = v.s.alloc /\ t.allocReg = v.s.allocReg /\ t.fails = v.s.fails
  BY <1>1, <1>3, WithShardIs DEF FileOk
<1> HIDE DEF t
<1>5. StoreOk(t, l) /\ Keeps(v.s, t, l, l)
  BY <1>1, <1>3, <1>4, ShardKept
<1>6. w \in VolumeType /\ w.s = t /\ SameBut(v, w)
  BY <1>1, <1>4, WithStoreIs DEF SameBut
<1> HIDE DEF w
<1>7. JournalOk(w) /\ CkOk(w, l) /\ Reserved(w)
  BY <1>4, <1>6 DEF DiskOk, JournalOk, CkOk, Reserved, SameBut
<1>8. ASSUME NEW c \in v.ckReg.may PROVE Honest(t, v.log, v.durable, c, l)
  BY <1>1, <1>5, HonestKept DEF DiskOk
<1>9. DiskOk(w, l)
  BY <1>5, <1>6, <1>7, <1>8 DEF DiskOk, SameBut
<1> QED
  BY <1>4, <1>5, <1>6, <1>9 DEF w, t, OnShard

(* What a plan has written stays in place. *)
LEMMA DroppedPlan ==
    ASSUME NEW v, UpOk(v), NEW g \in Evicted(v.s.shard), NEW p, PlanOk(p, v)
    PROVE  PlanOk(p, OnShard(v, g))
<1> DEFINE w == OnShard(v, g)
<1>1. DiskOk(v, TRUE)
  BY DEF UpOk
<1>2. SameBut(v, w) /\ w.s.shard = g /\ w.s.fails = v.s.fails
  BY <1>1, DroppedOk
<1>3. FileOk(v.s.shard)
  BY <1>1, DiskIs DEF StoreOk
<1>4. /\ FileOk(g) /\ Certain(v.s.shard, g) /\ g.dirty = v.s.shard.dirty
      /\ \A j \in Pos : j \in v.s.shard.dirty => g.data[j] = v.s.shard.data[j]
  BY <1>3, EvictedFile
<1> HIDE DEF w
<1>5. p \in PlanType /\ p.items \in SUBSET Item
  BY DEF PlanOk, PlanType
<1>6. ASSUME NEW i \in Writes(p.items)
      PROVE  /\ v.s.shard.opts[i.unit + 1] = {ItemSlot(i)} => g.opts[i.unit + 1] = {ItemSlot(i)}
             /\ InPlace(v.s.shard, i) => InPlace(g, i)
  <2>1. i.unit + 1 \in Pos /\ ItemSlot(i) \in Cell
    BY <1>5, ItemIs DEF Writes
  <2>2. v.s.shard.opts[i.unit + 1] = {ItemSlot(i)} => g.opts[i.unit + 1] = {ItemSlot(i)}
    BY <1>4, <2>1 DEF Certain
  <2>3. g.opts[i.unit + 1] = {ItemSlot(i)} => g.data[i.unit + 1] = ItemSlot(i)
    BY <1>4, <2>1, FileIs
  <2> QED
    BY <1>4, <2>1, <2>2, <2>3 DEF InPlace
<1>7. BarriersHold(w.s, p.fails) => BarriersHold(v.s, p.fails)
  BY <1>2 DEF BarriersHold
<1>8. /\ p.base = w.ck /\ p.horizon <= w.durable /\ p.todo \subseteq Writes(p.items)
      /\ (\A c \in w.ckReg.may : c <= p.horizon) /\ ItemsOk(p.items, w.log, p.base, p.horizon)
      /\ p.fails <= w.s.fails /\ (p.stage = "finish" => p.todo = {})
  BY <1>2 DEF PlanOk, SameBut
<1>9. BarriersHold(w.s, p.fails) =>
        /\ \A i \in Writes(p.items) \ p.todo : InPlace(w.s.shard, i)
        /\ p.stage = "finish" => \A i \in Writes(p.items) : w.s.shard.opts[i.unit + 1] = {ItemSlot(i)}
  <2> SUFFICES ASSUME BarriersHold(v.s, p.fails)
               PROVE  /\ \A i \in Writes(p.items) \ p.todo : InPlace(g, i)
                      /\ p.stage = "finish" => \A i \in Writes(p.items) : g.opts[i.unit + 1] = {ItemSlot(i)}
    BY <1>2, <1>7
  <2>1. /\ \A i \in Writes(p.items) \ p.todo : InPlace(v.s.shard, i)
        /\ p.stage = "finish" => \A i \in Writes(p.items) : v.s.shard.opts[i.unit + 1] = {ItemSlot(i)}
    BY DEF PlanOk
  <2> QED
    BY <1>6, <2>1
<1>10. PlanOk(p, w)
  BY <1>5, <1>8, <1>9 DEF PlanOk
<1> QED
  BY <1>10 DEF w

-----------------------------------------------------------------------------
(* Attach. *)

Opened(v, n, t) ==
    [v EXCEPT !.log = SubSeq(@, 1, n), !.durable = n, !.s = t, !.ck = v.ckReg.now, !.ckReg = Stored(@, v.ckReg.now)]

IsOpened(w, v, n) ==
    /\ DiskOk(w, TRUE) /\ w.log = SubSeq(v.log, 1, n) /\ w.durable = n /\ Len(w.log) = n
    /\ w.ck = v.ckReg.now /\ w.ckReg.may = {v.ckReg.now}

(* The journal's surviving prefix is adopted. *)
LEMMA OpenedOk ==
    ASSUME NEW v, DiskOk(v, FALSE), NEW n \in v.durable..Len(v.log), NEW t \in OpenStore(v.s)
    PROVE  IsOpened(Opened(v, n, t), v, n)
<1> DEFINE c == v.ckReg.now
           w == Opened(v, n, t)
           L == SubSeq(v.log, 1, n)
<1>1. /\ v \in VolumeType /\ StoreOk(v.s, FALSE) /\ v.log \in Seq(Records) /\ v.durable \in Nat /\ v.durable <= Len(v.log)
      /\ c \in Nat /\ c \in v.ckReg.may /\ c <= v.durable /\ Len(v.log) \in Nat /\ Len(v.log) <= MaxRecords
  BY DiskIs
<1>2. n \in Nat /\ v.durable <= n /\ n <= Len(v.log) /\ c <= n /\ n <= MaxRecords
  BY <1>1, Consts
<1>3. L \in Seq(Records) /\ Len(L) = n /\ \A k \in 1..n : L[k] = v.log[k]
  BY <1>1, <1>2
<1>4. StoreOk(t, TRUE) /\ Keeps(v.s, t, FALSE, TRUE) /\ t.res = v.s.res
  BY <1>1, OpenStoreIs
<1>5. t \in StoreType
  BY <1>4 DEF StoreOk
<1>6. Stored(v.ckReg, c) = [now |-> c, may |-> {c}] /\ [now |-> c, may |-> {c}] \in [now : Nat, may : SUBSET Nat]
  BY <1>1 DEF Stored
<1>7. w = [v EXCEPT !.log = L, !.durable = n, !.s = t, !.ck = c, !.ckReg = [now |-> c, may |-> {c}]]
  BY <1>6 DEF Opened
<1> HIDE DEF L, c, w
<1>8. w \in VolumeType
  BY <1>1, <1>2, <1>3, <1>5, <1>6, <1>7 DEF VolumeType
<1>9. w.log = L /\ w.durable = n /\ w.s = t /\ w.ck = c /\ w.ckReg = [now |-> c, may |-> {c}]
  BY <1>1, <1>7 DEF VolumeType
<1>10. w.ckReg.may = {c} /\ w.ckReg.now = c
  BY <1>9
<1>11. JournalOk(w)
  BY <1>2, <1>3, <1>9 DEF JournalOk
<1>12. CkOk(w, TRUE)
  BY <1>1, <1>2, <1>6, <1>9, <1>10 DEF CkOk
<1>13. Reserved(w)
  <2>1. ASSUME NEW k \in (c + 1)..n, L[k].v # Tombstone PROVE L[k].unit \in t.res
    BY <1>1, <1>2, <1>3, <1>4, <2>1 DEF DiskOk, Reserved
  <2> QED
    BY <1>3, <1>9, <1>10, <2>1 DEF Reserved
<1>14. Honest(t, L, n, c, TRUE)
  <2>1. Honest(v.s, v.log, v.durable, c, FALSE)
    BY <1>1 DEF DiskOk
  <2>2. Honest(t, v.log, v.durable, c, TRUE)
    BY <1>1, <1>4, <2>1, HonestKept
  <2>3. \A k \in 1..v.durable : L[k] = v.log[k]
    BY <1>1, <1>2, <1>3
  <2> QED
    BY <1>1, <1>2, <2>2, <2>3, HonestGrows
<1>15. \A d \in w.ckReg.may : Honest(w.s, w.log, w.durable, d, TRUE)
  BY <1>9, <1>10, <1>14
<1>16. DiskOk(w, TRUE)
  BY <1>4, <1>8, <1>9, <1>11, <1>12, <1>13, <1>15 DEF DiskOk
<1>17. IsOpened(w, v, n)
  BY <1>3, <1>9, <1>10, <1>16 DEF L, c, IsOpened
<1> QED
  BY <1>17 DEF w

(* The last records of a batch are its items. *)
LEMMA LatestIs ==
    ASSUME NEW log \in Seq(Records), NEW a \in Nat, NEW to \in Nat, to <= Len(log)
    PROVE  Latest(log, a + 1, to) \in SUBSET Item /\ ItemsOk(Latest(log, a + 1, to), log, a, to)
<1> DEFINE items == Latest(log, a + 1, to)
<1>1. ASSUME NEW i \in items PROVE i \in Item /\ LastOf(log, to, i.unit, i.ver.n) /\ i.ver.v = log[i.ver.n].v
  BY RecordIs DEF Latest, Version, Item, LastOf
<1>2. ASSUME NEW k \in (a + 1)..to PROVE \E i \in items : i.unit = log[k].unit
  <2>1. k \in 1..to /\ k \in Nat
    OBVIOUS
  <2>2. ~NoneOf(log, to, log[k].unit)
    BY <2>1 DEF NoneOf
  <2>3. PICK n \in 1..to : LastOf(log, to, log[k].unit, n)
    BY <2>2, LastExists
  <2>4. n \in Nat /\ n <= to /\ log[n].unit = log[k].unit /\ \A j \in (n + 1)..to : log[j].unit # log[k].unit
    BY <2>3 DEF LastOf
  <2>5. k <= n
    BY <2>1, <2>4
  <2>6. n \in {j \in (a + 1)..to : \A m \in (j + 1)..to : log[m].unit # log[j].unit}
    BY <2>1, <2>4, <2>5
  <2>7. [unit |-> log[n].unit, ver |-> [n |-> n, v |-> log[n].v]] \in items
    BY <2>6 DEF Latest
  <2> QED
    BY <2>4, <2>7
<1> HIDE DEF items
<1>3. items \in SUBSET Item /\ ItemsOk(items, log, a, to)
  BY <1>1, <1>2 DEF ItemsOk
<1> QED
  BY <1>3 DEF items

(* Units with a record beyond c: the checkpoint covers nothing of them. *)
Beyond(log, hi, c, U) == \A u \in U : \E k \in (c + 1)..hi : log[k].unit = u

(* A unit with a record beyond the checkpoint: the store owes nothing of *)
(* it. *)
LEMMA BeyondIs ==
    ASSUME NEW log, NEW hi \in Nat, NEW c \in Nat, NEW U, Beyond(log, hi, c, U), NEW u \in U
    PROVE  ~NoneOf(log, hi, u) /\ \A m \in 1..hi : LastOf(log, hi, u, m) => ~(m <= c)
  BY DEF Beyond, NoneOf, LastOf

(* The same for a set of units whose slots change. *)
LEMMA BeyondSpared ==
    ASSUME NEW log, NEW hi \in Nat, NEW c \in Nat, NEW U, Beyond(log, hi, c, U)
    PROVE  \A s, t : Spared(s, t, U, log, hi, c)
  BY BeyondIs DEF Spared

(* The same for units that are marked in the maps. *)
LEMMA BeyondTruthful ==
    ASSUME NEW log, NEW hi \in Nat, NEW c \in Nat, NEW A, NEW D, NEW W, Beyond(log, hi, c, A \cup D \cup W)
    PROVE  Truthful(log, hi, c, A, D, W)
  BY BeyondIs DEF Truthful

(* Slots of units beyond every checkpoint a restart may find are written. *)
LEMMA ShardChanged ==
    ASSUME NEW v, DiskOk(v, TRUE), NEW g, FileOk(g), NEW U,
           \A u \in Unit \ U : g.opts[u + 1] = v.s.shard.opts[u + 1],
           \A c \in v.ckReg.may : Beyond(v.log, v.durable, c, U)
    PROVE  /\ DiskOk(OnShard(v, g), TRUE) /\ SameBut(v, OnShard(v, g)) /\ OnShard(v, g).s.shard = g
           /\ \A c \in Nat : Beyond(v.log, v.durable, c, U) /\ Honest(v.s, v.log, v.durable, c, TRUE)
                => Honest(OnShard(v, g).s, v.log, v.durable, c, TRUE)
<1> DEFINE t == WithShard(v.s, g)
           w == WithStore(v, t)
<1>1. v \in VolumeType /\ StoreOk(v.s, TRUE) /\ v.s \in StoreType /\ v.durable \in Nat /\ \A c \in v.ckReg.may : c \in Nat
  BY DiskIs
<1>2. /\ t \in StoreType /\ t.shard = g /\ t.res = v.s.res /\ t.disc = v.s.disc /\ t.discReg = v.s.discReg
      /\ t.discDirty = v.s.discDirty /\ t.alloc = v.s.alloc /\ t.allocReg = v.s.allocReg
  BY <1>1, WithShardIs DEF FileOk
<1> HIDE DEF t
<1>3. StoreOk(t, TRUE)
  BY <1>1, <1>2 DEF StoreOk
<1>4. Untouched(v.s, t, U)
  BY <1>2 DEF Untouched
<1>5. ASSUME NEW c \in Nat, Beyond(v.log, v.durable, c, U), Honest(v.s, v.log, v.durable, c, TRUE)
      PROVE  Honest(t, v.log, v.durable, c, TRUE)
  BY <1>1, <1>5, BeyondSpared, <1>4, Overwritten
<1>6. \A c \in v.ckReg.may : Honest(t, v.log, v.durable, c, TRUE)
  BY <1>1, <1>5 DEF DiskOk
<1>7. v.s.res \subseteq t.res
  BY <1>2
<1>8. DiskOk(w, TRUE) /\ SameBut(v, w) /\ w.s = t
  BY <1>3, <1>6, <1>7, WithHonest
<1> HIDE DEF w
<1> QED
  BY <1>2, <1>5, <1>8 DEF w, t, OnShard

(* The slots of a batch that are written, all of them or some and a torn *)
(* one. *)
SlotsDone(v, r, items) ==
    /\ r.ok \in BOOLEAN /\ DiskOk(r.x, TRUE) /\ SameBut(v, r.x)
    /\ \A c \in Nat : Beyond(v.log, v.durable, c, UnitsOf(items)) /\ Honest(v.s, v.log, v.durable, c, TRUE)
         => Honest(r.x.s, v.log, v.durable, c, TRUE)
    /\ r.ok => \A i \in items : /\ r.x.s.shard.data[i.unit + 1] = ItemSlot(i)
                                /\ i.unit + 1 \in r.x.s.shard.dirty

Singular(items) == /\ items \in SUBSET Item /\ \A i \in items : i.ver.v # Tombstone
                   /\ \A i, j \in items : i.unit = j.unit => i = j

(* The slots of a batch are written, or some of them. *)
LEMMA SlotsWrittenIs ==
    ASSUME NEW v, DiskOk(v, TRUE), NEW items, Singular(items),
           \A c \in v.ckReg.may : Beyond(v.log, v.durable, c, UnitsOf(items)), NEW r \in SlotsWritten(v, items)
    PROVE  SlotsDone(v, r, items)
<1> DEFINE f == v.s.shard
           U == UnitsOf(items)
<1>1. FileOk(f)
  BY DiskIs DEF StoreOk
<1>2. ASSUME NEW J \in SUBSET items
      PROVE  /\ FileOk(WriteItems(f, J))
             /\ \A i \in J : WriteItems(f, J).data[i.unit + 1] = ItemSlot(i) /\ i.unit + 1 \in WriteItems(f, J).dirty
             /\ \A u \in Unit \ U : WriteItems(f, J).opts[u + 1] = f.opts[u + 1]
  <2>1. J \in SUBSET Item /\ (\A i \in J : i.ver.v # Tombstone) /\ \A i, j \in J : i.unit = j.unit => i = j
    BY DEF Singular
  <2>2. UnitsOf(J) \subseteq U
    BY DEF UnitsOf
  <2> HIDE DEF f, U
  <2>3. /\ FileOk(WriteItems(f, J))
        /\ \A i \in J : /\ WriteItems(f, J).data[i.unit + 1] = ItemSlot(i)
                        /\ i.unit + 1 \in WriteItems(f, J).dirty
        /\ \A u \in Unit \ UnitsOf(J) : WriteItems(f, J).opts[u + 1] = f.opts[u + 1]
    BY <1>1, <2>1, WriteItemsIs
  <2> QED
    BY <2>2, <2>3
<1>3. CASE r = Good([v EXCEPT !.s.shard = WriteItems(@, items)])
  <2> DEFINE g == WriteItems(f, items)
  <2>1. r.ok = TRUE /\ r.x = OnShard(v, g)
    BY <1>3 DEF Good, OnShard, WithStore, WithShard
  <2>2. /\ FileOk(g)
        /\ \A i \in items : g.data[i.unit + 1] = ItemSlot(i) /\ i.unit + 1 \in g.dirty
        /\ \A u \in Unit \ U : g.opts[u + 1] = f.opts[u + 1]
    BY <1>2
  <2> HIDE DEF g
  <2>3. /\ DiskOk(OnShard(v, g), TRUE) /\ SameBut(v, OnShard(v, g)) /\ OnShard(v, g).s.shard = g
        /\ \A c \in Nat : Beyond(v.log, v.durable, c, U) /\ Honest(v.s, v.log, v.durable, c, TRUE)
             => Honest(OnShard(v, g).s, v.log, v.durable, c, TRUE)
    BY <2>2, ShardChanged
  <2> QED
    BY ZenonT(60), <2>1, <2>2, <2>3 DEF SlotsDone
<1>4. ASSUME NEW i \in items,
             r = Bad([v EXCEPT !.s.shard = SlotTorn(WriteItems(@, {j \in items : j.ver.n < i.ver.n}), i.unit, ItemSlot(i))])
      PROVE  SlotsDone(v, r, items)
  <2> DEFINE J == {j \in items : j.ver.n < i.ver.n}
             e == WriteItems(f, J)
             g == SlotTorn(e, i.unit, ItemSlot(i))
  <2>1. r.ok = FALSE /\ r.x = OnShard(v, g)
    BY <1>4 DEF Bad, OnShard, WithStore, WithShard
  <2>2. FileOk(e) /\ \A u \in Unit \ U : e.opts[u + 1] = f.opts[u + 1]
    BY <1>2
  <2> HIDE DEF e
  <2>3. i \in Item /\ i.ver.v # Tombstone
    BY DEF Singular
  <2>4. i.unit \in Unit /\ ItemSlot(i) \in Cell /\ i.unit \in U
    BY <2>3, ItemIs DEF UnitsOf
  <2>5. FileOk(g) /\ \A u \in Unit \ {i.unit} : g.opts[u + 1] = e.opts[u + 1]
    BY <2>2, <2>4, SlotTornIs
  <2> HIDE DEF g, U
  <2>6. \A u \in Unit \ U : g.opts[u + 1] = f.opts[u + 1]
    BY <2>2, <2>4, <2>5
  <2>7. /\ DiskOk(OnShard(v, g), TRUE) /\ SameBut(v, OnShard(v, g))
        /\ \A c \in Nat : Beyond(v.log, v.durable, c, U) /\ Honest(v.s, v.log, v.durable, c, TRUE)
             => Honest(OnShard(v, g).s, v.log, v.durable, c, TRUE)
    BY <2>5, <2>6, ShardChanged DEF U
  <2> QED
    BY <2>1, <2>7 DEF SlotsDone, U
<1> QED
  BY <1>3, <1>4 DEF SlotsWritten

(* The shard is synced, or the sync fails. *)
LEMMA ShardSyncedIs ==
    ASSUME NEW v, DiskOk(v, TRUE), NEW r \in ShardSynced(v)
    PROVE  /\ r.ok \in BOOLEAN /\ DiskOk(r.x, TRUE) /\ SameBut(v, r.x) /\ Keeps(v.s, r.x.s, TRUE, TRUE)
           /\ r.ok => r.x.s.shard = Synced(v.s.shard)
<1> DEFINE f == v.s.shard
<1>1. v \in VolumeType /\ StoreOk(v.s, TRUE) /\ v.s \in StoreType
  BY DiskIs
<1>2. FileOk(f)
  BY <1>1 DEF StoreOk
<1>3. ASSUME NEW g, FileOk(g), Certain(f, g)
      PROVE  /\ DiskOk(OnShard(v, g), TRUE) /\ SameBut(v, OnShard(v, g)) /\ Keeps(v.s, OnShard(v, g).s, TRUE, TRUE)
             /\ OnShard(v, g).s.shard = g
  <2> DEFINE t == WithShard(v.s, g)
             w == WithStore(v, t)
  <2>1. /\ t \in StoreType /\ t.shard = g /\ t.res = v.s.res /\ t.disc = v.s.disc /\ t.discReg = v.s.discReg
        /\ t.discDirty = v.s.discDirty /\ t.alloc = v.s.alloc /\ t.allocReg = v.s.allocReg
    BY <1>1, <1>3, WithShardIs DEF FileOk
  <2> HIDE DEF t
  <2>2. StoreOk(t, TRUE) /\ Keeps(v.s, t, TRUE, TRUE)
    BY <1>1, <1>3, <2>1, ShardKept
  <2>3. \A c \in v.ckReg.may : \A k \in (c + 1)..Len(v.log) : v.log[k].v # Tombstone => v.log[k].unit \in t.res
    BY <2>1 DEF DiskOk, Reserved
  <2>4. DiskOk(w, TRUE)
    BY <2>2, <2>3, WithStoreOk
  <2>5. SameBut(v, w) /\ w.s = t
    BY <1>1, <2>1, WithStoreIs DEF SameBut
  <2> HIDE DEF w
  <2> QED
    BY <2>1, <2>2, <2>4, <2>5 DEF w, t, OnShard
<1>4. CASE r = Bad([v EXCEPT !.s.shard = SyncFailed(@)])
  BY <1>4, <1>2, SyncFailedFile, <1>3 DEF Bad, OnShard, WithStore, WithShard
<1>5. CASE r = Good([v EXCEPT !.s.shard = Synced(@)])
  BY <1>5, <1>2, SyncedFile, <1>3 DEF Good, OnShard, WithStore, WithShard
<1> QED
  BY <1>4, <1>5 DEF ShardSynced

(* One batch of the replay, from the record after a: the store becomes *)
(* honest about its last record, and stays so about what it was. *)
LEMMA ReplayOutcomesIs ==
    ASSUME NEW v, DiskOk(v, TRUE), NEW a \in Nat, NEW to \in (a + 1)..v.durable, v.ckReg.may = {v.ck}, v.ck <= a,
           Honest(v.s, v.log, v.durable, a, TRUE), NEW r \in ReplayOutcomes(v, a + 1, to)
    PROVE  /\ r.ok \in BOOLEAN /\ DiskOk(r.x, TRUE) /\ SameBut(v, r.x)
           /\ r.ok => Honest(r.x.s, v.log, v.durable, to, TRUE)
<1> DEFINE items == Latest(v.log, a + 1, to)
           written == {v.log[k].unit : k \in {k \in (a + 1)..to : v.log[k].v # Tombstone}}
           W == UnitsOf(Writes(items))
           D == UnitsOf(Discards(items))
           Maps(z) == MapsStored(z, written, D, W)
           Sync(q) == IF Writes(items) = {} THEN {Good(q)} ELSE ShardSynced(q)
           First == IF written = {} THEN {Good(v)} ELSE OnStore(v, EnsureShard(v.s))
<1>1. r \in Then(First, LAMBDA e : Then(SlotsWritten(e.x, Writes(items)), LAMBDA q : Then(Sync(q.x), LAMBDA t : Maps(t.x))))
  BY DEF ReplayOutcomes, MapsStored, Marked
<1>2. /\ v \in VolumeType /\ StoreOk(v.s, TRUE) /\ v.log \in Seq(Records) /\ v.durable \in Nat /\ v.durable <= Len(v.log)
      /\ v.ck \in Nat /\ Len(v.log) \in Nat
  BY DiskIs
<1>3. to \in Nat /\ to <= Len(v.log) /\ to <= v.durable
  BY <1>2
<1>4. items \in SUBSET Item /\ ItemsOk(items, v.log, a, to)
  BY <1>2, <1>3, LatestIs
<1>5. \A i \in items : \E k \in (a + 1)..to : i.unit = v.log[k].unit /\ i.ver.v = v.log[k].v
  BY DEF Latest
<1> HIDE DEF items
<1>6. OfUnits(W, D, W) /\ W \cap D = {}
  BY <1>3, <1>4, PlanUnits
<1>7. W \subseteq written
  <2>1. ASSUME NEW i \in Writes(items) PROVE i.unit \in written
    BY <1>5 DEF Writes
  <2> HIDE DEF written
  <2> QED
    BY <2>1 DEF UnitsOf
<1>8. \A u \in written \cup D \cup W : \E k \in (a + 1)..to : v.log[k].unit = u
  BY <1>5 DEF UnitsOf, Writes, Discards
<1>9. ASSUME NEW c \in Nat, c <= a, NEW U, U \subseteq written \cup D \cup W PROVE Beyond(v.log, v.durable, c, U)
  <2>1. \A k \in (a + 1)..to : k \in (c + 1)..v.durable
    BY <1>2, <1>3, <1>9
  <2> HIDE DEF written, D, W
  <2> QED
    BY <1>8, <1>9, <2>1 DEF Beyond
<1>10. OfUnits(written, D, W)
  <2>1. \A k \in (a + 1)..to : v.log[k].unit \in Unit
    BY <1>2, <1>3, RecordIs
  <2>2. written \subseteq Unit
    BY <2>1
  <2> HIDE DEF written, D, W
  <2> QED
    BY <1>6, <1>7, <2>2 DEF OfUnits
<1>11. Singular(Writes(items))
  BY <1>3, <1>4, ItemsUnique DEF Writes, Singular
<1>12. PICK e \in First : r \in IF e.ok THEN Then(SlotsWritten(e.x, Writes(items)), LAMBDA q : Then(Sync(q.x), LAMBDA t : Maps(t.x)))
                                ELSE {e}
  <2> HIDE DEF First, Maps, Sync
  <2> QED
    BY <1>1 DEF Then
<1>13. e.ok \in BOOLEAN /\ DiskOk(e.x, TRUE) /\ SameBut(v, e.x) /\ Honest(e.x.s, v.log, v.durable, a, TRUE)
  <2>1. CASE e = Good(v)
    BY <2>1 DEF Good, SameBut
  <2>2. CASE e \in OnStore(v, EnsureShard(v.s))
    BY <2>2, EnsureStep, <1>2, HonestKept DEF Quiet
  <2> QED
    BY <1>12, <2>1, <2>2
<1> HIDE DEF First, W, D, written, Maps, Sync
<1>14. CASE ~e.ok
  BY <1>12, <1>13, <1>14
<1>15. CASE e.ok
  <2>1. PICK y : y = e.x
    OBVIOUS
  <2>2. PICK q \in SlotsWritten(y, Writes(items)) : r \in IF q.ok THEN Then(Sync(q.x), LAMBDA t : Maps(t.x)) ELSE {q}
    BY <1>12, <1>15, <2>1 DEF Then
  <2>3. DiskOk(y, TRUE) /\ SameBut(v, y) /\ Honest(y.s, v.log, v.durable, a, TRUE)
    BY <1>13, <2>1
  <2>4. y.log = v.log /\ y.durable = v.durable /\ y.ckReg.may = {v.ck}
    BY <2>3 DEF SameBut
  <2>5. UnitsOf(Writes(items)) \subseteq written \cup D \cup W
    BY DEF W
  <2>6. \A c \in Nat : c <= a => Beyond(v.log, v.durable, c, UnitsOf(Writes(items)))
    BY <1>9, <2>5
  <2>7. \A c \in y.ckReg.may : Beyond(y.log, y.durable, c, UnitsOf(Writes(items)))
    BY <1>2, <2>4, <2>6
  <2>8. SlotsDone(y, q, Writes(items))
    BY <1>11, <2>2, <2>3, <2>7, SlotsWrittenIs
  <2>9. PICK z : z = q.x
    OBVIOUS
  <2>10. q.ok \in BOOLEAN /\ DiskOk(z, TRUE) /\ SameBut(y, z)
    BY <2>8, <2>9 DEF SlotsDone
  <2>11. SameBut(v, z)
    BY <2>3, <2>10, SameButTrans
  <2>12. Honest(z.s, v.log, v.durable, a, TRUE)
    <3>1. a \in Nat /\ a <= a
      OBVIOUS
    <3>2. Beyond(v.log, v.durable, a, UnitsOf(Writes(items)))
      BY <2>6, <3>1
    <3> QED
      BY <2>3, <2>4, <2>8, <2>9, <3>1, <3>2 DEF SlotsDone
  <2>13. CASE ~q.ok
    BY <2>2, <2>9, <2>10, <2>11, <2>13
  <2>14. CASE q.ok
    <3>1. \A i \in Writes(items) : z.s.shard.data[i.unit + 1] = ItemSlot(i) /\ i.unit + 1 \in z.s.shard.dirty
      BY <2>8, <2>9, <2>14 DEF SlotsDone
    <3>2. PICK t \in Sync(z) : r \in IF t.ok THEN Maps(t.x) ELSE {t}
      BY <2>2, <2>9, <2>14 DEF Then
    <3>3. PICK b : b = t.x
      OBVIOUS
    <3>4. /\ t.ok \in BOOLEAN /\ DiskOk(b, TRUE) /\ SameBut(z, b) /\ Keeps(z.s, b.s, TRUE, TRUE)
          /\ t.ok => \A i \in Writes(items) : b.s.shard.opts[i.unit + 1] = {ItemSlot(i)}
      <4>1. CASE Writes(items) = {}
        <5>1. t = Good(z)
          BY <3>2, <4>1 DEF Sync
        <5>2. t.ok = TRUE /\ b = z
          BY <3>3, <5>1 DEF Good
        <5> QED
          BY <2>10, <4>1, <5>2, KeepsSelf DEF SameBut
      <4>2. CASE Writes(items) # {}
        <5>1. t \in ShardSynced(z)
          BY <3>2, <4>2 DEF Sync
        <5>2. /\ t.ok \in BOOLEAN /\ DiskOk(b, TRUE) /\ SameBut(z, b) /\ Keeps(z.s, b.s, TRUE, TRUE)
              /\ t.ok => b.s.shard = Synced(z.s.shard)
          BY <2>10, <3>3, <5>1, ShardSyncedIs
        <5>3. FileOk(z.s.shard)
          BY <2>10, DiskIs DEF StoreOk
        <5>4. \A j \in Pos : j \in z.s.shard.dirty => Synced(z.s.shard).opts[j] = {z.s.shard.data[j]}
          BY <5>3, SyncedFile
        <5>5. \A i \in Writes(items) : i.unit + 1 \in Pos
          BY <1>4, ItemIs DEF Writes
        <5>6. ASSUME t.ok, NEW i \in Writes(items) PROVE b.s.shard.opts[i.unit + 1] = {ItemSlot(i)}
          BY <3>1, <5>2, <5>4, <5>5, <5>6
        <5> QED
          BY <5>2, <5>6
      <4> QED
        BY <4>1, <4>2
    <3>5. SameBut(v, b)
      BY <2>11, <3>4, SameButTrans
    <3>6. Honest(b.s, v.log, v.durable, a, TRUE)
      BY <1>2, <2>12, <3>4, HonestKept
    <3>7. b.log = v.log /\ b.durable = v.durable /\ b.ckReg.may = {v.ck}
      BY <3>5 DEF SameBut
    <3>8. CASE ~t.ok
      BY <3>2, <3>3, <3>4, <3>5, <3>8
    <3>9. CASE t.ok
      <4>1. r \in MapsStored(b, written, D, W)
        BY <3>2, <3>3, <3>9 DEF Maps
      <4>2. \A c \in Nat : c <= a => Truthful(v.log, v.durable, c, written, D, W)
        BY <1>9, <1>2, BeyondTruthful
      <4>3. \A c \in b.ckReg.may : Truthful(b.log, b.durable, c, written, D, W)
        BY <1>2, <3>7, <4>2
      <4>4. MapsKept(b, r, written, D, W)
        BY <1>10, <3>4, <4>1, <4>3, MapsStoredIs
      <4>5. /\ r.ok \in BOOLEAN /\ DiskOk(r.x, TRUE) /\ SameBut(b, r.x) /\ r.x.s.shard = b.s.shard
            /\ r.x.s.disc = (b.s.disc \cup D) \ W /\ (r.ok => r.x.s.discReg.may = {r.x.s.disc})
        BY <4>4 DEF MapsKept
      <4>6. SameBut(v, r.x)
        BY <3>5, <4>5, SameButTrans
      <4>7. Honest(r.x.s, v.log, v.durable, a, TRUE)
        <5>1. a <= a
          OBVIOUS
        <5>2. Truthful(v.log, v.durable, a, written, D, W)
          BY <4>2, <5>1
        <5> QED
          BY <3>6, <3>7, <4>4, <5>2 DEF MapsKept
      <4>8. ASSUME r.ok PROVE Honest(r.x.s, v.log, v.durable, to, TRUE)
        <5>1. (\A i \in Writes(items) : i.unit \in W) /\ (\A i \in Discards(items) : i.unit \in D)
          BY DEF W, D, UnitsOf
        <5>2. D \subseteq r.x.s.disc /\ \A u \in W : u \notin r.x.s.disc
          BY <1>6, <4>5
        <5>3. Settles(r.x.s, items)
          BY <3>4, <3>9, <4>5, <4>8, <5>1, <5>2 DEF Settles
        <5> QED
          BY <1>2, <1>3, <1>4, <4>7, <5>3, SettledHonest
      <4> QED
        BY <4>5, <4>6, <4>8
    <3> QED
      BY <3>4, <3>8, <3>9
  <2> QED
    BY <2>10, <2>13, <2>14
<1> QED
  BY <1>13, <1>14, <1>15

(* The end of attach: the overlay is empty and reclamation is scheduled. *)
Ready(w) == [w EXCEPT !.s = ScheduleReclamation(@), !.o = Promote(EmptyOverlay, w.durable)]

(* Such a volume is up. *)
LEMMA ReadyOk ==
    ASSUME NEW v, DiskOk(v, TRUE), v.durable = Len(v.log), v.ck = v.durable
    PROVE  UpOk(Ready(v)) /\ Ready(v).log = v.log /\ Ready(v).durable = v.durable
<1> DEFINE t == ScheduleReclamation(v.s)
           o == Promote(EmptyOverlay, v.durable)
           w == Ready(v)
<1>1. v \in VolumeType /\ StoreOk(v.s, TRUE) /\ v.log \in Seq(Records) /\ v.durable \in Nat /\ v.durable <= Len(v.log)
  BY DiskIs
<1>2. StoreOk(t, TRUE) /\ Keeps(v.s, t, TRUE, TRUE) /\ t.res = v.s.res
  BY <1>1, ScheduleReclamationIs
<1>3. OverlayOk(o, v.log, v.durable, v.ck)
  BY <1>1, EmptyOk
<1> HIDE DEF t, o
<1>4. \A c \in v.ckReg.may : \A k \in (c + 1)..Len(v.log) : v.log[k].v # Tombstone => v.log[k].unit \in t.res
  BY <1>2 DEF DiskOk, Reserved
<1>5. DiskOk(WithStore(v, t), TRUE)
  BY <1>2, <1>4, WithStoreOk
<1>6. t \in StoreType /\ o \in OverlayType
  BY <1>2, <1>3 DEF StoreOk, OverlayOk
<1>7. w = [v EXCEPT !.s = t, !.o = o]
  BY DEF Ready, t, o
<1>8. w \in VolumeType
  BY <1>1, <1>6, <1>7 DEF VolumeType
<1>9. w.s = t /\ w.o = o /\ w.log = v.log /\ w.durable = v.durable /\ w.ck = v.ck /\ w.ckReg = v.ckReg
  BY <1>1, <1>7 DEF VolumeType
<1>10. PICK y : y = WithStore(v, t)
  OBVIOUS
<1>11. DiskOk(y, TRUE) /\ y.s = t /\ y.log = v.log /\ y.durable = v.durable /\ y.ck = v.ck /\ y.ckReg = v.ckReg
  BY <1>1, <1>5, <1>6, <1>10, WithStoreIs
<1> HIDE DEF w
<1>12. DiskOk(w, TRUE)
  BY <1>8, <1>9, <1>11 DEF DiskOk, JournalOk, CkOk, Reserved
<1>13. UpOk(w)
  BY <1>3, <1>9, <1>12 DEF UpOk
<1> QED
  BY <1>9, <1>13 DEF w

(* Storing the discard map, as a step of a volume in replay. *)
LEMMA DiscStep ==
    ASSUME NEW v, DiskOk(v, TRUE), NEW r \in OnStore(v, PersistDiscards(v.s))
    PROVE  r.ok \in BOOLEAN /\ DiskOk(r.x, TRUE) /\ SameBut(v, r.x)
  BY DiskIs, PersistDiscardsIs, QuietStep

(* The last steps of attach, up to the empty overlay. *)
LEMMA AttachedIs ==
    ASSUME NEW v, DiskOk(v, TRUE), v.durable = Len(v.log), Honest(v.s, v.log, v.durable, v.durable, TRUE),
           NEW r \in Then(IF v.durable > v.ck
                          THEN Then(StatePublished(v, v.durable), LAMBDA q : Pruned(q.x))
                          ELSE {Good(v)},
                          LAMBDA q : OnStore(q.x, PersistDiscards(q.x.s)))
    PROVE  /\ r.ok \in BOOLEAN /\ DiskOk(r.x, TRUE) /\ r.x.log = v.log /\ r.x.durable = v.durable
           /\ r.ok => r.x.ck = v.durable
<1> DEFINE First == IF v.durable > v.ck THEN Then(StatePublished(v, v.durable), LAMBDA q : Pruned(q.x)) ELSE {Good(v)}
<1>1. PICK e \in First : r \in IF e.ok THEN OnStore(e.x, PersistDiscards(e.x.s)) ELSE {e}
  <2>1. r \in Then(First, LAMBDA q : OnStore(q.x, PersistDiscards(q.x.s)))
    OBVIOUS
  <2> HIDE DEF First
  <2> QED
    BY <2>1 DEF Then
<1>2. v.durable \in Nat /\ v.ck \in Nat /\ v.ck <= v.durable /\ v.durable <= v.durable
  BY DiskIs
<1>3. /\ e.ok \in BOOLEAN /\ DiskOk(e.x, TRUE) /\ e.x.log = v.log /\ e.x.durable = v.durable
      /\ e.ok => e.x.ck = v.durable
  <2>1. CASE v.durable > v.ck
    <3>1. e \in Then(StatePublished(v, v.durable), LAMBDA q : Pruned(q.x))
      BY <1>1, <2>1
    <3>2. PICK q \in StatePublished(v, v.durable) : e \in IF q.ok THEN Pruned(q.x) ELSE {q}
      BY <3>1 DEF Then
    <3>3. /\ q.ok \in BOOLEAN /\ DiskOk(q.x, TRUE) /\ q.x.log = v.log /\ q.x.durable = v.durable
          /\ q.ok => q.x.ck = v.durable
      BY <1>2, StatePublishedIs
    <3>4. CASE ~q.ok
      BY <3>2, <3>3, <3>4
    <3>5. CASE q.ok
      BY <3>2, <3>5, PrunedIs, <3>3
    <3> QED
      BY <3>3, <3>4, <3>5
  <2>2. CASE ~(v.durable > v.ck)
    <3>1. e = Good(v)
      BY <1>1, <2>2
    <3>2. e.ok = TRUE /\ e.x = v
      BY <3>1 DEF Good
    <3>3. v.ck = v.durable
      BY <1>2, <2>2
    <3> QED
      BY <3>2, <3>3
  <2> QED
    BY <2>1, <2>2
<1> HIDE DEF First
<1>4. CASE ~e.ok
  BY <1>1, <1>3, <1>4
<1>5. CASE e.ok
  BY <1>1, <1>3, <1>5, DiscStep DEF SameBut
<1> QED
  BY <1>3, <1>4, <1>5

-----------------------------------------------------------------------------
(* The inductive invariant. *)

(* The store is open unless the volume is down. *)
LEMMA LiveIs ==
    /\ pc = "down" => Live = FALSE
    /\ pc = "up" => Live = TRUE
    /\ pc = "replay" => Live = TRUE
  BY DEF Live

(* What the invariant says of the volume. *)
LEMMA IInvIs ==
    ASSUME IInv
    PROVE  /\ DiskOk(x, Live) /\ Live \in BOOLEAN /\ pc \in {"down", "replay", "up"}
           /\ at \in Nat /\ acked \in Nat /\ faults \in Nat /\ acked <= x.durable
           /\ \A c \in Points : Honest(x.s, x.log, x.durable, c, Live)
  BY DEF Points, IInv, Types, Disk, DiskOk, Live

(* A volume that is up. *)
LEMMA UpIs ==
    ASSUME IInv, pc = "up"
    PROVE  UpOk(x)
  BY LiveIs, IInvIs DEF IInv, Memory, UpOk

(* A plan in flight. *)
LEMMA PlanIs ==
    ASSUME IInv
    PROVE  /\ plan # NoPlan => pc = "up" /\ PlanOk(plan, x)
           /\ plan.stage \in {"write", "finish"} => plan # NoPlan
  BY DEF IInv, Memory, NoPlan

(* How the invariant is reached: a volume that is up. *)
LEMMA ToUp ==
    ASSUME pc' = "up", UpOk(x'), at' = 0, acked' \in Nat, acked' <= x'.durable, faults' \in Nat,
           plan' = NoPlan \/ PlanOk(plan', x')
    PROVE  IInv'
  BY DEF Live, Points, UpOk, Types, DiskOk, Disk, Memory, IInv

(* A volume that is down. *)
LEMMA ToDown ==
    ASSUME pc' = "down", DiskOk(x', FALSE), at' = 0, acked' \in Nat, acked' <= x'.durable, faults' \in Nat, plan' = NoPlan
    PROVE  IInv'
  BY DEF Live, Points, Types, DiskOk, Disk, Memory, IInv

(* A volume in replay. *)
LEMMA ToReplay ==
    ASSUME pc' = "replay", DiskOk(x', TRUE), at' \in Nat, acked' \in Nat, acked' <= x'.durable, faults' \in Nat, plan' = NoPlan,
           x'.durable = Len(x'.log), x'.ck <= at', at' <= x'.durable, x'.ckReg.may = {x'.ck},
           Honest(x'.s, x'.log, x'.durable, at', TRUE)
    PROVE  IInv'
  BY DEF Live, Points, Types, DiskOk, Disk, Memory, IInv

(* The invariant holds of a new volume. *)
LEMMA InitIInv ==
    ASSUME Init
    PROVE  IInv
<1> DEFINE s == NewStore
<1>1. /\ MaxLen \in Nat \ {0} /\ MaxFails \in Nat \ {0} /\ MaxRecords \in Nat
  BY Consts
<1>2. Stored(0, {}) = [now |-> {}, may |-> {{}}] /\ Stored(0, 0) = [now |-> 0, may |-> {0}]
  BY DEF Stored
<1>3. /\ s.shard = Settled([j \in Pos |-> Zero]) /\ s.allocReg = Stored(0, {}) /\ s.discReg = Stored(0, {})
      /\ s.alloc = {} /\ s.disc = {} /\ s.res = {}
  BY DEF NewStore
<1>4. Len([j \in Pos |-> Zero]) = MaxLen
  BY <1>1 DEF Pos
<1>5. /\ s.shard.data = [j \in Pos |-> Zero] /\ s.shard.opts = [j \in Pos |-> {Zero}] /\ s.shard.lens = {MaxLen}
      /\ s.shard = [data |-> [j \in Pos |-> Zero], opts |-> [j \in Pos |-> {Zero}], lens |-> {MaxLen}, dirty |-> {},
                    lenDirty |-> FALSE, name |-> TRUE, names |-> {TRUE}]
  <2>1. [j \in Pos |-> IF j <= Len([i \in Pos |-> Zero]) THEN {[i \in Pos |-> Zero][j]} ELSE {Zero}] = [j \in Pos |-> {Zero}]
    BY <1>1, <1>4 DEF Pos
  <2>2. s.shard = [data |-> [j \in Pos |-> Zero], opts |-> [j \in Pos |-> {Zero}], lens |-> {MaxLen}, dirty |-> {},
                   lenDirty |-> FALSE, name |-> TRUE, names |-> {TRUE}]
    <3> HIDE DEF s
    <3> QED
      BY <1>3, <1>4, <2>1, Zenon DEF Settled
  <2> HIDE DEF s
  <2> QED
    BY <2>2
<1>6. FileOk(s.shard)
  BY Cells, <1>5 DEF File, FileOk
<1>7. 0 \in 0..MaxLen /\ 0 \in 0..MaxFails /\ 0 \in 0..0 /\ 0 <= MaxRecords /\ 0 <= 0 /\ 0 \in Nat
  BY <1>1
<1>8. [now |-> {}, may |-> {{}}] \in MapReg
  BY DEF MapReg
<1>9. s \in StoreType
  <2>0. PICK f : f = s.shard
    OBVIOUS
  <2>1. s = [shard |-> f, alloc |-> {}, allocReg |-> [now |-> {}, may |-> {{}}], allocDirty |-> FALSE, mapStored |-> FALSE,
             disc |-> {}, discReg |-> [now |-> {}, may |-> {{}}], discDirty |-> FALSE, res |-> {}, cursor |-> 0, fails |-> 0]
    BY <1>2, <1>3, <2>0 DEF NewStore
  <2>2. f \in File
    BY <1>6, <2>0 DEF FileOk
  <2> HIDE DEF s
  <2> QED
    BY <1>7, <1>8, <2>1, <2>2 DEF StoreType
<1>10. s.allocReg.may = {{}} /\ s.discReg.may = {{}} /\ s.allocReg.now = {} /\ s.discReg.now = {}
  BY <1>2, <1>3
<1>11. \A u \in Unit : s.shard.opts[u + 1] = {Zero}
  BY <1>5, UnitPos
<1> HIDE DEF s
<1>12. StoreOk(s, FALSE)
  BY <1>6, <1>9, <1>10 DEF StoreOk
<1>13. \A u \in Unit : Blank(s, u, FALSE)
  BY <1>10, <1>11 DEF Blank
<1>14. /\ x = [log |-> << >>, durable |-> 0, o |-> EmptyOverlay, s |-> s, ck |-> 0, ckReg |-> [now |-> 0, may |-> {0}]]
       /\ pc = "down" /\ plan = NoPlan /\ at = 0 /\ acked = 0 /\ faults = 0
  BY <1>2 DEF Init, s
<1>15. << >> \in Seq(Records) /\ Len(<< >>) = 0 /\ [now |-> 0, may |-> {0}] \in [now : Nat, may : SUBSET Nat]
  OBVIOUS
<1>16. x \in VolumeType
  BY <1>7, <1>9, <1>14, <1>15, EmptyTyped DEF VolumeType
<1>17. x.log = << >> /\ x.durable = 0 /\ x.s = s /\ x.ck = 0 /\ x.ckReg = [now |-> 0, may |-> {0}]
  BY <1>14
<1>18. x.ckReg.may = {0} /\ x.ckReg.now = 0
  BY <1>17
<1>19. JournalOk(x)
  BY <1>7, <1>15, <1>17 DEF JournalOk
<1>20. CkOk(x, FALSE)
  BY <1>7, <1>15, <1>17, <1>18 DEF CkOk
<1>21. Reserved(x)
  BY <1>15, <1>17, <1>18 DEF Reserved
<1>22. Honest(s, << >>, 0, 0, FALSE)
  <2>1. \A n : n \notin 1..0
    OBVIOUS
  <2> QED
    BY <1>13, <2>1 DEF Honest
<1>23. Live = FALSE /\ Points = {0}
  BY <1>14, <1>18 DEF Live, Points
<1>24. Types
  BY <1>7, <1>14, <1>16 DEF Types
<1>25. Disk
  BY <1>7, <1>12, <1>14, <1>17, <1>19, <1>20, <1>21, <1>22, <1>23 DEF Disk
<1>26. Memory
  BY <1>14 DEF Memory
<1> QED
  BY <1>24, <1>25, <1>26 DEF IInv

(* Each action keeps the invariant. *)

(* What a handler reports, and the faults that are counted. *)
LEMMA Reported ==
    ASSUME IInv, NEW r, Report(r)
    PROVE  x' = r.x /\ faults' \in Nat
<1>1. faults \in Nat
  BY IInvIs
<1> QED
  BY <1>1 DEF Report, NoFault, Fault

(* The faults are counted. *)
LEMMA Faulted ==
    ASSUME IInv, Fault \/ NoFault
    PROVE  faults' \in Nat
<1>1. faults \in Nat
  BY IInvIs
<1> QED
  BY <1>1 DEF NoFault, Fault

(* A foreground handler. *)
LEMMA HandledKeeps ==
    ASSUME IInv, pc = "up", NEW r, Handled(x, r), Report(r), acked' = acked \/ acked' = r.x.durable, UNCHANGED <<pc, plan, at>>
    PROVE  IInv'
<1>1. UpOk(x) /\ UpOk(r.x) /\ Ahead(x, r.x)
  BY UpIs DEF Handled
<1>2. x' = r.x /\ faults' \in Nat
  BY Reported
<1>3. r.x.durable \in Nat /\ x.durable <= r.x.durable /\ r.x.durable <= r.x.durable /\ x.durable \in Nat
  BY <1>1, DiskIs DEF Ahead, UpOk
<1>4. acked \in Nat /\ acked <= x.durable
  BY IInvIs
<1>5. acked' \in Nat /\ acked' <= x'.durable
  BY <1>2, <1>3, <1>4
<1>6. plan' = NoPlan \/ PlanOk(plan', x')
  BY PlanIs, <1>1, PlanKept, <1>2
<1>7. at' = 0 /\ pc' = "up"
  BY DEF IInv, Memory
<1> QED
  BY <1>1, <1>2, <1>5, <1>6, <1>7, ToUp

(* write_ct keeps the invariant. *)
LEMMA WriteCtKeeps ==
    ASSUME IInv, NEW u \in Unit, NEW c \in Ciphertext, NEW fua \in BOOLEAN, WriteCt(u, c, fua)
    PROVE  IInv'
  BY UpIs, WriteOutcomesIs, HandledKeeps DEF WriteCt, Appended

(* discard_ct keeps the invariant. *)
LEMMA DiscardCtKeeps ==
    ASSUME IInv, NEW u \in Unit, NEW fua \in BOOLEAN, DiscardCt(u, fua)
    PROVE  IInv'
  BY UpIs, DiscardOutcomesIs, HandledKeeps DEF DiscardCt, Appended

(* A flush keeps the invariant. *)
LEMMA FlushKeeps ==
    ASSUME IInv, Flush
    PROVE  IInv'
  BY UpIs, JournalSyncIs, HandledKeeps DEF Flush, Appended

(* The actions of a checkpoint leave the journal and what was reported as *)
(* they are. *)
LEMMA CheckpointKeeps ==
    ASSUME IInv, pc = "up", UpOk(x'), x'.durable = x.durable, faults' \in Nat, UNCHANGED <<pc, at, acked>>,
           plan' = NoPlan \/ PlanOk(plan', x')
    PROVE  IInv'
  BY IInvIs, ToUp DEF IInv, Memory

(* Preparing a checkpoint keeps the invariant. *)
LEMMA PrepareKeeps ==
    ASSUME IInv, PrepareCheckpoint
    PROVE  IInv'
<1> DEFINE v == Promoted(x)
           items == IF v.durable <= v.ck THEN {} ELSE CollectDurable(v.o, v.durable)
           h == IF v.durable < v.ck THEN v.ck ELSE v.durable
<1>1. pc = "up" /\ UNCHANGED <<pc, at, acked, faults>> /\ x' = v
  BY DEF PrepareCheckpoint
<1>2. plan' = [stage |-> "write", base |-> v.ck, horizon |-> h, items |-> items, todo |-> Writes(items), fails |-> v.s.fails]
  BY DEF PrepareCheckpoint
<1>3. UpOk(x)
  BY <1>1, UpIs
<1>4. UpOk(v) /\ v.durable = x.durable
  BY <1>3, PromotedIs
<1>5. PlanOk([stage |-> "write", base |-> v.ck, horizon |-> h, items |-> items, todo |-> Writes(items), fails |-> v.s.fails], v)
  BY <1>4, PrepareOk
<1> HIDE DEF v, items, h
<1>6. faults' \in Nat
  BY <1>1, IInvIs
<1> QED
  BY <1>1, <1>2, <1>4, <1>5, <1>6, CheckpointKeeps

(* A slot write of a plan keeps the invariant. *)
LEMMA PlanWriteKeeps ==
    ASSUME IInv, PlanWrite
    PROVE  IInv'
<1>1. PICK i \in plan.todo :
         \/ /\ x' = [x EXCEPT !.s.shard = WriteItems(@, {i})]
            /\ plan' = [plan EXCEPT !.todo = @ \ {i}] /\ NoFault
         \/ /\ x' = [x EXCEPT !.s.shard = SlotTorn(@, i.unit, ItemSlot(i))]
            /\ plan' = NoPlan /\ Fault
  BY DEF PlanWrite
<1>2. plan.stage = "write" /\ UNCHANGED <<pc, at, acked>>
  BY DEF PlanWrite
<1>3. pc = "up" /\ PlanOk(plan, x)
  BY <1>2, PlanIs
<1>4. UpOk(x)
  BY <1>3, UpIs
<1>5. faults' \in Nat
  BY <1>1, Faulted
<1>6. x \in VolumeType /\ x.s \in StoreType /\ FileOk(x.s.shard) /\ FileOk(x.s.shard)
  BY <1>4, DiskIs DEF UpOk, StoreOk
<1>7. CASE x' = [x EXCEPT !.s.shard = WriteItems(@, {i})] /\ plan' = [plan EXCEPT !.todo = @ \ {i}]
  BY <1>7, <1>2, <1>3, <1>4, PlanWriteOk, <1>6, <1>5, CheckpointKeeps DEF OnShard, WithStore, WithShard,
     VolumeType
<1>8. CASE x' = [x EXCEPT !.s.shard = SlotTorn(@, i.unit, ItemSlot(i))] /\ plan' = NoPlan
  <2> DEFINE g == SlotTorn(x.s.shard, i.unit, ItemSlot(i))
  <2>1. x' = WithStore(x, WithShard(x.s, g))
    BY <1>8 DEF WithStore, WithShard
  <2>2. i \in Item /\ i.ver.v # Tombstone
    BY <1>3 DEF PlanOk, PlanType, Writes
  <2>3. i.unit \in Unit /\ ItemSlot(i) \in Cell
    BY <2>2, ItemIs
  <2>4. /\ FileOk(g) /\ (x.s.shard.opts[i.unit + 1] = {ItemSlot(i)} => g.opts[i.unit + 1] = {ItemSlot(i)})
        /\ \A u \in Unit \ {i.unit} : g.opts[u + 1] = x.s.shard.opts[u + 1]
    BY <1>6, <2>3, SlotTornIs
  <2> HIDE DEF g
  <2>5. UpOk(WithStore(x, WithShard(x.s, g)))
    BY <1>3, <1>4, <2>4, PlanSlotOk
  <2>6. x'.durable = x.durable
    BY <1>6, <1>8 DEF VolumeType
  <2> QED
    BY <1>2, <1>3, <1>5, <1>8, <2>1, <2>5, <2>6, CheckpointKeeps
<1> QED
  BY <1>1, <1>7, <1>8

(* The sync of a plan keeps the invariant. *)
LEMMA PlanSyncKeeps ==
    ASSUME IInv, PlanSync
    PROVE  IInv'
  BY PlanIs, UpIs, PlanSyncOk, Reported, CheckpointKeeps DEF PlanSync

(* finish_checkpoint keeps the invariant. *)
LEMMA FinishKeeps ==
    ASSUME IInv, FinishCheckpoint
    PROVE  IInv'
  BY PlanIs, UpIs, FinishOutcomesIs, Reported, CheckpointKeeps DEF FinishCheckpoint, Finished

(* The process ends. *)
LEMMA DownIs ==
    ASSUME IInv, NEW v, DiskOk(v, TRUE), v.durable = x.durable, Down(v), Fault, UNCHANGED acked
    PROVE  IInv'
  BY DeadOk, IInvIs, Faulted, ToDown DEF Down

(* Opening the volume keeps the invariant. *)
LEMMA OpenKeeps ==
    ASSUME IInv, Open
    PROVE  IInv'
<1>1. PICK n \in x.durable..Appended(x), s \in OpenStore(x.s) :
         /\ x' = [x EXCEPT !.log = SubSeq(@, 1, n), !.durable = n, !.s = s,
                           !.ck = x.ckReg.now, !.ckReg = Stored(@, x.ckReg.now)]
         /\ acked' = n
  BY DEF Open
<1>2. pc = "down" /\ pc' = "replay" /\ at' = x.ckReg.now /\ UNCHANGED <<plan, faults>>
  BY DEF Open
<1>3. Live = FALSE
  BY <1>2, LiveIs
<1>4. DiskOk(x, FALSE) /\ faults' \in Nat
  BY <1>2, <1>3, IInvIs
<1>5. n \in x.durable..Len(x.log) /\ x' = Opened(x, n, s)
  BY <1>1 DEF Appended, Opened
<1>6. /\ DiskOk(x', TRUE) /\ x'.durable = n /\ Len(x'.log) = n
      /\ x'.ck = x.ckReg.now /\ x'.ckReg.may = {x.ckReg.now}
  <2>1. IsOpened(Opened(x, n, s), x, n)
    BY <1>4, <1>5, OpenedOk
  <2> QED
    BY <1>5, <2>1 DEF IsOpened
<1>7. x'.ck \in Nat /\ x'.ck <= x'.durable /\ x'.durable \in Nat /\ x'.durable <= x'.durable
  BY <1>6, DiskIs
<1>8. plan' = NoPlan
  BY <1>2, PlanIs
<1>9. Honest(x'.s, x'.log, x'.durable, at', TRUE)
  BY <1>2, <1>6 DEF DiskOk
<1>10. x'.ck <= at' /\ at' \in Nat /\ at' <= x'.durable /\ acked' = x'.durable
  BY <1>1, <1>2, <1>6, <1>7
<1> QED
  BY <1>2, <1>4, <1>6, <1>7, <1>8, <1>9, <1>10, ToReplay

(* A volume in replay. *)
LEMMA ReplayingIs ==
    ASSUME IInv, pc = "replay"
    PROVE  /\ DiskOk(x, TRUE) /\ x.durable = Len(x.log) /\ x.ck <= at /\ at <= x.durable /\ x.ckReg.may = {x.ck}
           /\ Honest(x.s, x.log, x.durable, at, TRUE) /\ plan = NoPlan /\ at \in Nat
  BY IInvIs DEF Live, Points, IInv, Memory

(* A batch of the replay keeps the invariant. *)
LEMMA ReplayKeeps ==
    ASSUME IInv, Replay
    PROVE  IInv'
<1>1. PICK to \in (at + 1)..x.durable : \E r \in ReplayOutcomes(x, at + 1, to) :
         IF r.ok THEN x' = r.x /\ at' = to /\ NoFault /\ UNCHANGED <<pc, plan>>
         ELSE Down(r.x) /\ Fault
  BY DEF Replay
<1>2. PICK r \in ReplayOutcomes(x, at + 1, to) :
         IF r.ok THEN x' = r.x /\ at' = to /\ NoFault /\ UNCHANGED <<pc, plan>>
         ELSE Down(r.x) /\ Fault
  BY <1>1
<1>3. pc = "replay" /\ UNCHANGED acked
  BY DEF Replay
<1>4. /\ DiskOk(x, TRUE) /\ x.durable = Len(x.log) /\ x.ck <= at /\ at <= x.durable /\ x.ckReg.may = {x.ck}
      /\ Honest(x.s, x.log, x.durable, at, TRUE) /\ plan = NoPlan /\ at \in Nat
  BY <1>3, ReplayingIs
<1>5. /\ r.ok \in BOOLEAN /\ DiskOk(r.x, TRUE) /\ SameBut(x, r.x)
      /\ r.ok => Honest(r.x.s, x.log, x.durable, to, TRUE)
  BY <1>4, ReplayOutcomesIs
<1>6. r.x.log = x.log /\ r.x.durable = x.durable /\ r.x.ck = x.ck /\ r.x.ckReg = x.ckReg
  BY <1>5 DEF SameBut
<1>7. CASE ~r.ok
  BY <1>2, <1>7, <1>3, <1>5, <1>6, DownIs
<1>8. CASE r.ok
  <2>1. x' = r.x /\ at' = to /\ NoFault /\ UNCHANGED <<pc, plan>>
    BY <1>2, <1>8
  <2>2. x.durable \in Nat /\ x.ck \in Nat
    BY <1>4, DiskIs
  <2>3. at' \in Nat /\ x'.ck <= at' /\ at' <= x'.durable
    BY <1>4, <1>6, <2>1, <2>2
  <2>4. acked' \in Nat /\ acked' <= x'.durable /\ faults' \in Nat
    BY <1>3, <1>6, <2>1, IInvIs, Faulted
  <2>5. /\ pc' = "replay" /\ plan' = NoPlan /\ DiskOk(x', TRUE) /\ x'.durable = Len(x'.log) /\ x'.ckReg.may = {x'.ck}
        /\ Honest(x'.s, x'.log, x'.durable, at', TRUE)
    BY <1>3, <1>4, <1>5, <1>6, <1>8, <2>1
  <2> QED
    BY <2>3, <2>4, <2>5, ToReplay
<1> QED
  BY <1>5, <1>7, <1>8

(* The end of attach keeps the invariant. *)
LEMMA AttachedKeeps ==
    ASSUME IInv, Attached
    PROVE  IInv'
<1> DEFINE R == Then(IF x.durable > x.ck THEN Then(StatePublished(x, x.durable), LAMBDA q : Pruned(q.x)) ELSE {Good(x)},
                     LAMBDA q : OnStore(q.x, PersistDiscards(q.x.s)))
<1>1. PICK r \in R :
         IF r.ok THEN /\ x' = [r.x EXCEPT !.s = ScheduleReclamation(@), !.o = Promote(EmptyOverlay, r.x.durable)]
                      /\ pc' = "up" /\ at' = 0 /\ NoFault /\ UNCHANGED plan
         ELSE Down(r.x) /\ Fault
  BY DEF Attached
<1>2. pc = "replay" /\ at >= x.durable /\ UNCHANGED acked
  BY DEF Attached
<1>3. /\ DiskOk(x, TRUE) /\ x.durable = Len(x.log) /\ at <= x.durable
      /\ Honest(x.s, x.log, x.durable, at, TRUE) /\ plan = NoPlan /\ at \in Nat
  BY <1>2, ReplayingIs
<1>4. at = x.durable
  BY <1>2, <1>3, DiskIs
<1>5. /\ r.ok \in BOOLEAN /\ DiskOk(r.x, TRUE) /\ r.x.log = x.log /\ r.x.durable = x.durable
      /\ r.ok => r.x.ck = x.durable
  BY <1>3, <1>4, AttachedIs
<1> HIDE DEF R
<1>6. CASE ~r.ok
  BY <1>1, <1>6, <1>2, <1>5, DownIs
<1>7. CASE r.ok
  BY <1>1, <1>7, <1>3, <1>5, ReadyOk, <1>2, IInvIs, Faulted, ToUp DEF Ready
<1> QED
  BY <1>5, <1>6, <1>7

(* A kill keeps the invariant. *)
LEMMA KillKeeps ==
    ASSUME IInv, Kill
    PROVE  IInv'
  BY IInvIs, LiveIs, DownIs DEF Kill

(* A power loss keeps the invariant. *)
LEMMA CrashKeeps ==
    ASSUME IInv, Crash
    PROVE  IInv'
<1>1. PICK s \in StoreSurvivors(x.s), c \in x.ckReg.may :
         /\ x' = [Dead(x) EXCEPT !.s = s, !.ckReg = Stored(@, c)]
         /\ pc' = "down" /\ plan' = NoPlan /\ at' = 0
  BY DEF Crash
<1>2. Fault /\ UNCHANGED acked
  BY DEF Crash
<1>3. DiskOk(x, Live) /\ Live \in BOOLEAN
  BY IInvIs
<1>4. x' = Lost(x, s, c)
  BY <1>1 DEF Lost
<1>5. DiskOk(x', FALSE) /\ x'.durable = x.durable
  BY <1>3, LostOk, <1>4
<1>6. acked' \in Nat /\ acked' <= x'.durable /\ faults' \in Nat
  BY <1>2, <1>5, IInvIs, Faulted
<1> QED
  BY <1>1, <1>5, <1>6, ToDown

(* An eviction keeps the invariant. *)
LEMMA EvictKeeps ==
    ASSUME IInv, Evict
    PROVE  IInv'
<1>1. PICK f \in Evicted(x.s.shard) : x' = [x EXCEPT !.s.shard = f]
  BY DEF Evict
<1>2. Fault /\ UNCHANGED <<pc, plan, at, acked>>
  BY DEF Evict
<1>3. DiskOk(x, Live) /\ Live \in BOOLEAN /\ pc \in {"down", "replay", "up"}
  BY IInvIs
<1>4. x' = OnShard(x, f)
  BY <1>1 DEF OnShard, WithStore, WithShard
<1>5. DiskOk(x', Live) /\ SameBut(x, x') /\ Keeps(x.s, x'.s, Live, Live)
  BY <1>3, DroppedOk, <1>4
<1>6. x'.log = x.log /\ x'.durable = x.durable /\ x'.ck = x.ck /\ x'.ckReg = x.ckReg
  BY <1>5 DEF SameBut
<1>7. acked' \in Nat /\ acked' <= x'.durable /\ faults' \in Nat
  BY <1>2, <1>6, IInvIs, Faulted
<1>8. pc # "replay" => at' = 0
  BY <1>2 DEF IInv, Memory
<1>9. CASE pc = "down"
  BY <1>2, <1>5, <1>9, LiveIs, PlanIs, <1>7, <1>8, ToDown
<1>10. CASE pc = "up"
  <2>1. UpOk(x)
    BY <1>10, UpIs
  <2>2. DiskOk(x', TRUE)
    BY <1>5, <1>10, LiveIs
  <2>3. UpOk(x')
    BY <1>5, <2>1, <2>2, SameButUp
  <2>4. plan' = NoPlan \/ PlanOk(plan', x')
    BY PlanIs, <1>1, <2>1, DroppedPlan, <1>2, <1>4
  <2> QED
    BY <1>2, <1>7, <1>8, <1>10, <2>3, <2>4, ToUp
<1>11. CASE pc = "replay"
  BY <1>11, ReplayingIs, <1>5, LiveIs, DiskIs, HonestKept, <1>2, <1>6, <1>7, ToReplay
<1> QED
  BY <1>3, <1>9, <1>10, <1>11

(* Every step keeps the invariant. *)
LEMMA NextKeeps ==
    ASSUME IInv, [Next]_vars
    PROVE  IInv'
<1>1. ASSUME NEW u \in Unit, NEW fua \in BOOLEAN, DiscardCt(u, fua) PROVE IInv'
  BY <1>1, DiscardCtKeeps
<1>2. ASSUME NEW u \in Unit, NEW fua \in BOOLEAN, NEW c \in Ciphertext, WriteCt(u, c, fua) PROVE IInv'
  BY <1>2, WriteCtKeeps
<1>3. CASE Flush
  BY <1>3, FlushKeeps
<1>4. CASE PrepareCheckpoint
  BY <1>4, PrepareKeeps
<1>5. CASE PlanWrite
  BY <1>5, PlanWriteKeeps
<1>6. CASE PlanSync
  BY <1>6, PlanSyncKeeps
<1>7. CASE FinishCheckpoint
  BY <1>7, FinishKeeps
<1>8. CASE Open
  BY <1>8, OpenKeeps
<1>9. CASE Replay
  BY <1>9, ReplayKeeps
<1>10. CASE Attached
  BY <1>10, AttachedKeeps
<1>11. CASE Kill
  BY <1>11, KillKeeps
<1>12. CASE Evict
  BY <1>12, EvictKeeps
<1>13. CASE Crash
  BY <1>13, CrashKeeps
<1>14. CASE UNCHANGED vars
  BY <1>14 DEF vars, IInv, Types, Disk, Memory, Live, Points
<1> QED
  BY <1>1, <1>2, <1>3, <1>4, <1>5, <1>6, <1>7, <1>8, <1>9, <1>10, <1>11, <1>12, <1>13, <1>14 DEF Next

(* The inductive invariant always holds. *)
LEMMA InvariantHolds == Spec => []IInv
<1>1. Init => IInv
  BY InitIInv
<1>2. IInv /\ [Next]_vars => IInv'
  BY NextKeeps
<1> QED
  BY <1>1, <1>2, PTL DEF Spec

-----------------------------------------------------------------------------
(* A checkpoint is honest. *)

(* What a slot holds is its payload. *)
LEMMA PayloadIs ==
    /\ Payload(Zero) = Tombstone
    /\ \A n, v : Payload(Slot(n, v)) = v
  BY Cells, Slots DEF Payload

(* The content of a unit is the payload of its last record. *)
LEMMA ContentIs ==
    ASSUME NEW log, NEW n \in Nat, NEW u
    PROVE  /\ NoneOf(log, n, u) => Abstract!Content(log, n, u) = Tombstone
           /\ \A k \in Nat : LastOf(log, n, u, k) => Abstract!Content(log, n, u) = log[k].v
<1> DEFINE mine == {k \in 1..n : log[k].unit = u}
<1>1. ASSUME NoneOf(log, n, u) PROVE Abstract!Content(log, n, u) = Tombstone
  BY <1>1 DEF NoneOf, Abstract!Content
<1>2. ASSUME NEW k \in Nat, LastOf(log, n, u, k) PROVE Abstract!Content(log, n, u) = log[k].v
  BY <1>2 DEF LastOf, Abstract!Content
<1> QED
  BY <1>1, <1>2

(* Every header that a power loss may leave of a unit the store holds. *)
LEMMA HoldsHeader ==
    ASSUME NEW s, NEW l, StoreOk(s, l), NEW u \in Unit,
           NEW cell \in Surviving(s.shard, u + 1), NEW a \in s.allocReg.may, NEW d \in s.discReg.may
    PROVE  /\ Blank(s, u, l) => HeaderBy(cell, u, a, d) = Zero
           /\ \A c \in Written : Shows(s, u, c, l) => HeaderBy(cell, u, a, d) = c
  BY UnitPos, SurvivingIs, Cells, WrittenIs DEF StoreOk, Blank, HeaderBy, Shows

(* An honest store shows the content of every unit that has no record *)
(* beyond the checkpoint: h is any header that it shows. *)
LEMMA HonestContent ==
    ASSUME NEW v, NEW l, DiskOk(v, l), NEW c \in Nat, c <= v.durable, Honest(v.s, v.log, v.durable, c, l), NEW u \in Unit,
           \A k \in (c + 1)..Len(v.log) : v.log[k].unit # u,
           NEW h, Blank(v.s, u, l) => h = Zero, \A e \in Written : Shows(v.s, u, e, l) => h = e
    PROVE  /\ Payload(h) = Abstract!Content(v.log, c, u)
           /\ Payload(h) = Abstract!Content(v.log, Len(v.log), u)
<1>0. v.log \in Seq(Records) /\ v.durable \in Nat /\ Len(v.log) \in Nat /\ v.durable <= Len(v.log)
  BY DiskIs
<1>1. CASE NoneOf(v.log, v.durable, u)
  <2>1. h = Zero
    BY <1>1 DEF Honest
  <2>2. NoneOf(v.log, c, u) /\ NoneOf(v.log, Len(v.log), u)
    <3>1. \A k \in 1..c : v.log[k].unit # u
      BY <1>0, <1>1 DEF NoneOf
    <3>2. \A k \in 1..Len(v.log) : k \in 1..c \/ k \in (c + 1)..Len(v.log)
      BY <1>0
    <3> QED
      BY <3>1, <3>2 DEF NoneOf
  <2> QED
    BY <1>0, <2>1, <2>2, PayloadIs, ContentIs
<1>2. CASE ~NoneOf(v.log, v.durable, u)
  <2>1. PICK n \in 1..v.durable : LastOf(v.log, v.durable, u, n)
    BY <1>0, <1>2, LastExists
  <2>2. n \in Nat /\ n <= c /\ n \in 1..Len(v.log) /\ v.log[n].unit = u
    BY <1>0, <2>1 DEF LastOf
  <2>3. LastOf(v.log, c, u, n) /\ LastOf(v.log, Len(v.log), u, n)
    BY <1>0, <2>1, <2>2 DEF LastOf
  <2>4. Holds(v.s, u, n, v.log[n].v, l)
    BY <2>1, <2>2 DEF Honest
  <2>5. v.log[n].v \in Payloads
    BY <1>0, <2>2, RecordIs
  <2>6. Payload(h) = v.log[n].v
    BY <2>4, PayloadIs, <2>5, <2>2, Slots DEF Holds, Payloads
  <2> QED
    BY <1>0, <2>2, <2>3, <2>6, ContentIs
<1> QED
  BY <1>1, <1>2

(* The overlay passes its audit and holds nothing beyond the journal. *)
LEMMA OverlaySane ==
    ASSUME NEW o, NEW log \in Seq(Records), NEW hi \in Nat, hi <= Len(log), NEW ck \in Nat, ck <= hi, OverlayOk(o, log, hi, ck)
    PROVE  Audited(o) /\ \A u \in Unit : o.latest[u].n <= Len(log)
<1>0. o \in OverlayType /\ Len(log) \in Nat /\ o.boundary = hi
  BY DEF OverlayOk
<1>1. ASSUME NEW u \in Unit
      PROVE  /\ o.latest[u].n <= Len(log)
             /\ o.durable[u] # NoVersion =>
                  /\ Held(o, u) /\ o.durable[u].n <= o.latest[u].n
                  /\ o.durable[u].n <= o.boundary
                  /\ o.durable[u].n = o.latest[u].n => o.durable[u] = o.latest[u]
             /\ Held(o, u) /\ o.latest[u].n <= o.boundary => o.durable[u] = o.latest[u]
  BY <1>0, OverlayIs, OverlayHolds, NoVersionIs DEF HoldsLatest, LastOf, Held, HoldsDurable
<1>2. ASSUME NEW p \in o.pending PROVE p.n > o.boundary /\ o.latest[p.unit].n >= p.n
  <2>1. PICK k \in (hi + 1)..Len(log) : p = [n |-> k, unit |-> log[k].unit]
    BY DEF OverlayOk
  <2>2. PICK u : u = log[k].unit
    OBVIOUS
  <2>3. p.n = k /\ p.unit = u /\ k \in 1..Len(log) /\ k \in Nat /\ k > hi
    BY <1>0, <2>1, <2>2
  <2>4. u \in Unit
    BY <2>2, <2>3, RecordIs
  <2>5. o.latest[u].n \in Nat /\ HoldsLatest(o, log, ck, u) /\ HoldsDurable(o, log, hi, ck, u)
    BY <1>0, <2>4, OverlayIs, OverlayHolds
  <2>6. Held(o, u)
    BY <2>2, <2>3, <2>5 DEF HoldsLatest
  <2>7. LastOf(log, Len(log), u, o.latest[u].n)
    BY <2>5, <2>6 DEF HoldsLatest
  <2>8. o.latest[u].n >= k
    BY <1>0, <2>2, <2>3, <2>5, <2>7 DEF LastOf
  <2> QED
    BY <1>0, <2>3, <2>8
<1>3. Counted(o)
  BY DEF OverlayOk
<1> QED
  BY <1>1, <1>2, <1>3 DEF Audited, Counted

(* What the invariant says of CheckpointHonest. *)
LEMMA TypesHold ==
    ASSUME IInv
    PROVE  TypeOK
<1>0. DiskOk(x, Live) /\ pc \in {"down", "replay", "up"} /\ at \in Nat
  BY IInvIs
<1>1. /\ x.log \in Seq(Records) /\ x.durable \in Nat /\ Len(x.log) \in Nat /\ x.ck \in Nat /\ x.s \in StoreType
      /\ x.durable <= Len(x.log) /\ x.ck <= x.durable /\ Len(x.log) <= MaxRecords
  BY <1>0, DiskIs
<1>2. x.s.alloc \subseteq Unit /\ x.s.disc \subseteq Unit /\ x.s.res \subseteq Unit /\ x.s.cursor \in 0..MaxLen /\ x.s.fails \in 0..MaxFails
  BY <1>1, StoreIs
<1>3. plan = NoPlan \/ plan.todo \subseteq plan.items
  BY PlanIs DEF PlanOk, Writes
<1>4. at \in 0..Len(x.log)
  BY <1>0, <1>1 DEF IInv, Memory
<1>5. x.durable \in 0..Len(x.log) /\ x.ck \in 0..MaxRecords
  BY <1>1, Consts
<1>6. x.log \in Seq([unit : Unit, v : Ciphertext \cup {Tombstone}])
  BY <1>1 DEF Records, Payloads
<1> QED
  BY <1>0, <1>2, <1>3, <1>4, <1>5, <1>6 DEF TypeOK, Appended

(* The volume is sane and its writes are reserved. *)
LEMMA SaneHolds ==
    ASSUME IInv
    PROVE  VolumeSane /\ ReservationHeld
  BY IInvIs, DiskIs, UpIs, OverlaySane DEF UpOk, DiskOk, VolumeSane, ReservationHeld, Reserved, Appended

(* The invariant implies CheckpointHonest. *)
LEMMA HonestHolds ==
    ASSUME IInv
    PROVE  CheckpointHonest
<1>0. DiskOk(x, Live)
  BY IInvIs
<1>1. PICK l \in BOOLEAN : l = Live
  BY IInvIs
<1>2. ASSUME NEW c \in x.ckReg.may \cup {x.ckReg.now}, NEW u \in Unit,
             \A k \in (c + 1)..Len(x.log) : x.log[k].unit # u,
             NEW cell \in Surviving(x.s.shard, u + 1), NEW a \in x.s.allocReg.may, NEW d \in x.s.discReg.may
      PROVE  Payload(HeaderBy(cell, u, a, d)) = Abstract!Content(x.log, c, u)
  <2>1. DiskOk(x, l)
    BY <1>0, <1>1
  <2>2. c \in x.ckReg.may /\ c \in Nat /\ c <= x.durable /\ StoreOk(x.s, l)
    BY <2>1, DiskIs
  <2>3. Honest(x.s, x.log, x.durable, c, l)
    BY <2>1, <2>2 DEF DiskOk
  <2>4. PICK h : h = HeaderBy(cell, u, a, d)
    OBVIOUS
  <2>5. Blank(x.s, u, l) => h = Zero
    BY <2>2, <2>4, HoldsHeader
  <2>6. \A e \in Written : Shows(x.s, u, e, l) => h = e
    BY <2>2, <2>4, HoldsHeader
  <2>7. Payload(h) = Abstract!Content(x.log, c, u)
    BY <1>2, <2>1, <2>2, <2>3, <2>5, <2>6, HonestContent
  <2> QED
    BY <2>4, <2>7
<1> QED
  BY <1>2, TypesHold, SaneHolds DEF CheckpointHonest, Appended

(* A checkpoint never claims more than the disk holds: whatever copy of *)
(* the checkpoint state, of the maps and of the shard a power loss leaves, *)
(* every unit without a newer record reads as of that checkpoint *)
(* (finish_checkpoint and apply_replay_batch store the slots, then the *)
(* maps, then the state); the volume's own invariants and the reservations *)
(* hold with it. *)
THEOREM CheckpointHonestAlways == Spec => []CheckpointHonest
  BY InvariantHolds, HonestHolds, PTL

-----------------------------------------------------------------------------
(* The volume implements DurableVolume. *)

(* A read returns the last record of its unit. *)
LEMMA ReadsLast ==
    ASSUME NEW v, UpOk(v), NEW u \in Unit
    PROVE  ReadCt(v, u) = Abstract!Content(v.log, Len(v.log), u)
<1>0. /\ DiskOk(v, TRUE) /\ v.log \in Seq(Records) /\ v.o \in OverlayType /\ StoreOk(v.s, TRUE)
      /\ v.durable \in Nat /\ v.ck \in Nat /\ Len(v.log) \in Nat /\ v.ck <= v.durable
  BY DiskIs, VolumeIs DEF UpOk
<1>1. HoldsLatest(v.o, v.log, v.ck, u)
  BY OverlayHolds DEF UpOk
<1>2. CASE Held(v.o, u)
  BY <1>1, <1>2, <1>0, OverlayIs, ContentIs DEF HoldsLatest, ReadCt
<1>3. CASE ~Held(v.o, u)
  <2>1. \A k \in (v.ck + 1)..Len(v.log) : v.log[k].unit # u
    BY <1>1, <1>3 DEF HoldsLatest
  <2>2. v.ck \in v.ckReg.may
    BY <1>0 DEF DiskOk, CkOk
  <2>3. Honest(v.s, v.log, v.durable, v.ck, TRUE)
    BY <1>0, <2>2 DEF DiskOk
  <2>4. PICK h : h = SlotHeader(v.s, u)
    OBVIOUS
  <2>5. Blank(v.s, u, TRUE) => h = Zero
    BY <1>0, <2>4, HeaderIs
  <2>6. \A e \in Written : Shows(v.s, u, e, TRUE) => h = e
    BY <1>0, <2>4, HeaderIs
  <2>7. PICK c \in Nat : c = v.ck
    BY <1>0
  <2>8. c <= v.durable /\ Honest(v.s, v.log, v.durable, c, TRUE) /\ \A k \in (c + 1)..Len(v.log) : v.log[k].unit # u
    BY <1>0, <2>1, <2>3, <2>7
  <2>9. DiskOk(v, TRUE)
    BY <1>0
  <2>10. Payload(h) = Abstract!Content(v.log, Len(v.log), u)
    BY ZenonT(60), <2>5, <2>6, <2>8, <2>9, HonestContent
  <2> QED
    BY <1>3, <2>4, <2>10 DEF ReadCt
<1> QED
  BY <1>2, <1>3

(* What is read is a payload, so an open volume is told from a closed one. *)
LEMMA ReadsOn ==
    ASSUME NEW log \in Seq(Records)
    PROVE  Abstract!Reads(log) # Abstract!Off
  BY VolumeAssumption, ContentIs, LastExists, RecordIs DEF Payloads, Abstract!Reads, Abstract!Off

(* What callers see of a state of the invariant. *)
Sees(p, v, w) == w = IF p = "up" THEN Abstract!Reads(v.log) ELSE Abstract!Off

(* What callers see is what the last records say. *)
LEMMA ViewOf ==
    ASSUME NEW v, NEW p, p = "up" => UpOk(v),
           NEW w, w = IF p = "up" THEN [u \in Unit |-> ReadCt(v, u)] ELSE [u \in Unit |-> "off"]
    PROVE  Sees(p, v, w)
  BY ReadsLast DEF Sees, Abstract!Reads, Abstract!Off

(* The same before a step. *)
LEMMA Viewed ==
    ASSUME IInv
    PROVE  Sees(pc, x, View) /\ x.log \in Seq(Records) /\ Abstract!Reads(x.log) # Abstract!Off
  BY UpIs, ViewOf, IInvIs, DiskIs, ReadsOn DEF View

(* The same after it. *)
LEMMA ViewedNext ==
    ASSUME IInv'
    PROVE  Sees(pc', x', View')
  BY ViewOf DEF IInv, Types, Disk, Memory, UpOk, DiskOk, Live, Points, View

(* A step of the volume as callers see it. *)
Maps == [Abstract!Next]_<<x.log, acked, View>>

(* A step that leaves the journal and what was reported stops, starts or *)
(* does nothing. *)
LEMMA SilentMaps ==
    ASSUME IInv, IInv', x'.log = x.log, acked' = acked
    PROVE  Maps
  BY Viewed, ViewedNext DEF Sees, Maps, Abstract!Stop, Abstract!Next, Abstract!Start

(* A foreground handler appends its record or does not, and may report *)
(* what precedes it. *)
LEMMA ForegroundMaps ==
    ASSUME IInv, IInv', pc = "up", pc' = "up", NEW u \in Unit, NEW c \in Payloads,
           x'.log = Append(x.log, [unit |-> u, v |-> c]) \/ x'.log = x.log,
           acked' = acked \/ acked' = Len(x'.log)
    PROVE  Maps
  BY Viewed, ViewedNext, SilentMaps DEF Sees, Abstract!Accept, Maps, Abstract!Next, Payloads, Abstract!Barrier

(* write_ct is an Accept, or fails unseen. *)
LEMMA WriteCtMaps ==
    ASSUME IInv, IInv', NEW u \in Unit, NEW c \in Ciphertext, NEW fua \in BOOLEAN, WriteCt(u, c, fua)
    PROVE  Maps
<1>1. pc = "up" /\ pc' = "up" /\ Len(x.log) < MaxRecords
  BY DEF WriteCt, Appended
<1>2. PICK r \in WriteOutcomes(x, u, c, fua) : Report(r) /\ acked' = IF r.ok /\ fua THEN Appended(r.x) ELSE acked
  BY DEF WriteCt
<1>3. x' = r.x
  BY <1>2, Reported
<1>4. r.x.log = Append(x.log, [unit |-> u, v |-> c]) \/ r.x.log = x.log
  BY <1>1, UpIs, WriteOutcomesIs
<1>5. acked' = acked \/ acked' = Len(x'.log)
  BY <1>2, <1>3 DEF Appended
<1> QED
  BY <1>1, <1>3, <1>4, <1>5, ForegroundMaps DEF Payloads

(* discard_ct is an Accept, a Barrier, or unseen. *)
LEMMA DiscardCtMaps ==
    ASSUME IInv, IInv', NEW u \in Unit, NEW fua \in BOOLEAN, DiscardCt(u, fua)
    PROVE  Maps
<1>1. pc = "up" /\ pc' = "up" /\ Len(x.log) < MaxRecords
  BY DEF DiscardCt, Appended
<1>2. PICK r \in DiscardOutcomes(x, u, fua) :
        Report(r) /\ acked' = IF r.ok /\ fua /\ ~Unwritten(x, u) THEN Appended(r.x) ELSE acked
  BY DEF DiscardCt
<1>3. x' = r.x
  BY <1>2, Reported
<1>4. r.x.log = Append(x.log, [unit |-> u, v |-> Tombstone]) \/ r.x.log = x.log
  BY <1>1, UpIs, DiscardOutcomesIs
<1>5. acked' = acked \/ acked' = Len(x'.log)
  BY <1>2, <1>3 DEF Appended
<1>6. Tombstone \in Payloads
  BY DEF Payloads
<1> QED
  BY <1>1, <1>3, <1>4, <1>5, <1>6, ForegroundMaps

(* A flush is a Barrier, or fails unseen. *)
LEMMA FlushMaps ==
    ASSUME IInv, IInv', Flush
    PROVE  Maps
  BY Reported, UpIs, JournalSyncIs, VolumeAssumption, ForegroundMaps DEF Flush, Appended, Payloads

(* No step of a checkpoint is seen. *)
LEMMA CheckpointMaps ==
    ASSUME IInv, IInv', PrepareCheckpoint \/ PlanWrite \/ PlanSync \/ FinishCheckpoint
    PROVE  Maps
<1>0. x \in VolumeType
  BY DEF IInv, Types
<1>1. CASE PrepareCheckpoint
  BY <1>1, <1>0, SilentMaps DEF PrepareCheckpoint, Promoted, VolumeType
<1>2. CASE PlanWrite
  BY <1>2, <1>0, SilentMaps DEF PlanWrite, VolumeType
<1>3. CASE PlanSync
  <2>1. acked' = acked
    BY <1>3 DEF PlanSync
  <2>2. PICK r \in IF Writes(plan.items) = {} THEN {Good(x)} ELSE ShardSynced(x) : Report(r)
    BY <1>3 DEF PlanSync
  <2>3. x' = r.x
    BY <2>2, Reported
  <2>4. r.x = x \/ \E g : r.x = [x EXCEPT !.s.shard = g]
    <3>1. r = Good(x) \/ r = Bad([x EXCEPT !.s.shard = SyncFailed(@)]) \/ r = Good([x EXCEPT !.s.shard = Synced(@)])
      BY <2>2 DEF ShardSynced
    <3>2. r.x = x \/ r.x = [x EXCEPT !.s.shard = SyncFailed(@)] \/ r.x = [x EXCEPT !.s.shard = Synced(@)]
      BY <3>1 DEF Good, Bad
    <3> QED
      BY <3>2
  <2>5. x'.log = x.log
    BY <1>0, <2>3, <2>4 DEF VolumeType
  <2> QED
    BY <2>1, <2>5, SilentMaps
<1>4. CASE FinishCheckpoint
  BY <1>4, Reported, PlanIs, UpIs, FinishOutcomesIs, SilentMaps DEF FinishCheckpoint, Finished
<1> QED
  BY <1>1, <1>2, <1>3, <1>4

(* While the volume is down a restart adopts a prefix that holds what was *)
(* reported. *)
LEMMA OpenMaps ==
    ASSUME IInv, IInv', Open
    PROVE  Maps
  BY IInvIs, DiskIs, Viewed, ViewedNext DEF Open, VolumeType, Appended, Sees, Abstract!Lose, Maps,
     Abstract!Next

(* The journal outlives the process. *)
LEMMA DeadLog ==
    ASSUME NEW v \in VolumeType
    PROVE  Dead(v).log = v.log
  BY DEF Dead, VolumeType

(* No batch of the replay is seen. *)
LEMMA ReplayMaps ==
    ASSUME IInv, IInv', Replay
    PROVE  Maps
<1>1. pc = "replay" /\ acked' = acked
  BY DEF Replay
<1>2. PICK a \in Nat : a = at
  BY ReplayingIs, <1>1
<1>3. PICK to \in (a + 1)..x.durable : \E r \in ReplayOutcomes(x, a + 1, to) : x' = r.x \/ x' = Dead(r.x)
  BY <1>2 DEF Replay, Down
<1>4. PICK r \in ReplayOutcomes(x, a + 1, to) : x' = r.x \/ x' = Dead(r.x)
  BY <1>3
<1>5. DiskOk(x, TRUE) /\ x.ckReg.may = {x.ck} /\ x.ck <= a /\ Honest(x.s, x.log, x.durable, a, TRUE)
  BY <1>1, <1>2, ReplayingIs
<1>6. DiskOk(r.x, TRUE) /\ SameBut(x, r.x)
  BY <1>5, ReplayOutcomesIs
<1>7. r.x.log = x.log /\ r.x \in VolumeType
  BY <1>6, DiskIs DEF SameBut
<1>8. x'.log = x.log
  BY <1>7, <1>4, DeadLog
<1> QED
  BY <1>1, <1>8, SilentMaps

(* The end of attach is a Start, or fails unseen. *)
LEMMA AttachedMaps ==
    ASSUME IInv, IInv', Attached
    PROVE  Maps
<1>1. pc = "replay" /\ acked' = acked /\ at >= x.durable
  BY DEF Attached
<1>2. /\ DiskOk(x, TRUE) /\ x.durable = Len(x.log) /\ at <= x.durable /\ at \in Nat
      /\ Honest(x.s, x.log, x.durable, at, TRUE)
  BY <1>1, ReplayingIs
<1>3. Honest(x.s, x.log, x.durable, x.durable, TRUE)
  <2>1. at = x.durable
    BY <1>1, <1>2, DiskIs
  <2> QED
    BY <1>2, <2>1
<1>4. PICK r \in Then(IF x.durable > x.ck
                      THEN Then(StatePublished(x, x.durable), LAMBDA q : Pruned(q.x))
                      ELSE {Good(x)},
                      LAMBDA q : OnStore(q.x, PersistDiscards(q.x.s))) :
        IF r.ok THEN x' = [r.x EXCEPT !.s = ScheduleReclamation(@), !.o = Promote(EmptyOverlay, r.x.durable)]
        ELSE x' = Dead(r.x)
  BY DEF Attached, Down
<1>5. DiskOk(r.x, TRUE) /\ r.x.log = x.log
  BY <1>2, <1>3, AttachedIs
<1>6. r.x \in VolumeType
  BY <1>5, DiskIs
<1>7. x'.log = x.log
  BY <1>4, <1>5, <1>6, DeadLog DEF VolumeType
<1> QED
  BY <1>1, <1>7, SilentMaps

(* A kill and a power loss are a Stop; an eviction is not seen. *)
LEMMA LossMaps ==
    ASSUME IInv, IInv', Kill \/ Crash \/ Evict
    PROVE  Maps
<1>0. x \in VolumeType
  BY DEF IInv, Types
<1>1. acked' = acked
  BY DEF Kill, Crash, Evict
<1>2. CASE Kill
  BY <1>2, <1>0, <1>1, DeadLog, SilentMaps DEF Kill, Down
<1>3. CASE Crash
  BY <1>3, <1>0, <1>1, SilentMaps DEF Crash, Dead, VolumeType
<1>4. CASE Evict
  BY <1>4, <1>0, <1>1, SilentMaps DEF Evict, VolumeType
<1> QED
  BY <1>2, <1>3, <1>4

(* Every step of the volume is one of DurableVolume, or is not seen. *)
LEMMA NextMaps ==
    ASSUME IInv, IInv', [Next]_vars
    PROVE  Maps
  BY DiscardCtMaps, WriteCtMaps, SilentMaps, FlushMaps, CheckpointMaps, OpenMaps, ReplayMaps, AttachedMaps,
     LossMaps DEF vars, Next

(* A new volume is one. *)
LEMMA InitMaps ==
    ASSUME Init
    PROVE  Abstract!Init
  BY DEF Init, View, Abstract!Off, Abstract!Init

(* The volume implements DurableVolume: whatever a checkpoint, an eviction, *)
(* a failed call, a kill or a power loss leaves, reads return the newest *)
(* accepted record of their unit, and no restart loses a record that a *)
(* flush or a FUA request reported durable. *)
THEOREM VolumeImplementsDurable == Spec => ImplementsDurableVolume
<1>1. Init => Abstract!Init
  BY InitMaps
<1>2. IInv /\ IInv' /\ [Next]_vars => [Abstract!Next]_<<x.log, acked, View>>
  BY NextMaps DEF Maps
<1>3. Spec => Init /\ [][Next]_vars
  BY DEF Spec
<1>4. Spec => Abstract!Init /\ [][Abstract!Next]_<<x.log, acked, View>>
  BY <1>1, <1>2, <1>3, InvariantHolds, PTL
<1> QED
  BY <1>4 DEF ImplementsDurableVolume, Abstract!Spec
=============================================================================
