---------------------------- MODULE EngineProofs ----------------------------
(***************************************************************************)
(* The data path of the engine is safe for every number of callbacks, *)
(* units, blocks, requests, batches and cache sizes: no update is lost *)
(* (NoLostUpdate), reads are linear and the read cache is coherent *)
(* (ReadsLinear), and what callers take to be durable is (AckedDurable). *)
(* *)
(* None of them is inductive. That a record keeps what it does not write *)
(* needs what its request read to be still current when it publishes *)
(* (Fresh), and that needs the unit locks: a write past the lock stage *)
(* holds its whole span (Placed), no two callbacks hold the same unit *)
(* (LocksApart), and only the units of a publisher's locks get new records *)
(* (LogStep). Fresh is what a cancelled publication that dropped its *)
(* guards would break. That reads are linear needs every view to come from *)
(* one state of the volume, which stays in the past of the log (OneMoment, *)
(* PastKept), and every cached entry to be the record it is filed under, *)
(* also when it is filed late (CacheOk, SeenOk). *)
(* *)
(* The cache and the log are changed by recursive functions over *)
(* sequences. What such a function keeps follows by induction over a set *)
(* of naturals (UpTo, IteratedKeeps), from the theorem that < is well *)
(* founded. That a caller cannot be stuck (NeverStuck) is a statement *)
(* about ENABLED and is left to the model checker. *)
(* *)
(* The second part is about EngineReclaim: the journal, the overlay and *)
(* the unsynced tail stay within their limits (BoundsHeld), and no write *)
(* is refused for room too early (NotRefusedEarly). An append adds exactly *)
(* what the admission counted (Footprint), whatever it rolls; a successful *)
(* checkpoint of everything leaves only the active segment (Swept), which *)
(* a roll has bounded (JournalOk). *)
(***************************************************************************)
EXTENDS Engine, EngineReclaim, SequenceTheorems, WellFoundedInduction, FiniteSetTheorems, TLAPS

(* The kinds of requests, and the types of contents, records, views of a *)
(* unit, cache entries and the cache. *)
Op == {"read", "write", "trim", "flush"}

Content == [Offset -> Nat]

LogRec == [unit : Unit, live : BOOLEAN, by : SUBSET Offset, data : Content \cup {Garbage}]

View == [n : Nat, data : Content, hit : BOOLEAN]

Entry == [seq : Nat \ {0}, data : Content, expired : BOOLEAN]

CacheRec == [map : [Unit -> Entry \cup {NoEntry}], order : Seq(Unit), max : Nat]

(* A request of a callback: what it asks is fixed when it begins, and it *)
(* locks only units of its span. *)
IsRequest(r) ==
    /\ r = [stage |-> r.stage, op |-> r.op, extent |-> r.extent, fua |-> r.fua, val |-> r.val,
            span |-> r.span, slots |-> r.slots, bytes |-> r.bytes, locks |-> r.locks,
            seen |-> r.seen, at |-> r.at, gone |-> r.gone]
    /\ r.stage \in Stages \ {"idle"} /\ r.op \in Op /\ r.extent \in Nat \X Nat /\ r.fua \in BOOLEAN
    /\ r.val \in Nat /\ r.span \subseteq Unit /\ r.locks \subseteq r.span
    /\ r.at \in Nat /\ r.gone \in BOOLEAN

(* What the stage of a request says about its kind and its locks. A write *)
(* or trim past the lock stage holds all of its span; the code takes the *)
(* locks in lock_range and keeps the guards until it ends. *)
Placed(r) ==
    /\ r.op = "read" => ~r.fua
    /\ r.stage \in {"items", "bytes", "fresh"} => r.locks = {}
    /\ r.stage = "lock" => r.locks # r.span
    /\ r.stage \in {"snapshot", "decrypt"} => r.op \in {"read", "write"}
    /\ r.stage = "encrypt" => r.op = "write"
    /\ r.stage \in {"lock", "publish"} => r.op \in {"write", "trim"}
    /\ r.stage \in {"snapshot", "decrypt", "encrypt", "publish"} /\ r.op # "read" => r.locks = r.span

(* The request has looked at its units and still uses what it saw. *)
Looked(r) == r.stage \in {"decrypt", "encrypt", "publish"} /\ r.op \in {"read", "write"}

(* Record n of the log is of unit u and holds data. *)
Filed(u, n, data) == n \in 1..Len(log) /\ log[n].unit = u /\ log[n].data = data

(* What a write has read of its partial units is still current. *)
Fresh(r) == r.op = "write" => \A u \in Wanted(r) : r.seen[u].data = ContentAt(u, Len(log))

(* What a request has seen is the volume at one moment since it began. *)
OneMoment(r) == \E i \in r.at..Len(log) : \A u \in Wanted(r) : r.seen[u].data = ContentAt(u, i)

(* What a request knows of the units it looked at. A view that still has *)
(* to be decrypted names the record it comes from, so it may be cached *)
(* under that version however late. *)
SeenOk(r) ==
    /\ r.seen \in [Wanted(r) -> View]
    /\ \A u \in Wanted(r) : ~r.seen[u].hit => Filed(u, r.seen[u].n, r.seen[u].data)
    /\ Fresh(r)
    /\ OneMoment(r)

(* A request in order. *)
RequestOk(r) == /\ IsRequest(r) /\ Placed(r) /\ r.at <= Len(log)
                /\ Looked(r) => SeenOk(r)

(* Every callback is idle or runs a request in order. *)
RequestsOk == \A c \in Client : rq[c] = NoRequest \/ RequestOk(rq[c])

(* The units in a recency index. *)
Listed(s) == {s[i] : i \in 1..Len(s)}

(* The recency index lists exactly the units with an entry, once each, and *)
(* the size limit holds. *)
Ordered(c) ==
    /\ Len(c.order) <= c.max
    /\ Listed(c.order) = {u \in Unit : Holds(c, u)}
    /\ IsInjective(c.order)

(* The cache is in order and every entry is the record it is filed under. *)
CacheOk(c) ==
    /\ c \in CacheRec
    /\ Ordered(c)
    /\ \A u \in Unit : Holds(c, u) => Filed(u, c.map[u].seq, c.map[u].data)

(* Record n changes only blocks its request wrote. *)
Kept(n) == \A o \in Offset \ log[n].by : log[n].data[o] = ContentAt(log[n].unit, n - 1)[o]

(* The log is of records that keep what they do not write, and without a *)
(* panic none of them is half updated. *)
LogOk ==
    /\ log \in Seq(LogRec)
    /\ \A n \in 1..Len(log) : Kept(n) /\ (~failed => log[n].data \in Content)

(* No unit is locked by two callbacks. *)
LocksApart ==
    \A c, d \in Client : c # d /\ Active(c) /\ Active(d) => rq[c].locks \cap rq[d].locks = {}

(* Counters within their limits, and no caller knows more than is durable. *)
CountsOk ==
    /\ maxBytes \in ByteLimits /\ failed \in BOOLEAN
    /\ ops \in 0..MaxOps /\ ticks \in 0..MaxExpiries
    /\ rq \in [Client -> {rq[c] : c \in Client}]
    /\ durable \in 0..Len(log) /\ acked \in Nat /\ acked <= durable

(* The inductive invariant. *)
IInv == CountsOk /\ LogOk /\ RequestsOk /\ LocksApart /\ CacheOk(cache)

-----------------------------------------------------------------------------
(* Induction over the naturals and what follows from it. *)

(* A nonempty set of naturals has a least member. *)
LEMMA LeastNat ==
    ASSUME NEW T \in SUBSET Nat, T # {}
    PROVE  \E x \in T : \A y \in T : x <= y
<1> DEFINE R == OpToRel(<, Nat)
<1>1. IsWellFoundedOn(R, Nat)
  BY NatLessThanWellFounded
<1>2. PICK x \in T : \A y \in T : ~(<<y, x>> \in R)
  BY <1>1, WFMin
<1>3. \A y \in T : ~(y < x)
  BY <1>2 DEF OpToRel
<1> QED
  BY <1>3

(* Induction up to N, over a set. *)
LEMMA UpTo ==
    ASSUME NEW N \in Nat, NEW S, 0 \in S, \A n \in 0..(N - 1) : n \in S => n + 1 \in S
    PROVE  0..N \subseteq S
<1> DEFINE T == {n \in 0..N : n \notin S}
<1> SUFFICES ASSUME T # {} PROVE FALSE
  OBVIOUS
<1>0. T \in SUBSET Nat
  OBVIOUS
<1>1. PICK x \in T : \A y \in T : x <= y
  BY <1>0, LeastNat
<1>2. x # 0 /\ x - 1 \in 0..(N - 1)
  OBVIOUS
<1>3. x - 1 \in S
  BY <1>1, <1>2
<1> QED
  BY <1>2, <1>3

(* A bounded nonempty set of naturals has a greatest member. *)
LEMMA GreatestNat ==
    ASSUME NEW N \in Nat, NEW T \in SUBSET (0..N), T # {}
    PROVE  \E x \in T : \A y \in T : y <= x
<1> DEFINE U == {N - x : x \in T}
<1>0. PICK t \in T : t \in 0..N
  OBVIOUS
<1>1. U \in SUBSET Nat /\ U # {}
  BY <1>0
<1>2. PICK z \in U : \A y \in U : z <= y
  BY <1>1, LeastNat
<1>3. PICK x \in T : z = N - x
  OBVIOUS
<1>4. \A y \in T : z <= N - y
  BY <1>2
<1> QED
  BY <1>3, <1>4

(* Max is the greatest member. *)
LEMMA MaxIs ==
    ASSUME NEW N \in Nat, NEW T \in SUBSET (0..N), T # {}
    PROVE  Max(T) \in T /\ \A y \in T : y <= Max(T)
  BY GreatestNat DEF Max

(* Min is the least member. *)
LEMMA MinIs ==
    ASSUME NEW T \in SUBSET Nat, T # {}
    PROVE  Min(T) \in T /\ \A y \in T : Min(T) <= y
  BY LeastNat DEF Min

(* g lists what the steps F make of c0, one after the other. *)
Iterates(g, N, C, c0, F) ==
    /\ g \in [0..N -> C] /\ g[0] = c0
    /\ \A i \in 1..N : g[i] = F[i][g[i - 1]]

(* Any steps have such a list: the recursive functions of the model exist. *)
LEMMA Iterated ==
    ASSUME NEW N \in Nat, NEW C, NEW c0 \in C, NEW F \in [1..N -> [C -> C]]
    PROVE  \E g : Iterates(g, N, C, c0, F)
<1> DEFINE P(n, g) == g[0] = c0 /\ \A i \in 1..n : g[i] = F[i][g[i - 1]]
<1> DEFINE S == {n \in 0..N : \E g \in [0..n -> C] : P(n, g)}
<1>1. 0 \in S
  <2> DEFINE g == [i \in 0..0 |-> c0]
  <2>1. g \in [0..0 -> C] /\ P(0, g)
    OBVIOUS
  <2>2. \E f \in [0..0 -> C] : P(0, f)
    <3> HIDE DEF P, g
    <3> QED
      BY <2>1
  <2> QED
    BY <2>2
<1>2. ASSUME NEW n \in 0..(N - 1), n \in S
      PROVE  n + 1 \in S
  <2>1. PICK g \in [0..n -> C] : P(n, g)
    BY <1>2
  <2> DEFINE h == [i \in 0..(n + 1) |-> IF i = n + 1 THEN F[n + 1][g[n]] ELSE g[i]]
  <2>2. F[n + 1] \in [C -> C] /\ g[n] \in C
    OBVIOUS
  <2>3. F[n + 1][g[n]] \in C
    BY <2>2
  <2>4. h \in [0..(n + 1) -> C]
    BY <2>3
  <2>5. \A i \in 1..(n + 1) : h[i] = F[i][h[i - 1]]
    <3> SUFFICES ASSUME NEW i \in 1..(n + 1) PROVE h[i] = F[i][h[i - 1]]
      OBVIOUS
    <3>1. CASE i = n + 1
      BY <3>1
    <3>2. CASE i # n + 1
      BY <3>2, <2>1
    <3> QED
      BY <3>1, <3>2
  <2>6. h[0] = c0
    BY <2>1
  <2>7. P(n + 1, h)
    BY <2>4, <2>5, <2>6
  <2>8. \E f \in [0..(n + 1) -> C] : P(n + 1, f)
    <3> HIDE DEF P, h
    <3> QED
      BY <2>4, <2>7
  <2> QED
    BY <2>8, SMTT(30)
<1>3. N \in S
  <2> HIDE DEF S
  <2>1. 0..N \subseteq S
    BY <1>1, <1>2, UpTo
  <2> QED
    BY <2>1
<1> QED
  BY <1>3 DEF Iterates

(* What every step of a recursive function keeps, its result has. *)
LEMMA IteratedKeeps ==
    ASSUME NEW N \in Nat, NEW C, NEW a, a[0] \in C, \A i \in 1..N : a[i - 1] \in C => a[i] \in C
    PROVE  a[N] \in C
<1> DEFINE S == {n \in 0..N : a[n] \in C}
<1>1. \A n \in 0..(N - 1) : n \in S => n + 1 \in S
  <2> SUFFICES ASSUME NEW n \in 0..(N - 1), a[n] \in C PROVE a[n + 1] \in C
    OBVIOUS
  <2>1. n + 1 \in 1..N /\ (n + 1) - 1 = n
    OBVIOUS
  <2> QED
    BY <2>1
<1>2. 0 \in S
  OBVIOUS
<1> HIDE DEF S
<1>3. 0..N \subseteq S
  BY <1>1, <1>2, UpTo
<1> QED
  BY <1>3 DEF S

-----------------------------------------------------------------------------
(* The recency index and the operations of the cache. *)

(* What the proofs use of the assumption on the constants. *)
LEMMA Constants ==
    /\ Units \in Nat /\ Units > 0 /\ BlocksPerUnit \in Nat /\ BlocksPerUnit > 0
    /\ MaxOps \in Nat /\ MaxExpiries \in Nat
    /\ CacheSizes \subseteq Nat /\ Filled \subseteq Unit /\ 0 \in Offset
  BY EngineAssumption DEF Unit, Offset

(* Units are naturals. *)
LEMMA UnitsAreNat == Unit \subseteq Nat
  BY Constants DEF Unit

(* Taking a unit out of a recency index leaves the others, once each. *)
LEMMA WithoutIs ==
    ASSUME NEW s \in Seq(Unit), IsInjective(s), NEW u
    PROVE  /\ Without(s, u) \in Seq(Unit) /\ IsInjective(Without(s, u))
           /\ Listed(Without(s, u)) = Listed(s) \ {u}
           /\ Len(Without(s, u)) \in Nat /\ Len(Without(s, u)) <= Len(s)
           /\ u \in Listed(s) => Len(Without(s, u)) = Len(s) - 1
<1> DEFINE w == Without(s, u)
<1>0. Len(s) \in Nat /\ DOMAIN s = 1..Len(s) /\ \A i \in 1..Len(s) : s[i] \in Unit
  OBVIOUS
<1>1. CASE \A i \in 1..Len(s) : s[i] # u
  <2>1. w = s
    BY <1>1 DEF Without
  <2>2. u \notin Listed(s)
    BY <1>1 DEF Listed
  <2>3. Listed(s) = Listed(s) \ {u}
    BY <2>2
  <2> HIDE DEF w
  <2>4. w \in Seq(Unit) /\ IsInjective(w) /\ Listed(w) = Listed(s) \ {u}
    BY <2>1, <2>3
  <2>5. Len(w) \in Nat /\ Len(w) <= Len(s)
    BY <2>1, <1>0
  <2> QED
    BY <2>2, <2>4, <2>5 DEF w
<1>2. CASE \E k \in 1..Len(s) : s[k] = u
  <2>1. PICK k \in 1..Len(s) : s[k] = u
    BY <1>2
  <2>2. \A j \in 1..Len(s) : s[j] = u => j = k
    BY <1>0, <2>1 DEF IsInjective
  <2>3. w = [i \in 1..(Len(s) - 1) |-> IF \E j \in 1..i : s[j] = u THEN s[i + 1] ELSE s[i]]
    BY <1>2 DEF Without
  <2>4. \A i \in 1..(Len(s) - 1) : (\E j \in 1..i : s[j] = u) <=> k <= i
    BY <1>0, <2>1, <2>2
  <2>5. w = [i \in 1..(Len(s) - 1) |-> IF k <= i THEN s[i + 1] ELSE s[i]]
    BY <2>3, <2>4
  <2>6. Len(s) - 1 \in Nat
    BY <1>0, <2>1
  <2>7. \A i \in 1..(Len(s) - 1) : w[i] \in Unit
    BY <1>0, <2>5
  <2>8. w \in Seq(Unit) /\ Len(w) = Len(s) - 1 /\ DOMAIN w = 1..(Len(s) - 1)
    BY <2>5, <2>6, <2>7
  <2>9. IsInjective(w)
    <3> SUFFICES ASSUME NEW a \in 1..(Len(s) - 1), NEW b \in 1..(Len(s) - 1), w[a] = w[b] PROVE a = b
      BY <2>8 DEF IsInjective
    <3> DEFINE x == IF k <= a THEN a + 1 ELSE a
    <3> DEFINE y == IF k <= b THEN b + 1 ELSE b
    <3>1. x \in 1..Len(s) /\ y \in 1..Len(s) /\ w[a] = s[x] /\ w[b] = s[y]
      BY <1>0, <2>5
    <3>2. x = y
      BY <1>0, <3>1 DEF IsInjective
    <3> QED
      BY <3>2, <2>1
  <2>10. u \in Listed(s)
    BY <2>1 DEF Listed
  <2>11. ASSUME NEW v \in Listed(w) PROVE v \in Listed(s) \ {u}
    <3>1. PICK a \in 1..(Len(s) - 1) : v = w[a]
      BY <2>8 DEF Listed
    <3> DEFINE x == IF k <= a THEN a + 1 ELSE a
    <3>2. x \in 1..Len(s) /\ w[a] = s[x] /\ x # k
      BY <1>0, <2>5, <2>1
    <3> QED
      BY <3>1, <3>2, <2>2 DEF Listed
  <2>12. ASSUME NEW v \in Listed(s), v # u PROVE v \in Listed(w)
    <3>1. PICK x \in 1..Len(s) : v = s[x]
      BY DEF Listed
    <3>2. x # k
      BY <2>1, <3>1, <2>12
    <3> DEFINE a == IF k < x THEN x - 1 ELSE x
    <3>3. a \in 1..(Len(s) - 1) /\ w[a] = s[x]
      BY <1>0, <2>1, <2>5, <3>2
    <3> QED
      BY <3>1, <3>3, <2>8 DEF Listed
  <2>13. Listed(w) = Listed(s) \ {u}
    BY <2>11, <2>12
  <2> QED
    BY <2>8, <2>9, <2>10, <2>13
<1> QED
  BY <1>1, <1>2

(* The fields of a cache; a unit has an entry or none. *)
LEMMA EntryOrNone ==
    ASSUME NEW c \in CacheRec, NEW u \in Unit
    PROVE  /\ c.map \in [Unit -> Entry \cup {NoEntry}] /\ c.order \in Seq(Unit) /\ c.max \in Nat
           /\ Holds(c, u) => /\ c.map[u] \in Entry /\ c.map[u].seq \in Nat /\ c.map[u].data \in Content
                             /\ c.map[u].expired \in BOOLEAN
  BY DEF CacheRec, Entry, Holds

(* Inner::remove takes one entry and leaves the others as they are. *)
LEMMA EvictedIs ==
    ASSUME NEW c \in CacheRec, Ordered(c), NEW u \in Unit
    PROVE  /\ Evicted(c, u) \in CacheRec /\ Ordered(Evicted(c, u))
           /\ Evicted(c, u).map = [c.map EXCEPT ![u] = NoEntry]
           /\ Evicted(c, u).order = Without(c.order, u) /\ Evicted(c, u).max = c.max
           /\ ~Holds(Evicted(c, u), u)
           /\ \A v \in Unit : Holds(Evicted(c, u), v) => Holds(c, v) /\ Evicted(c, u).map[v] = c.map[v]
<1> DEFINE e == Evicted(c, u)
<1>0. c.map \in [Unit -> Entry \cup {NoEntry}] /\ c.order \in Seq(Unit) /\ c.max \in Nat
  BY EntryOrNone
<1>1. e.map = [c.map EXCEPT ![u] = NoEntry] /\ e.order = Without(c.order, u) /\ e.max = c.max
      /\ e = [map |-> e.map, order |-> e.order, max |-> e.max]
  BY DEF Evicted
<1>2. /\ e.order \in Seq(Unit) /\ IsInjective(e.order) /\ Listed(e.order) = Listed(c.order) \ {u}
      /\ Len(e.order) <= Len(c.order)
  <2>1. IsInjective(c.order)
    BY DEF Ordered
  <2> QED
    BY <1>0, <1>1, <2>1, WithoutIs
<1>3. e.map \in [Unit -> Entry \cup {NoEntry}]
  BY <1>0, <1>1
<1>4. e \in CacheRec
  BY <1>0, <1>1, <1>2, <1>3 DEF CacheRec
<1>5. e.map[u] = NoEntry /\ \A v \in Unit : v # u => e.map[v] = c.map[v]
  BY <1>0, <1>1
<1>6. \A v \in Unit : Holds(e, v) <=> v # u /\ Holds(c, v)
  BY <1>5 DEF Holds
<1> HIDE DEF e
<1>7. Ordered(e)
  BY <1>0, <1>2, <1>1, <1>6 DEF Ordered
<1>8. \A v \in Unit : Holds(e, v) => Holds(c, v) /\ e.map[v] = c.map[v]
  BY <1>5, <1>6
<1>9. ~Holds(e, u)
  BY <1>6
<1> QED
  BY <1>1, <1>4, <1>7, <1>8, <1>9 DEF e

(* e is a cache in order that holds nothing c does not hold. *)
From(e, c) ==
    /\ e \in CacheRec /\ Ordered(e)
    /\ \A v \in Unit : Holds(e, v) => /\ Holds(c, v) /\ e.map[v].seq = c.map[v].seq
                                      /\ e.map[v].data = c.map[v].data

(* A cache whose entries come from one in order is in order. *)
LEMMA FromOk ==
    ASSUME NEW c, CacheOk(c), NEW e, From(e, c)
    PROVE  CacheOk(e)
  BY DEF CacheOk, From

(* remove only takes entries away. *)
LEMMA EvictedFrom ==
    ASSUME NEW c \in CacheRec, Ordered(c), NEW u \in Unit
    PROVE  From(Evicted(c, u), c)
<1>1. /\ Evicted(c, u) \in CacheRec /\ Ordered(Evicted(c, u))
      /\ \A v \in Unit : Holds(Evicted(c, u), v) => Holds(c, v) /\ Evicted(c, u).map[v] = c.map[v]
  BY EvictedIs
<1> QED
  BY <1>1 DEF From

(* A unit at the most recent end of an index that does not list it. *)
LEMMA AppendIs ==
    ASSUME NEW s \in Seq(Unit), IsInjective(s), NEW u \in Unit, u \notin Listed(s)
    PROVE  /\ Append(s, u) \in Seq(Unit) /\ IsInjective(Append(s, u))
           /\ Listed(Append(s, u)) = Listed(s) \cup {u} /\ Len(Append(s, u)) = Len(s) + 1
<1> DEFINE w == Append(s, u)
<1>0. Len(s) \in Nat /\ DOMAIN s = 1..Len(s)
  OBVIOUS
<1>1. w \in Seq(Unit) /\ Len(w) = Len(s) + 1 /\ DOMAIN w = 1..(Len(s) + 1)
  OBVIOUS
<1>2. w[Len(s) + 1] = u /\ \A i \in 1..Len(s) : w[i] = s[i]
  OBVIOUS
<1> HIDE DEF w
<1>3. \A i \in 1..Len(s) : s[i] # u
  BY DEF Listed
<1>4. IsInjective(w)
  <2> SUFFICES ASSUME NEW a \in 1..(Len(s) + 1), NEW b \in 1..(Len(s) + 1), w[a] = w[b] PROVE a = b
    BY <1>1 DEF IsInjective
  <2>1. CASE a \in 1..Len(s) /\ b \in 1..Len(s)
    BY <2>1, <1>0, <1>2 DEF IsInjective
  <2>2. CASE a = Len(s) + 1 \/ b = Len(s) + 1
    BY <1>0, <2>2, <1>2, <1>3
  <2> QED
    BY <2>1, <2>2, <1>0
<1>5. Listed(w) = Listed(s) \cup {u}
  BY <1>1, <1>0, <1>2 DEF Listed
<1> QED
  BY <1>1, <1>4, <1>5 DEF w

(* touch keeps the entries and reorders the index. *)
LEMMA TouchFrom ==
    ASSUME NEW c \in CacheRec, Ordered(c), NEW u \in Unit, Holds(c, u)
    PROVE  From(Touch(c, u), c)
<1> DEFINE e == Touch(c, u)
<1> DEFINE w == Without(c.order, u)
<1>0. c.map \in [Unit -> Entry \cup {NoEntry}] /\ c.order \in Seq(Unit) /\ c.max \in Nat
  BY EntryOrNone
<1>1. e.map = c.map /\ e.order = Append(w, u) /\ e.max = c.max
      /\ e = [map |-> e.map, order |-> e.order, max |-> e.max]
  BY DEF Touch
<1>2. IsInjective(c.order) /\ u \in Listed(c.order)
  BY DEF Ordered
<1>3. /\ w \in Seq(Unit) /\ IsInjective(w) /\ Listed(w) = Listed(c.order) \ {u}
      /\ Len(w) = Len(c.order) - 1
  BY <1>0, <1>2, WithoutIs
<1> HIDE DEF e, w
<1>4. u \notin Listed(w)
  BY <1>3
<1>5. /\ e.order \in Seq(Unit) /\ IsInjective(e.order) /\ Listed(e.order) = Listed(w) \cup {u}
      /\ Len(e.order) = Len(w) + 1
  BY <1>1, <1>3, <1>4, AppendIs
<1>6. e \in CacheRec
  BY <1>0, <1>1, <1>5 DEF CacheRec
<1>7. \A v \in Unit : Holds(e, v) <=> Holds(c, v)
  BY <1>1 DEF Holds
<1>8. Listed(e.order) = Listed(c.order)
  BY <1>2, <1>3, <1>5
<1>9. Len(e.order) <= e.max
  BY <1>0, <1>1, <1>3, <1>5 DEF Ordered
<1>10. Listed(e.order) = {v \in Unit : Holds(e, v)}
  BY <1>7, <1>8 DEF Ordered
<1>11. Ordered(e)
  BY <1>5, <1>9, <1>10 DEF Ordered
<1> QED
  BY <1>1, <1>6, <1>7, <1>11 DEF From, e

(* Dropping the k least recent units of an index. *)
LEMMA SuffixIs ==
    ASSUME NEW s \in Seq(Unit), IsInjective(s), NEW k \in 0..Len(s)
    PROVE  LET w == SubSeq(s, k + 1, Len(s))
               out == {s[i] : i \in 1..k}
           IN  /\ w \in Seq(Unit) /\ IsInjective(w) /\ Listed(w) = Listed(s) \ out /\ Len(w) = Len(s) - k
<1> DEFINE w == SubSeq(s, k + 1, Len(s))
<1> DEFINE out == {s[i] : i \in 1..k}
<1>0. Len(s) \in Nat /\ DOMAIN s = 1..Len(s)
  OBVIOUS
<1>a. k + 1 \in Int /\ Len(s) \in Int /\ \A i \in (k + 1)..Len(s) : s[i] \in Unit
  BY <1>0
<1>b. /\ w \in Seq(Unit) /\ Len(w) = (IF k + 1 <= Len(s) THEN Len(s) - (k + 1) + 1 ELSE 0)
      /\ \A i \in 1..(Len(s) - (k + 1) + 1) : w[i] = s[k + 1 + i - 1]
  BY <1>a, SubSeqProperties
<1>1. w \in Seq(Unit) /\ Len(w) = Len(s) - k /\ DOMAIN w = 1..(Len(s) - k)
  <2>1. Len(w) = Len(s) - k
    <3> HIDE DEF w
    <3>1. PICK n, m : n = Len(s) /\ m = Len(w)
      OBVIOUS
    <3>2. n \in Nat /\ k \in 0..n /\ m = (IF k + 1 <= n THEN n - (k + 1) + 1 ELSE 0)
      BY <1>0, <1>b, <3>1
    <3>3. m = n - k
      BY <3>2
    <3> QED
      BY <3>1, <3>3
  <2> HIDE DEF w
  <2> QED
    BY <1>b, <2>1
<1>2. \A i \in 1..(Len(s) - k) : w[i] = s[k + i]
  <2> HIDE DEF w
  <2> SUFFICES ASSUME NEW i \in 1..(Len(s) - k) PROVE w[i] = s[k + i]
    OBVIOUS
  <2>1. i \in 1..(Len(s) - (k + 1) + 1) /\ k + 1 + i - 1 = k + i
    BY <1>0
  <2> QED
    BY <1>b, <2>1
<1> HIDE DEF w
<1>3. IsInjective(w)
  <2> SUFFICES ASSUME NEW a \in 1..(Len(s) - k), NEW b \in 1..(Len(s) - k), w[a] = w[b] PROVE a = b
    BY <1>1 DEF IsInjective
  <2>1. k + a \in DOMAIN s /\ k + b \in DOMAIN s /\ s[k + a] = s[k + b]
    BY <1>0, <1>2
  <2>2. k + a = k + b
    BY <2>1 DEF IsInjective
  <2> QED
    BY <2>2
<1>4. ASSUME NEW v \in Listed(w) PROVE v \in Listed(s) \ out
  <2>1. PICK a \in 1..(Len(s) - k) : v = w[a]
    BY <1>1 DEF Listed
  <2>2. k + a \in 1..Len(s) /\ v = s[k + a]
    BY <1>0, <1>2, <2>1
  <2>3. \A i \in 1..k : s[i] # v
    <3> SUFFICES ASSUME NEW i \in 1..k, s[i] = v PROVE FALSE
      OBVIOUS
    <3>1. i \in DOMAIN s /\ k + a \in DOMAIN s
      BY <1>0, <2>2
    <3>2. i = k + a
      BY <2>2, <3>1 DEF IsInjective
    <3> QED
      BY <3>2
  <2> QED
    BY <2>2, <2>3 DEF Listed
<1>5. ASSUME NEW v \in Listed(s), v \notin out PROVE v \in Listed(w)
  <2>1. PICK x \in 1..Len(s) : v = s[x]
    BY DEF Listed
  <2>2. x \notin 1..k
    BY <1>5, <2>1
  <2>3. x - k \in 1..(Len(s) - k) /\ k + (x - k) = x
    BY <1>0, <2>2
  <2>4. w[x - k] = v
    BY <1>2, <2>1, <2>3
  <2> QED
    BY <1>1, <2>3, <2>4 DEF Listed
<1>6. Listed(w) = Listed(s) \ out
  BY <1>4, <1>5
<1> QED
  BY <1>1, <1>3, <1>6 DEF w

(* make_room keeps a part of the entries, and need more fit when the limit *)
(* allows it at all. *)
LEMMA MakeRoomFrom ==
    ASSUME NEW c \in CacheRec, Listed(c.order) = {u \in Unit : Holds(c, u)}, IsInjective(c.order),
           NEW need \in Nat
    PROVE  /\ MakeRoom(c, need) \in CacheRec /\ MakeRoom(c, need).max = c.max
           /\ Len(MakeRoom(c, need).order) \in Nat
           /\ c.max >= need => Len(MakeRoom(c, need).order) + need <= c.max
           /\ Listed(MakeRoom(c, need).order) = {u \in Unit : Holds(MakeRoom(c, need), u)}
           /\ IsInjective(MakeRoom(c, need).order)
           /\ \A v \in Unit : Holds(MakeRoom(c, need), v) =>
                 Holds(c, v) /\ MakeRoom(c, need).map[v] = c.map[v]
<1> DEFINE e == MakeRoom(c, need)
<1>0. /\ c.map \in [Unit -> Entry \cup {NoEntry}] /\ c.order \in Seq(Unit) /\ c.max \in Nat
      /\ Len(c.order) \in Nat
  BY EntryOrNone DEF CacheRec
<1> DEFINE surplus == Len(c.order) + need - c.max
<1> DEFINE k == IF surplus <= 0 THEN 0 ELSE IF surplus <= Len(c.order) THEN surplus ELSE Len(c.order)
<1> DEFINE out == {c.order[i] : i \in 1..k}
<1> DEFINE w == SubSeq(c.order, k + 1, Len(c.order))
<1>1. e = [map |-> [u \in DOMAIN c.map |-> IF u \in out THEN NoEntry ELSE c.map[u]],
           order |-> w, max |-> c.max]
  BY DEF MakeRoom
<1>2. k \in 0..Len(c.order) /\ surplus \in Int /\ (surplus <= Len(c.order) => k >= surplus)
  BY <1>0
<1> HIDE DEF k, surplus
<1>3. w \in Seq(Unit) /\ IsInjective(w) /\ Listed(w) = Listed(c.order) \ out /\ Len(w) = Len(c.order) - k
  BY <1>0, <1>2, SuffixIs
<1> HIDE DEF out, w
<1>4. /\ e.order = w /\ e.max = c.max /\ DOMAIN c.map = Unit
      /\ e.map = [u \in Unit |-> IF u \in out THEN NoEntry ELSE c.map[u]]
  BY <1>0, <1>1
<1>5. e.map \in [Unit -> Entry \cup {NoEntry}]
  BY <1>0, <1>4
<1>6. e \in CacheRec
  BY <1>0, <1>1, <1>3, <1>4, <1>5 DEF CacheRec
<1> HIDE DEF e
<1>7. \A v \in Unit : e.map[v] = IF v \in out THEN NoEntry ELSE c.map[v]
  BY <1>4
<1>8. \A v \in Unit : Holds(e, v) <=> Holds(c, v) /\ v \notin out
  BY <1>7 DEF Holds
<1>9. Listed(e.order) = {u \in Unit : Holds(e, u)}
  BY <1>3, <1>4, <1>8
<1>10. \A v \in Unit : Holds(e, v) => Holds(c, v) /\ e.map[v] = c.map[v]
  BY <1>7, <1>8
<1>11. Len(e.order) \in Nat /\ (c.max >= need => Len(e.order) + need <= c.max)
  BY <1>3, <1>4, <1>0, <1>2 DEF surplus
<1> QED
  BY <1>3, <1>4, <1>6, <1>9, <1>10, <1>11 DEF e

(* reconfigure keeps a part of the entries, within the new limit. *)
LEMMA ReconfigureFrom ==
    ASSUME NEW c \in CacheRec, Ordered(c), NEW max \in Nat
    PROVE  From(Reconfigure(c, max), c)
<1> DEFINE e == Reconfigure(c, max)
<1>0. c.map \in [Unit -> Entry \cup {NoEntry}] /\ c.order \in Seq(Unit) /\ DOMAIN c.map = Unit
  BY EntryOrNone DEF CacheRec
<1>1. CASE max = 0
  <2>1. e = [map |-> [u \in Unit |-> NoEntry], order |-> <<>>, max |-> 0]
    BY <1>0, <1>1 DEF Reconfigure, EmptyCache
  <2>2. e \in CacheRec
    BY <2>1 DEF CacheRec
  <2>3. \A v \in Unit : ~Holds(e, v)
    BY <2>1 DEF Holds
  <2>4. e.order = <<>> /\ e.max = 0
    BY <2>1
  <2>5. Listed(e.order) = {} /\ IsInjective(e.order) /\ Len(e.order) <= e.max
    BY <2>4 DEF Listed, IsInjective
  <2> HIDE DEF e
  <2>6. Ordered(e)
    BY <2>3, <2>5 DEF Ordered
  <2> QED
    BY <2>2, <2>3, <2>6 DEF From, e
<1>2. CASE max # 0
  <2> DEFINE d == [map |-> c.map, order |-> c.order, max |-> max]
  <2>1. e = MakeRoom(d, 0)
    BY <1>2 DEF Reconfigure
  <2>2. d \in CacheRec /\ d.map = c.map /\ d.order = c.order /\ d.max = max
    BY <1>0 DEF CacheRec
  <2> HIDE DEF d
  <2>3. \A v \in Unit : Holds(d, v) <=> Holds(c, v)
    BY <2>2 DEF Holds
  <2>4. Listed(d.order) = {u \in Unit : Holds(d, u)} /\ IsInjective(d.order)
    BY <2>2, <2>3 DEF Ordered
  <2>5. /\ e \in CacheRec /\ e.max = max /\ Len(e.order) \in Nat
        /\ d.max >= 0 => Len(e.order) + 0 <= d.max
        /\ Listed(e.order) = {u \in Unit : Holds(e, u)}
        /\ IsInjective(e.order)
        /\ \A v \in Unit : Holds(e, v) => Holds(d, v) /\ e.map[v] = d.map[v]
    BY <2>1, <2>2, <2>4, MakeRoomFrom
  <2> HIDE DEF e
  <2>6. Len(e.order) <= e.max
    BY <2>2, <2>5
  <2>7. Ordered(e)
    BY <2>5, <2>6 DEF Ordered
  <2>8. \A v \in Unit : Holds(e, v) => Holds(c, v) /\ e.map[v] = c.map[v]
    BY <2>2, <2>3, <2>5
  <2> QED
    BY <2>5, <2>7, <2>8 DEF From, e
<1> QED
  BY <1>1, <1>2

(* An entry that expires keeps its version and contents. *)
LEMMA ExpiredFrom ==
    ASSUME NEW c \in CacheRec, Ordered(c), NEW u \in Unit, Holds(c, u)
    PROVE  From(Expired(c, u), c)
<1> DEFINE e == Expired(c, u)
<1> DEFINE x == [seq |-> c.map[u].seq, data |-> c.map[u].data, expired |-> TRUE]
<1>0. c.map \in [Unit -> Entry \cup {NoEntry}] /\ c.order \in Seq(Unit) /\ c.max \in Nat /\ c.map[u] \in Entry
  BY EntryOrNone
<1>1. x \in Entry /\ x # NoEntry /\ x.seq = c.map[u].seq /\ x.data = c.map[u].data
  BY <1>0 DEF Entry, NoEntry
<1>2. e = [map |-> [c.map EXCEPT ![u] = x], order |-> c.order, max |-> c.max]
  BY DEF Expired
<1> HIDE DEF x
<1>3. e.map = [c.map EXCEPT ![u] = x] /\ e.order = c.order /\ e.max = c.max
  BY <1>2
<1>4. e.map \in [Unit -> Entry \cup {NoEntry}] /\ e.map[u] = x /\ \A v \in Unit \ {u} : e.map[v] = c.map[v]
  BY <1>0, <1>1, <1>3
<1>5. e \in CacheRec
  BY <1>0, <1>2, <1>3, <1>4 DEF CacheRec
<1> HIDE DEF e
<1>6. \A v \in Unit : Holds(e, v) <=> Holds(c, v)
  BY <1>1, <1>4 DEF Holds
<1>7. Ordered(e)
  BY <1>3, <1>6 DEF Ordered
<1>8. \A v \in Unit : e.map[v].seq = c.map[v].seq \/ v # u
  BY <1>1, <1>4
<1>9. \A v \in Unit : Holds(e, v) => /\ Holds(c, v) /\ e.map[v].seq = c.map[v].seq
                                     /\ e.map[v].data = c.map[v].data
  BY <1>1, <1>4, <1>6
<1> QED
  BY <1>5, <1>7, <1>9 DEF From, e

(* get only reorders or takes away. *)
LEMMA GetFrom ==
    ASSUME NEW c \in CacheRec, Ordered(c), NEW u \in Unit, NEW n
    PROVE  From(Get(c, u, n), c)
  BY TouchFrom, EvictedFrom DEF Get, Hit, From

(* put files the contents of a record under its version and leaves the *)
(* cache in order, whatever is cached by then. *)
LEMMA PutOk ==
    ASSUME NEW c, CacheOk(c), NEW u \in Unit, NEW n \in Nat, NEW d \in Content, Filed(u, n, d)
    PROVE  CacheOk(Put(c, u, n, d))
<1> DEFINE g == Evicted(c, u)
<1> DEFINE m == MakeRoom(g, 1)
<1> DEFINE x == [seq |-> n, data |-> d, expired |-> FALSE]
<1> DEFINE e == [map |-> [m.map EXCEPT ![u] = x], order |-> Append(m.order, u), max |-> c.max]
<1>0. c \in CacheRec /\ Ordered(c) /\ c.max \in Nat
  BY EntryOrNone DEF CacheOk
<1>1. Put(c, u, n, d) = IF Holds(c, u) /\ c.map[u].seq > n THEN c ELSE IF c.max = 0 THEN g ELSE e
  BY DEF Put
<1>2. CacheOk(g)
  BY <1>0, EvictedFrom, FromOk
<1>3. g \in CacheRec /\ Ordered(g) /\ g.max = c.max /\ ~Holds(g, u)
  BY <1>0, EvictedIs
<1> HIDE DEF g
<1>4. /\ m \in CacheRec /\ m.max = g.max /\ Len(m.order) \in Nat
      /\ g.max >= 1 => Len(m.order) + 1 <= g.max
      /\ Listed(m.order) = {v \in Unit : Holds(m, v)}
      /\ IsInjective(m.order)
      /\ \A v \in Unit : Holds(m, v) => Holds(g, v) /\ m.map[v] = g.map[v]
  BY <1>3, MakeRoomFrom DEF Ordered
<1> HIDE DEF m
<1>5. /\ m.map \in [Unit -> Entry \cup {NoEntry}] /\ m.order \in Seq(Unit)
      /\ ~Holds(m, u) /\ u \notin Listed(m.order)
  BY <1>3, <1>4, EntryOrNone
<1>6. x \in Entry /\ x # NoEntry /\ x.seq = n /\ x.data = d
  BY DEF Filed, Entry, NoEntry
<1> HIDE DEF x
<1>7. /\ e.map = [m.map EXCEPT ![u] = x] /\ e.order = Append(m.order, u) /\ e.max = c.max
      /\ e = [map |-> e.map, order |-> e.order, max |-> e.max]
  OBVIOUS
<1> HIDE DEF e
<1>8. e.map \in [Unit -> Entry \cup {NoEntry}] /\ e.map[u] = x /\ \A v \in Unit \ {u} : e.map[v] = m.map[v]
  BY <1>5, <1>6, <1>7
<1>9. /\ e.order \in Seq(Unit) /\ IsInjective(e.order) /\ Listed(e.order) = Listed(m.order) \cup {u}
      /\ Len(e.order) = Len(m.order) + 1
  BY <1>4, <1>5, <1>7, AppendIs
<1>10. e \in CacheRec
  BY <1>0, <1>7, <1>8, <1>9 DEF CacheRec
<1>11. \A v \in Unit : Holds(e, v) <=> v = u \/ Holds(m, v)
  BY <1>6, <1>8 DEF Holds
<1>12. c.max # 0 => Len(e.order) <= e.max
  BY <1>0, <1>3, <1>4, <1>7, <1>9
<1>13. Listed(e.order) = {v \in Unit : Holds(e, v)}
  BY <1>4, <1>9, <1>11
<1>14. ASSUME NEW v \in Unit, Holds(e, v)
       PROVE  Filed(v, e.map[v].seq, e.map[v].data)
  BY <1>6, <1>8, <1>4, <1>11, <1>14, <1>2 DEF CacheOk
<1>15. c.max # 0 => CacheOk(e)
  BY <1>9, <1>10, <1>12, <1>13, <1>14 DEF CacheOk, Ordered
<1> QED
  BY <1>1, <1>2, <1>15

(* The caches that are in order and hold what the volume holds. *)
Caches == {c \in CacheRec : CacheOk(c)}

(* The set of the caches in order. *)
LEMMA CachesAre ==
    \A c : c \in Caches <=> CacheOk(c)
  BY DEF Caches, CacheOk

(* The lookups of a snapshot leave the cache in order. *)
LEMMA LookedUpOk ==
    ASSUME CacheOk(cache), NEW s \in Seq(Unit)
    PROVE  CacheOk(LookedUp(s))
<1> DEFINE St(c, u) == IF CurrentSequence(u) = 0 THEN c ELSE Get(c, u, CurrentSequence(u))
<1> DEFINE Eq(a) == a = [i \in 0..Len(s) |-> IF i = 0 THEN cache ELSE St(a[i - 1], s[i])]
<1> DEFINE F == [i \in 1..Len(s) |-> [c \in Caches |-> St(c, s[i])]]
<1>0. Len(s) \in Nat /\ \A i \in 1..Len(s) : s[i] \in Unit
  OBVIOUS
<1>1. ASSUME NEW c \in Caches, NEW u \in Unit
      PROVE  St(c, u) \in Caches
  BY CachesAre, GetFrom, FromOk DEF CacheOk
<1>2. LookedUp(s) = (CHOOSE a : Eq(a))[Len(s)]
  BY DEF LookedUp
<1> HIDE DEF St
<1>3. F \in [1..Len(s) -> [Caches -> Caches]]
  BY <1>0, <1>1
<1>4. cache \in Caches
  BY CachesAre
<1>a. PICK g : Iterates(g, Len(s), Caches, cache, F)
  <2> HIDE DEF F
  <2> QED
    BY <1>0, <1>3, <1>4, Iterated
<1>5. g \in [0..Len(s) -> Caches] /\ g[0] = cache /\ \A i \in 1..Len(s) : g[i] = F[i][g[i - 1]]
  <2> HIDE DEF F
  <2> QED
    BY <1>a DEF Iterates
<1>6. \A i \in 1..Len(s) : g[i] = St(g[i - 1], s[i])
  <2> SUFFICES ASSUME NEW i \in 1..Len(s) PROVE g[i] = St(g[i - 1], s[i])
    OBVIOUS
  <2>1. g[i - 1] \in Caches
    BY <1>0, <1>5
  <2> QED
    BY <1>5, <2>1
<1>7. Eq(g)
  BY <1>0, <1>5, <1>6
<1>8. PICK a : a = (CHOOSE h : Eq(h)) /\ Eq(a)
  <2> HIDE DEF Eq
  <2> QED
    BY <1>7
<1>9. a[0] = cache /\ \A i \in 1..Len(s) : a[i] = St(a[i - 1], s[i])
  <2>1. a = [i \in 0..Len(s) |-> IF i = 0 THEN cache ELSE St(a[i - 1], s[i])]
    BY <1>8
  <2>2. \A i \in 0..Len(s) : a[i] = IF i = 0 THEN cache ELSE St(a[i - 1], s[i])
    BY <2>1
  <2> QED
    BY <1>0, <2>2
<1>10. a[Len(s)] \in Caches
  <2>1. \A i \in 1..Len(s) : a[i - 1] \in Caches => a[i] \in Caches
    BY <1>0, <1>1, <1>9
  <2> QED
    BY <1>0, <1>4, <1>9, <2>1, IteratedKeeps
<1> QED
  BY <1>2, <1>8, <1>10, CachesAre

(* A reader that files what it decrypted leaves the cache in order. *)
LEMMA CachedOk ==
    ASSUME CacheOk(cache), NEW s \in Seq(Unit), NEW r,
           \A i \in 1..Len(s) : /\ Filed(s[i], r.seen[s[i]].n, r.seen[s[i]].data)
                                /\ r.seen[s[i]].n \in Nat /\ r.seen[s[i]].data \in Content
    PROVE  CacheOk(Cached(r, s))
<1> DEFINE St(c, u) == Put(c, u, r.seen[u].n, r.seen[u].data)
<1> DEFINE Eq(a) == a = [i \in 0..Len(s) |-> IF i = 0 THEN cache ELSE St(a[i - 1], s[i])]
<1> DEFINE F == [i \in 1..Len(s) |-> [c \in Caches |-> St(c, s[i])]]
<1>0. Len(s) \in Nat /\ \A i \in 1..Len(s) : s[i] \in Unit
  OBVIOUS
<1>1. ASSUME NEW c \in Caches, NEW i \in 1..Len(s)
      PROVE  St(c, s[i]) \in Caches
  BY CachesAre, <1>0, PutOk
<1>2. Cached(r, s) = (CHOOSE a : Eq(a))[Len(s)]
  BY DEF Cached
<1> HIDE DEF St
<1>3. F \in [1..Len(s) -> [Caches -> Caches]]
  BY <1>0, <1>1
<1>4. cache \in Caches
  BY CachesAre
<1>a. PICK g : Iterates(g, Len(s), Caches, cache, F)
  <2> HIDE DEF F
  <2> QED
    BY <1>0, <1>3, <1>4, Iterated
<1>5. g \in [0..Len(s) -> Caches] /\ g[0] = cache /\ \A i \in 1..Len(s) : g[i] = F[i][g[i - 1]]
  <2> HIDE DEF F
  <2> QED
    BY <1>a DEF Iterates
<1>6. \A i \in 1..Len(s) : g[i] = St(g[i - 1], s[i])
  <2> SUFFICES ASSUME NEW i \in 1..Len(s) PROVE g[i] = St(g[i - 1], s[i])
    OBVIOUS
  <2>1. g[i - 1] \in Caches
    BY <1>0, <1>5
  <2> QED
    BY <1>5, <2>1
<1>7. Eq(g)
  BY <1>0, <1>5, <1>6
<1>8. PICK a : a = (CHOOSE h : Eq(h)) /\ Eq(a)
  <2> HIDE DEF Eq
  <2> QED
    BY <1>7
<1>9. a[0] = cache /\ \A i \in 1..Len(s) : a[i] = St(a[i - 1], s[i])
  <2>1. a = [i \in 0..Len(s) |-> IF i = 0 THEN cache ELSE St(a[i - 1], s[i])]
    BY <1>8
  <2>2. \A i \in 0..Len(s) : a[i] = IF i = 0 THEN cache ELSE St(a[i - 1], s[i])
    BY <2>1
  <2> QED
    BY <1>0, <2>2
<1>10. a[Len(s)] \in Caches
  <2>1. \A i \in 1..Len(s) : a[i - 1] \in Caches => a[i] \in Caches
    BY <1>0, <1>1, <1>9
  <2> QED
    BY <1>0, <1>4, <1>9, <2>1, IteratedKeeps
<1> QED
  BY <1>2, <1>8, <1>10, CachesAre

(* A publication that drops the entries of its units leaves the cache in *)
(* order. *)
LEMMA InvalidatedOk ==
    ASSUME CacheOk(cache), NEW s \in Seq(Unit)
    PROVE  CacheOk(Invalidated(s))
<1> DEFINE St(c, u) == Evicted(c, u)
<1> DEFINE Eq(a) == a = [i \in 0..Len(s) |-> IF i = 0 THEN cache ELSE St(a[i - 1], s[i])]
<1> DEFINE F == [i \in 1..Len(s) |-> [c \in Caches |-> St(c, s[i])]]
<1>0. Len(s) \in Nat /\ \A i \in 1..Len(s) : s[i] \in Unit
  OBVIOUS
<1>1. ASSUME NEW c \in Caches, NEW u \in Unit
      PROVE  St(c, u) \in Caches
  BY CachesAre, EvictedFrom, FromOk DEF CacheOk
<1>2. Invalidated(s) = (CHOOSE a : Eq(a))[Len(s)]
  BY DEF Invalidated
<1> HIDE DEF St
<1>3. F \in [1..Len(s) -> [Caches -> Caches]]
  BY <1>0, <1>1
<1>4. cache \in Caches
  BY CachesAre
<1>a. PICK g : Iterates(g, Len(s), Caches, cache, F)
  <2> HIDE DEF F
  <2> QED
    BY <1>0, <1>3, <1>4, Iterated
<1>5. g \in [0..Len(s) -> Caches] /\ g[0] = cache /\ \A i \in 1..Len(s) : g[i] = F[i][g[i - 1]]
  <2> HIDE DEF F
  <2> QED
    BY <1>a DEF Iterates
<1>6. \A i \in 1..Len(s) : g[i] = St(g[i - 1], s[i])
  <2> SUFFICES ASSUME NEW i \in 1..Len(s) PROVE g[i] = St(g[i - 1], s[i])
    OBVIOUS
  <2>1. g[i - 1] \in Caches
    BY <1>0, <1>5
  <2> QED
    BY <1>5, <2>1
<1>7. Eq(g)
  BY <1>0, <1>5, <1>6
<1>8. PICK a : a = (CHOOSE h : Eq(h)) /\ Eq(a)
  <2> HIDE DEF Eq
  <2> QED
    BY <1>7
<1>9. a[0] = cache /\ \A i \in 1..Len(s) : a[i] = St(a[i - 1], s[i])
  <2>1. a = [i \in 0..Len(s) |-> IF i = 0 THEN cache ELSE St(a[i - 1], s[i])]
    BY <1>8
  <2>2. \A i \in 0..Len(s) : a[i] = IF i = 0 THEN cache ELSE St(a[i - 1], s[i])
    BY <2>1
  <2> QED
    BY <1>0, <2>2
<1>10. a[Len(s)] \in Caches
  <2>1. \A i \in 1..Len(s) : a[i - 1] \in Caches => a[i] \in Caches
    BY <1>0, <1>1, <1>9
  <2> QED
    BY <1>0, <1>4, <1>9, <2>1, IteratedKeeps
<1> QED
  BY <1>2, <1>8, <1>10, CachesAre

-----------------------------------------------------------------------------
(* The versions of a unit. *)

(* Zeroes are contents a unit may have; what a panic leaves is not. *)
LEMMA Contents == Zeroes \in Content /\ Garbage \notin Content
  BY Constants DEF Zeroes, Content, Garbage

(* The fields of a record. *)
LEMMA LogFields ==
    ASSUME log \in Seq(LogRec), NEW n \in 1..Len(log)
    PROVE  /\ log[n] \in LogRec /\ log[n].unit \in Unit /\ log[n].live \in BOOLEAN
           /\ log[n].by \in SUBSET Offset /\ log[n].data \in Content \cup {Garbage}
<1>1. log[n] \in LogRec
  OBVIOUS
<1> QED
  BY <1>1 DEF LogRec

(* The version of a unit after i records is one of them, of that unit, or *)
(* 0. *)
LEMMA VersionIs ==
    ASSUME NEW u, NEW i \in Nat
    PROVE  /\ Version(u, i) \in 0..i
           /\ Version(u, i) # 0 => log[Version(u, i)].unit = u
<1> DEFINE T == {0} \cup {n \in 1..i : log[n].unit = u}
<1>1. T \in SUBSET (0..i) /\ T # {}
  OBVIOUS
<1>2. Max(T) \in T
  BY <1>1, MaxIs
<1>3. Version(u, i) = Max(T)
  BY DEF Version
<1> HIDE DEF T
<1>4. Version(u, i) \in T
  BY <1>2, <1>3
<1> QED
  BY <1>4 DEF T

(* So is the sequence that current_sequence reports. *)
LEMMA SequenceIs ==
    ASSUME NEW u, NEW i \in Nat
    PROVE  /\ SequenceAt(u, i) \in 0..i
           /\ SequenceAt(u, i) # 0 => log[SequenceAt(u, i)].unit = u
  BY VersionIs DEF SequenceAt

(* The log only grows. *)
Grows ==
    /\ log \in Seq(LogRec) /\ log' \in Seq(LogRec) /\ Len(log) <= Len(log')
    /\ \A n \in 1..Len(log) : log'[n] = log[n]

(* The lengths of a log that grows. *)
LEMMA GrowsLen ==
    ASSUME Grows
    PROVE  Len(log) \in Nat /\ Len(log') \in Nat /\ Len(log) <= Len(log')
  BY DEF Grows

(* The past states of the volume stay what they were. *)
LEMMA PastKept ==
    ASSUME Grows, NEW u, NEW i \in 0..Len(log)
    PROVE  ContentAt(u, i)' = ContentAt(u, i) /\ SequenceAt(u, i)' = SequenceAt(u, i)
<1>1. {n \in 1..i : log'[n].unit = u} = {n \in 1..i : log[n].unit = u}
  BY GrowsLen DEF Grows
<1>2. Version(u, i)' = Version(u, i)
  BY <1>1 DEF Version
<1>3. Version(u, i) \in 0..i
  BY VersionIs
<1>4. Version(u, i) # 0 => log'[Version(u, i)] = log[Version(u, i)]
  BY <1>3, GrowsLen DEF Grows
<1>5. SequenceAt(u, i)' = SequenceAt(u, i)
  BY <1>2, <1>4 DEF SequenceAt
<1>6. SequenceAt(u, i) # 0 => log'[SequenceAt(u, i)] = log[SequenceAt(u, i)]
  BY SequenceIs, GrowsLen DEF Grows
<1> QED
  BY <1>5, <1>6 DEF ContentAt

(* A record stays where it is filed. *)
LEMMA FiledKept ==
    ASSUME Grows, NEW u, NEW n, NEW d, Filed(u, n, d)
    PROVE  Filed(u, n, d)'
  BY GrowsLen DEF Filed, Grows

(* A record that kept what it did not write still does. *)
LEMMA KeptKept ==
    ASSUME Grows, NEW n \in 1..Len(log), Kept(n)
    PROVE  Kept(n)'
  BY GrowsLen, PastKept DEF Grows, Kept

(* A cache in order stays so while the log grows. *)
LEMMA CacheKept ==
    ASSUME Grows, NEW c, CacheOk(c)
    PROVE  CacheOk(c)'
  BY FiledKept DEF CacheOk, Ordered, Holds

(* The same across a step: nothing published for the unit between i *)
(* records before and j records after it. *)
LEMMA SkippedNext ==
    ASSUME Grows, NEW u, NEW i \in 0..Len(log), NEW j \in 0..Len(log'), i <= j,
           \A n \in (i + 1)..j : log'[n].unit # u
    PROVE  ContentAt(u, j)' = ContentAt(u, i)
<1>0. i \in Nat /\ j \in Nat /\ \A n \in 1..i : log'[n] = log[n]
  BY GrowsLen DEF Grows
<1>1. {n \in 1..j : log'[n].unit = u} = {n \in 1..i : log[n].unit = u}
  BY <1>0
<1>2. Version(u, j)' = Version(u, i)
  BY <1>1 DEF Version
<1>3. Version(u, i) \in 0..i /\ SequenceAt(u, i) \in 0..i
  BY <1>0, VersionIs, SequenceIs
<1>4. SequenceAt(u, j)' = SequenceAt(u, i)
  BY <1>0, <1>2, <1>3 DEF SequenceAt
<1> QED
  BY <1>0, <1>3, <1>4 DEF ContentAt

-----------------------------------------------------------------------------
(* Requests. *)

(* A request, field by field. *)
Full(stage, op, extent, fua, val, span, slots, bytes, locks, seen, at, gone) ==
    [stage |-> stage, op |-> op, extent |-> extent, fua |-> fua, val |-> val, span |-> span,
     slots |-> slots, bytes |-> bytes, locks |-> locks, seen |-> seen, at |-> at, gone |-> gone]

(* n is r but for the fields given. *)
With(n, r, stage, span, slots, bytes, locks, seen, gone) ==
    n = Full(stage, r.op, r.extent, r.fua, r.val, span, slots, bytes, locks, seen, r.at, gone)

(* The fields of a request that is r but for the ones given. *)
LEMMA FullFields ==
    ASSUME NEW n, NEW r, NEW st, NEW sp, NEW sl, NEW b, NEW l, NEW se, NEW g,
           With(n, r, st, sp, sl, b, l, se, g)
    PROVE  /\ n.stage = st /\ n.op = r.op /\ n.extent = r.extent /\ n.fua = r.fua /\ n.val = r.val
           /\ n.span = sp /\ n.slots = sl /\ n.bytes = b /\ n.locks = l /\ n.seen = se /\ n.at = r.at
           /\ n.gone = g
  BY DEF With, Full

(* Setting one field. *)
LEMMA SetOne ==
    ASSUME NEW n, NEW r, NEW st, NEW sp, NEW sl, NEW b, NEW l, NEW se, NEW g,
           With(n, r, st, sp, sl, b, l, se, g), NEW x
    PROVE  /\ With([n EXCEPT !.stage = x], r, x, sp, sl, b, l, se, g)
           /\ With([n EXCEPT !.span = x], r, st, x, sl, b, l, se, g)
           /\ With([n EXCEPT !.slots = x], r, st, sp, x, b, l, se, g)
           /\ With([n EXCEPT !.bytes = x], r, st, sp, sl, x, l, se, g)
           /\ With([n EXCEPT !.locks = x], r, st, sp, sl, b, x, se, g)
           /\ With([n EXCEPT !.seen = x], r, st, sp, sl, b, l, x, g)
           /\ With([n EXCEPT !.gone = x], r, st, sp, sl, b, l, se, x)
  BY DEF With, Full

(* A request is itself but for nothing. *)
LEMMA Itself ==
    ASSUME NEW r, IsRequest(r)
    PROVE  With(r, r, r.stage, r.span, r.slots, r.bytes, r.locks, r.seen, r.gone)
  BY DEF IsRequest, With, Full

(* The updates that the actions make, field by field: the stage; *)
LEMMA ToStage ==
    ASSUME NEW r, IsRequest(r), NEW st
    PROVE  With([r EXCEPT !.stage = st], r, st, r.span, r.slots, r.bytes, r.locks, r.seen, r.gone)
  BY Itself, SetOne

(* the stage and the slots; *)
LEMMA ToStageSlots ==
    ASSUME NEW r, IsRequest(r), NEW st, NEW sl
    PROVE  With([r EXCEPT !.stage = st, !.slots = sl], r, st, r.span, sl, r.bytes, r.locks, r.seen, r.gone)
  BY ToStage, SetOne

(* the stage and the bytes; *)
LEMMA ToStageBytes ==
    ASSUME NEW r, IsRequest(r), NEW st, NEW b
    PROVE  With([r EXCEPT !.stage = st, !.bytes = b], r, st, r.span, r.slots, b, r.locks, r.seen, r.gone)
  BY ToStage, SetOne

(* a caller that is gone, in its stage or another; *)
LEMMA ToGone ==
    ASSUME NEW r, IsRequest(r), NEW st
    PROVE  /\ With([r EXCEPT !.gone = TRUE], r, r.stage, r.span, r.slots, r.bytes, r.locks, r.seen, TRUE)
           /\ With([r EXCEPT !.stage = st, !.gone = TRUE], r, st, r.span, r.slots, r.bytes, r.locks, r.seen, TRUE)
<1> PICK q : q = [r EXCEPT !.stage = st]
  OBVIOUS
<1>1. With(q, r, st, r.span, r.slots, r.bytes, r.locks, r.seen, r.gone)
  BY ToStage
<1>2. With([q EXCEPT !.gone = TRUE], r, st, r.span, r.slots, r.bytes, r.locks, r.seen, TRUE)
  BY <1>1, SetOne
<1>3. With([r EXCEPT !.gone = TRUE], r, r.stage, r.span, r.slots, r.bytes, r.locks, r.seen, TRUE)
  BY Itself, SetOne
<1> QED
  BY <1>2, <1>3

(* the locks and the stage; *)
LEMMA ToLocks ==
    ASSUME NEW r, IsRequest(r), NEW l, NEW st
    PROVE  With([r EXCEPT !.locks = l, !.stage = st], r, st, r.span, r.slots, r.bytes, l, r.seen, r.gone)
  BY Itself, SetOne

(* the stage, what was seen, and the slots; *)
LEMMA ToSeen ==
    ASSUME NEW r, IsRequest(r), NEW st, NEW se, NEW sl
    PROVE  With([r EXCEPT !.stage = st, !.seen = se, !.slots = sl], r, st, r.span, sl, r.bytes, r.locks, se, r.gone)
  BY ToStage, SetOne

(* and all that the next chunk of a trim resets. *)
LEMMA ToChunk ==
    ASSUME NEW r, IsRequest(r), NEW st, NEW sp, NEW sl, NEW b, NEW l
    PROVE  With([r EXCEPT !.stage = st, !.span = sp, !.slots = sl, !.bytes = b, !.locks = l],
                r, st, sp, sl, b, l, r.seen, r.gone)
<1> PICK q1 : q1 = [r EXCEPT !.stage = st]
  OBVIOUS
<1> PICK q2 : q2 = [q1 EXCEPT !.span = sp]
  OBVIOUS
<1> PICK q3 : q3 = [q2 EXCEPT !.slots = sl]
  OBVIOUS
<1> PICK q4 : q4 = [q3 EXCEPT !.bytes = b]
  OBVIOUS
<1>1. With(q1, r, st, r.span, r.slots, r.bytes, r.locks, r.seen, r.gone)
  BY ToStage
<1>2. With(q2, r, st, sp, r.slots, r.bytes, r.locks, r.seen, r.gone)
  BY <1>1, SetOne
<1>3. With(q3, r, st, sp, sl, r.bytes, r.locks, r.seen, r.gone)
  BY <1>2, SetOne
<1>4. With(q4, r, st, sp, sl, b, r.locks, r.seen, r.gone)
  BY <1>3, SetOne
<1>5. With([q4 EXCEPT !.locks = l], r, st, sp, sl, b, l, r.seen, r.gone)
  BY <1>4, SetOne
<1> QED
  BY <1>5

(* A request that is moved on keeps its type. *)
LEMMA MovedIs ==
    ASSUME NEW r, IsRequest(r), NEW n, NEW st \in Stages \ {"idle"}, NEW sp \in SUBSET Unit, NEW sl, NEW b,
           NEW l \in SUBSET sp, NEW se, NEW g \in BOOLEAN, With(n, r, st, sp, sl, b, l, se, g)
    PROVE  IsRequest(n)
  BY FullFields DEF With, Full, IsRequest

-----------------------------------------------------------------------------
(* How a step keeps the requests in order. *)

(* An idle callback has no request. *)
LEMMA Idle == NoRequest.stage = "idle"
  BY DEF NoRequest

(* The parts of the invariant, and what it says of a callback. *)
LEMMA Parts ==
    ASSUME IInv, NEW c \in Client
    PROVE  /\ CountsOk /\ LogOk /\ RequestsOk /\ LocksApart /\ CacheOk(cache)
           /\ log \in Seq(LogRec) /\ Len(log) \in Nat
           /\ rq = [d \in Client |-> rq[d]]
           /\ rq[c].stage # "idle" => Active(c) /\ RequestOk(rq[c]) /\ IsRequest(rq[c]) /\ Placed(rq[c])
  BY Idle DEF IInv, LogOk, CountsOk, RequestsOk, Active, RequestOk

(* The units a request looks at. *)
LEMMA WantedIs ==
    ASSUME NEW r
    PROVE  /\ Wanted(r) \subseteq r.span
           /\ r.op = "read" => Wanted(r) = r.span
           /\ r.op # "read" => Wanted(r) = {u \in r.span : ~Covers(r.extent, u)}
  BY DEF Wanted

(* What a request has seen stays true while the log grows, and what a *)
(* write has seen stays current while nobody publishes what it has locked. *)
LEMMA RequestKept ==
    ASSUME Grows, NEW r, RequestOk(r),
           \A k \in (Len(log) + 1)..Len(log') : log'[k].unit \notin r.locks
    PROVE  RequestOk(r)'
<1> PICK N \in Nat, M \in Nat : N = Len(log) /\ M = Len(log') /\ N <= M
  BY GrowsLen
<1>1. IsRequest(r)' /\ Placed(r)' /\ r.at \in Nat
  BY DEF RequestOk, IsRequest, Placed
<1>2. r.at <= N
  BY DEF RequestOk
<1>3. ASSUME Looked(r) PROVE SeenOk(r)'
  <2>1. SeenOk(r)
    BY <1>3 DEF RequestOk
  <2>2. Wanted(r)' = Wanted(r)
    BY DEF Wanted, Covers
  <2>3. r.seen \in [Wanted(r) -> View]
    BY <2>1 DEF SeenOk
  <2>4. ASSUME NEW u \in Wanted(r), ~r.seen[u].hit
        PROVE  Filed(u, r.seen[u].n, r.seen[u].data)'
    BY <2>1, <2>4, FiledKept DEF SeenOk
  <2>5. Fresh(r)'
    <3> SUFFICES ASSUME r.op = "write", NEW u \in Wanted(r)
                 PROVE  r.seen[u].data = ContentAt(u, M)'
      BY <2>2 DEF Fresh
    <3>1. r.seen[u].data = ContentAt(u, N)
      BY <2>1 DEF SeenOk, Fresh
    <3>2. u \in r.locks
      BY <1>3, WantedIs DEF RequestOk, Placed, Looked
    <3>3. \A k \in (N + 1)..M : log'[k].unit # u
      BY <3>2
    <3>4. ContentAt(u, M)' = ContentAt(u, N)
      BY <3>3, SkippedNext
    <3> QED
      BY <3>1, <3>4
  <2>6. OneMoment(r)'
    BY <2>1, <1>1, PastKept, <2>2 DEF SeenOk, OneMoment
  <2> QED
    BY <2>2, <2>3, <2>4, <2>5, <2>6 DEF SeenOk
<1>4. Looked(r)' <=> Looked(r)
  BY DEF Looked
<1>5. r.at <= M
  BY <1>1, <1>2
<1> QED
  BY <1>1, <1>3, <1>4, <1>5 DEF RequestOk

(* A log that does not change grows by nothing. *)
LEMMA GrowsSame ==
    ASSUME IInv, log' = log
    PROVE  Grows /\ ~\E k \in (Len(log) + 1)..Len(log') : TRUE
  BY DEF IInv, LogOk, Grows

(* One callback moves on to n. *)
LEMMA OneMoves ==
    ASSUME IInv, Grows, NEW c \in Client, NEW n, Becomes(c, n), n = NoRequest \/ RequestOk(n)',
           \A d \in Client \ {c} : Active(d) =>
              /\ n # NoRequest => n.locks \cap rq[d].locks = {}
              /\ \A k \in (Len(log) + 1)..Len(log') : log'[k].unit \notin rq[d].locks
    PROVE  RequestsOk' /\ LocksApart' /\ (rq \in [Client -> {rq[d] : d \in Client}])'
<1>0. rq = [d \in Client |-> rq[d]]
  BY Parts
<1>1. rq' = [d \in Client |-> IF d = c THEN n ELSE rq[d]]
  BY <1>0 DEF Becomes
<1>2. rq'[c] = n /\ \A d \in Client \ {c} : rq'[d] = rq[d]
  BY <1>1
<1>3. ASSUME NEW d \in Client \ {c} PROVE rq[d] = NoRequest \/ RequestOk(rq[d])'
  <2>1. CASE rq[d] = NoRequest
    BY <2>1
  <2>2. CASE rq[d] # NoRequest
    <3> PICK r : r = rq[d]
      OBVIOUS
    <3>1. RequestOk(r) /\ Active(d)
      BY <2>2, Parts DEF RequestsOk, Active, RequestOk, IsRequest
    <3>2. RequestOk(r)'
      BY <3>1, RequestKept
    <3> QED
      BY <3>2, <1>2
  <2> QED
    BY <2>1, <2>2
<1>4. RequestsOk'
  <2> SUFFICES ASSUME NEW d \in Client PROVE (rq[d] = NoRequest \/ RequestOk(rq[d]))'
    BY DEF RequestsOk
  <2>1. CASE d = c
    BY <1>2, <2>1
  <2>2. CASE d # c
    BY <1>2, <1>3, <2>2
  <2> QED
    BY <2>1, <2>2
<1>5. LocksApart'
  <2> SUFFICES ASSUME NEW a \in Client, NEW b \in Client, a # b, Active(a)', Active(b)'
               PROVE  rq'[a].locks \cap rq'[b].locks = {}
    BY DEF LocksApart
  <2>1. \A d \in Client \ {c} : Active(d)' <=> Active(d)
    BY <1>2 DEF Active
  <2>2. CASE a = c
    BY <1>2, <2>2, Idle, <2>1 DEF Active
  <2>3. CASE b = c
    BY <1>2, <2>3, Idle, <2>1 DEF Active
  <2>4. CASE a # c /\ b # c
    BY Parts, <1>2, <2>1, <2>4 DEF LocksApart
  <2> QED
    BY <2>2, <2>3, <2>4
<1>6. rq' \in [Client -> {rq'[d] : d \in Client}]
  BY <1>1
<1> QED
  BY <1>4, <1>5, <1>6

(* A callback moves on and publishes nothing. *)
LEMMA OneQuiet ==
    ASSUME IInv, log' = log, NEW c \in Client, NEW n, Becomes(c, n), n = NoRequest \/ RequestOk(n),
           \A d \in Client \ {c} : Active(d) /\ n # NoRequest => n.locks \cap rq[d].locks = {}
    PROVE  RequestsOk' /\ LocksApart' /\ (rq \in [Client -> {rq[d] : d \in Client}])'
  BY GrowsSame, RequestKept, OneMoves

(* A request that holds no more than before is apart from the others. *)
LEMMA StillApart ==
    ASSUME IInv, NEW c \in Client, Active(c), NEW n, n.locks \subseteq rq[c].locks
    PROVE  \A d \in Client \ {c} : Active(d) => n.locks \cap rq[d].locks = {}
<1>1. LocksApart
  BY Parts
<1> QED
  BY <1>1 DEF LocksApart

(* A request that goes on with what it has seen. *)
LEMMA OnwardOk ==
    ASSUME NEW r, RequestOk(r), NEW n, NEW st \in Stages \ {"idle"}, NEW sl, NEW b, NEW l \in SUBSET r.span,
           NEW g \in BOOLEAN, With(n, r, st, r.span, sl, b, l, r.seen, g), Placed(n), Looked(n) => Looked(r)
    PROVE  RequestOk(n)
<1>1. IsRequest(r) /\ r.span \in SUBSET Unit /\ r.at <= Len(log)
  BY DEF RequestOk, IsRequest
<1>2. IsRequest(n)
  BY <1>1, MovedIs
<1>3. /\ n.stage = st /\ n.op = r.op /\ n.extent = r.extent /\ n.span = r.span /\ n.seen = r.seen /\ n.at = r.at
  BY FullFields
<1>4. Wanted(n) = Wanted(r)
  BY <1>3 DEF Wanted
<1>5. Looked(n) => SeenOk(n)
  <2> SUFFICES ASSUME Looked(n) PROVE SeenOk(n)
    OBVIOUS
  <2>1. SeenOk(r)
    BY DEF RequestOk
  <2> QED
    BY <1>3, <1>4, <2>1 DEF SeenOk, Fresh, OneMoment
<1> QED
  BY <1>1, <1>2, <1>3, <1>5 DEF RequestOk

(* A step that publishes nothing. *)
LEMMA QuietStep ==
    ASSUME IInv, NEW c \in Client, NEW n, Becomes(c, n),
           n = NoRequest \/ RequestOk(n),
           \A d \in Client \ {c} : Active(d) /\ n # NoRequest => n.locks \cap rq[d].locks = {},
           UNCHANGED <<log, failed, maxBytes>>, CacheOk(cache'),
           durable' \in 0..Len(log), acked' \in Nat, acked' <= durable', ops' \in 0..MaxOps, ticks' = ticks
    PROVE  IInv'
<1>1. RequestsOk' /\ LocksApart' /\ (rq \in [Client -> {rq[d] : d \in Client}])'
  BY OneQuiet
<1>2. Grows
  BY GrowsSame
<1>3. LogOk'
  <2>1. LogOk
    BY Parts
  <2> SUFFICES ASSUME NEW n1 \in 1..Len(log) PROVE Kept(n1)' /\ (~failed => log[n1].data \in Content)
    BY <2>1 DEF LogOk
  <2> QED
    BY <1>2, <2>1, KeptKept DEF LogOk
<1>4. CacheOk(cache)'
  BY <1>2, CacheKept
<1>5. CountsOk'
  BY Parts, <1>1 DEF CountsOk
<1> QED
  BY <1>1, <1>3, <1>4, <1>5 DEF IInv

(* A callback moves on and nothing else happens. *)
LEMMA PlainStep ==
    ASSUME IInv, NEW c \in Client, NEW n, Becomes(c, n), n = NoRequest \/ RequestOk(n),
           \A d \in Client \ {c} : Active(d) /\ n # NoRequest => n.locks \cap rq[d].locks = {},
           UNCHANGED <<log, durable, cache, acked, failed, ops, ticks, maxBytes>>
    PROVE  IInv'
  BY Parts, QuietStep DEF CountsOk

(* A callback ends and nothing else happens. *)
LEMMA EndStep ==
    ASSUME IInv, NEW c \in Client, End(c),
           UNCHANGED <<log, durable, cache, acked, failed, ops, ticks, maxBytes>>
    PROVE  IInv'
  BY PlainStep DEF End

(* A callback goes on with what it has seen, holds no more locks than *)
(* before, and nothing else happens. *)
LEMMA OnwardStep ==
    ASSUME IInv, NEW c \in Client, Active(c), NEW n, Becomes(c, n),
           NEW st \in Stages \ {"idle"}, NEW sl, NEW b, NEW g \in BOOLEAN,
           With(n, rq[c], st, rq[c].span, sl, b, rq[c].locks, rq[c].seen, g),
           Placed(n), Looked(n) => Looked(rq[c]),
           UNCHANGED <<log, durable, cache, acked, failed, ops, ticks, maxBytes>>
    PROVE  IInv'
<1> PICK r : r = rq[c]
  OBVIOUS
<1>1. RequestOk(r) /\ r.locks \in SUBSET r.span
  BY Parts DEF Active, IsRequest
<1>2. RequestOk(n)
  BY <1>1, OnwardOk
<1>3. n.locks = r.locks
  BY FullFields
<1>4. \A d \in Client \ {c} : Active(d) => n.locks \cap rq[d].locks = {}
  BY <1>3, StillApart
<1> QED
  BY <1>2, <1>4, PlainStep

(* A request spans units of the device. *)
LEMMA SpanIs ==
    ASSUME NEW op, NEW e
    PROVE  Span(op, e) \subseteq Unit
  BY DEF UnitsOf, FirstChunk, Chunk, Span

(* Begin: the request starts with the log as it is, unlocked. *)
LEMMA BeginStep ==
    ASSUME IInv, NEW c \in Client, Begin(c)
    PROVE  IInv'
<1>1. PICK q \in Requests : Becomes(c, Begun(q))
  BY DEF Begin
<1>2. /\ q \in Op \X Nat \X Nat \X BOOLEAN /\ (q[1] = "read" => ~q[4])
  BY EngineAssumption DEF Op
<1> PICK op \in Op, x \in Nat, y \in Nat, f \in BOOLEAN :
       op = q[1] /\ x = q[2] /\ y = q[3] /\ f = q[4] /\ (op = "read" => ~f)
  BY <1>2
<1> PICK sp \in SUBSET Unit : sp = Span(op, <<x, y>>)
  BY SpanIs
<1> PICK v \in Nat, N \in Nat : v = ops + 1 /\ N = Len(log)
  <2>1. ops \in 0..MaxOps /\ Len(log) \in Nat
    BY Parts DEF CountsOk
  <2>2. ops + 1 \in Nat
    BY <2>1, Constants
  <2> QED
    BY <2>1, <2>2
<1> PICK e \in Nat \X Nat : e = <<x, y>>
  OBVIOUS
<1> PICK n : n = Begun(q)
  OBVIOUS
<1>3. n = Full("items", op, e, f, v, sp, 0, 0, {}, <<>>, N, FALSE)
  BY DEF Begun, Full
<1>4. /\ n.stage = "items" /\ n.op = op /\ n.extent = e /\ n.fua = f /\ n.val = v /\ n.span = sp
      /\ n.slots = 0 /\ n.bytes = 0 /\ n.locks = {} /\ n.seen = <<>> /\ n.at = N /\ n.gone = FALSE
  BY <1>3 DEF Full
<1>5. IsRequest(n)
  BY <1>3, <1>4 DEF Full, Stages, IsRequest
<1>6. Placed(n) /\ ~Looked(n)
  BY <1>4 DEF Placed, Looked
<1>7. RequestOk(n)
  BY <1>4, <1>5, <1>6 DEF RequestOk
<1>8. CountsOk /\ CacheOk(cache)
  BY Parts
<1>9. /\ durable' \in 0..Len(log) /\ acked' \in Nat /\ acked' <= durable' /\ ops' \in 0..MaxOps
      /\ ticks' = ticks
  BY <1>8, Constants DEF CountsOk, Begin
<1>10. UNCHANGED <<log, failed, maxBytes>> /\ CacheOk(cache')
  BY <1>8 DEF Begin
<1>11. Becomes(c, n)
  BY <1>1
<1>12. \A d \in Client \ {c} : n.locks \cap rq[d].locks = {}
  BY <1>4
<1> QED
  BY <1>7, <1>9, <1>10, <1>11, <1>12, QuietStep

(* AcquireSlot keeps the invariant. *)
LEMMA AcquireSlotStep ==
    ASSUME IInv, NEW c \in Client, AcquireSlot(c)
    PROVE  IInv'
<1> PICK r : r = rq[c]
  OBVIOUS
<1> PICK n : n = [r EXCEPT !.stage = "bytes", !.slots = 1]
  OBVIOUS
<1>1. r.stage = "items" /\ Becomes(c, n)
      /\ UNCHANGED <<log, durable, cache, acked, failed, ops, ticks, maxBytes>>
  BY DEF AcquireSlot
<1>2. Active(c) /\ IsRequest(r) /\ Placed(r)
  BY <1>1, Parts
<1>3. With(n, r, "bytes", r.span, 1, r.bytes, r.locks, r.seen, r.gone) /\ r.gone \in BOOLEAN
      /\ "bytes" \in Stages \ {"idle"}
  BY <1>2, ToStageSlots DEF IsRequest, Stages
<1>4. Placed(n) /\ ~Looked(n)
  BY <1>3, FullFields, <1>1, <1>2 DEF Placed, Looked
<1> QED
  BY <1>1, <1>2, <1>3, <1>4, OnwardStep

(* AcquireBytes keeps the invariant. *)
LEMMA AcquireBytesStep ==
    ASSUME IInv, NEW c \in Client, AcquireBytes(c)
    PROVE  IInv'
<1> PICK r : r = rq[c]
  OBVIOUS
<1> PICK b : b = Cardinality(r.span)
  OBVIOUS
<1> PICK n : n = [r EXCEPT !.stage = "fresh", !.bytes = b]
  OBVIOUS
<1>1. r.stage = "bytes" /\ Becomes(c, n)
      /\ UNCHANGED <<log, durable, cache, acked, failed, ops, ticks, maxBytes>>
  BY DEF AcquireBytes
<1>2. Active(c) /\ IsRequest(r) /\ Placed(r)
  BY <1>1, Parts
<1>3. With(n, r, "fresh", r.span, r.slots, b, r.locks, r.seen, r.gone) /\ r.gone \in BOOLEAN
      /\ "fresh" \in Stages \ {"idle"}
  BY <1>2, ToStageBytes DEF IsRequest, Stages
<1>4. Placed(n) /\ ~Looked(n)
  BY <1>3, FullFields, <1>1, <1>2 DEF Placed, Looked
<1> QED
  BY <1>1, <1>2, <1>3, <1>4, OnwardStep

(* CheckFreshness keeps the invariant: a request goes on to a stage of its *)
(* own kind. *)
LEMMA CheckFreshnessStep ==
    ASSUME IInv, NEW c \in Client, CheckFreshness(c)
    PROVE  IInv'
<1> PICK r : r = rq[c]
  OBVIOUS
<1>1. r.stage = "fresh" /\ UNCHANGED <<log, durable, cache, acked, failed, ops, ticks, maxBytes>>
  BY DEF CheckFreshness
<1>2. Active(c) /\ IsRequest(r) /\ Placed(r) /\ r.gone \in BOOLEAN
  BY <1>1, Parts DEF IsRequest
<1>3. CASE End(c)
  BY <1>1, <1>3, EndStep
<1>4. ASSUME NEW st \in {"snapshot", "sync", "lock"}, Becomes(c, [r EXCEPT !.stage = st]),
             st = "snapshot" => r.op = "read", st = "lock" => r.op \in {"write", "trim"} /\ r.span # {}
      PROVE  IInv'
  BY <1>2, ToStage, FullFields, <1>1, <1>4, OnwardStep DEF Stages, Placed, Looked
<1>5. \/ End(c)
      \/ r.op = "read" /\ Becomes(c, [r EXCEPT !.stage = "snapshot"])
      \/ Becomes(c, [r EXCEPT !.stage = "sync"])
      \/ r.op \in {"write", "trim"} /\ r.span # {} /\ Becomes(c, [r EXCEPT !.stage = "lock"])
  BY DEF CheckFreshness
<1> QED
  BY <1>3, <1>4, <1>5

(* LockUnit keeps the invariant: the unit is free, and the request leaves *)
(* the lock stage with its whole span. *)
LEMMA LockUnitStep ==
    ASSUME IInv, NEW c \in Client, LockUnit(c)
    PROVE  IInv'
<1> PICK r : r = rq[c]
  OBVIOUS
<1>1. r.stage = "lock" /\ UNCHANGED <<log, durable, cache, acked, failed, ops, ticks, maxBytes>>
  BY DEF LockUnit
<1>2. Active(c) /\ IsRequest(r) /\ Placed(r) /\ RequestOk(r)
  BY <1>1, Parts
<1>3. r.gone \in BOOLEAN /\ r.span \subseteq Unit /\ r.locks \subseteq r.span /\ r.locks # r.span
      /\ r.op \in {"write", "trim"}
  BY <1>1, <1>2 DEF IsRequest, Placed
<1>a. PICK u : u = Min(r.span \ r.locks)
  OBVIOUS
<1>4. u \in r.span \ r.locks
  <2>1. r.span \ r.locks \in SUBSET Nat /\ r.span \ r.locks # {}
    BY <1>3, UnitsAreNat
  <2> QED
    BY <1>a, <2>1, MinIs
<1>b. PICK l \in SUBSET r.span : l = r.locks \cup {u}
  BY <1>3, <1>4
<1>c. PICK st \in {"snapshot", "publish", "lock"} :
        st = IF l = r.span THEN IF r.op = "write" THEN "snapshot" ELSE "publish" ELSE "lock"
  OBVIOUS
<1>d. PICK n : n = [r EXCEPT !.locks = l, !.stage = st]
  OBVIOUS
<1>5. ~Locked(u) /\ Becomes(c, n)
  BY <1>a, <1>b, <1>c, <1>d DEF LockUnit, Locking
<1>6. With(n, r, st, r.span, r.slots, r.bytes, l, r.seen, r.gone) /\ st \in Stages \ {"idle"}
  BY <1>2, <1>d, ToLocks DEF Stages
<1>7. n.stage = st /\ n.op = r.op /\ n.fua = r.fua /\ n.locks = l /\ n.span = r.span
  BY <1>6, FullFields
<1>8. Placed(n)
  BY <1>2, <1>3, <1>7, <1>c DEF Placed
<1>9. Looked(n) => Looked(r)
  BY <1>3, <1>7, <1>c DEF Looked
<1>10. RequestOk(n)
  <2>1. RequestOk(r) /\ Placed(n) /\ (Looked(n) => Looked(r)) /\ r.gone \in BOOLEAN
    BY <1>2, <1>3, <1>8, <1>9
  <2> QED
    BY <1>6, <2>1, OnwardOk, ZenonT(60)
<1>11. \A d \in Client \ {c} : Active(d) => n.locks \cap rq[d].locks = {}
  <2> SUFFICES ASSUME NEW d \in Client \ {c}, Active(d) PROVE n.locks \cap rq[d].locks = {}
    OBVIOUS
  <2>1. u \notin rq[d].locks
    BY <1>5 DEF Locked
  <2>2. r.locks \cap rq[d].locks = {}
    BY <1>2, Parts DEF LocksApart
  <2> QED
    BY <1>7, <1>b, <2>1, <2>2
<1> QED
  BY <1>1, <1>5, <1>10, <1>11, PlainStep

(* What a request sees of a unit. *)
LEMMA LookIs ==
    ASSUME IInv, ~failed, NEW u \in Unit
    PROVE  /\ Look(u) \in View /\ Look(u).data = ContentAt(u, Len(log))
           /\ ~Look(u).hit => Filed(u, Look(u).n, Look(u).data)
  BY SequenceIs, Contents DEF IInv, LogOk, CurrentSequence, ContentAt, Look, View, Filed, CacheOk, Hit

(* A set of units has a size. *)
LEMMA CardinalityIs ==
    ASSUME NEW S \in SUBSET Unit
    PROVE  Cardinality(S) \in Nat
<1>1. IsFiniteSet(Unit)
  BY Constants, FS_Interval DEF Unit
<1>2. IsFiniteSet(S)
  BY <1>1, FS_Subset
<1> QED
  BY <1>2, FS_CardinalityType

(* The units of a set in ascending order, none twice. *)
LEMMA AscendingIs ==
    ASSUME NEW S \in SUBSET Unit, NEW s \in Ascending(S)
    PROVE  /\ s \in Seq(Unit) /\ Len(s) \in Nat /\ \A i \in 1..Len(s) : s[i] \in S
           /\ \A i, j \in 1..Len(s) : i < j => s[i] # s[j]
<1> PICK k \in Nat : k = Cardinality(S)
  BY CardinalityIs
<1>1. s \in [1..k -> S] /\ \A i, j \in 1..k : i < j => s[i] < s[j]
  BY DEF Ascending
<1>2. s \in Seq(Unit) /\ Len(s) = k
  BY <1>1
<1>3. \A i \in 1..k : s[i] \in S /\ s[i] \in Nat
  BY <1>1, UnitsAreNat
<1> QED
  BY <1>1, <1>2, <1>3

(* Snapshot keeps the invariant: under the volume read lock all units are *)
(* seen at the same moment, from the cache or the log. *)
LEMMA SnapshotStep ==
    ASSUME IInv, NEW c \in Client, Snapshot(c)
    PROVE  IInv'
<1> PICK r : r = rq[c]
  OBVIOUS
<1>1. r.stage = "snapshot" /\ UNCHANGED <<log, durable, acked, failed, ops, ticks, maxBytes>>
  BY DEF Snapshot
<1>2. Active(c) /\ IsRequest(r) /\ Placed(r) /\ RequestOk(r)
  BY <1>1, Parts
<1>3. CASE End(c) /\ UNCHANGED cache
  BY <1>1, <1>3, EndStep
<1>4. CASE ~(End(c) /\ UNCHANGED cache)
  <2> PICK W \in SUBSET Unit : W = Wanted(r)
    BY <1>2, WantedIs DEF IsRequest
  <2> PICK se : se = [u \in W |-> Look(u)]
    OBVIOUS
  <2> PICK sl : sl = 1 + ExtraSlots(Misses(se))
    OBVIOUS
  <2> PICK n : n = [r EXCEPT !.stage = "decrypt", !.seen = se, !.slots = sl]
    OBVIOUS
  <2>1. ~failed /\ Becomes(c, n)
    BY <1>4 DEF Snapshot
  <2>2. PICK s \in Ascending(W) : cache' = LookedUp(s)
    BY <1>4 DEF Snapshot
  <2>3. CacheOk(cache')
    BY <2>2, AscendingIs, Parts, LookedUpOk
  <2>4. With(n, r, "decrypt", r.span, sl, r.bytes, r.locks, se, r.gone)
    BY <1>2, ToSeen
  <2>5. /\ n.stage = "decrypt" /\ n.op = r.op /\ n.extent = r.extent /\ n.fua = r.fua /\ n.span = r.span
        /\ n.locks = r.locks /\ n.seen = se /\ n.at = r.at
    BY <2>4, FullFields
  <2>6. IsRequest(n)
    BY <1>2, <2>4, MovedIs DEF IsRequest, Stages
  <2>7. Placed(n)
    BY <1>1, <1>2, <2>5 DEF Placed
  <2>8. Wanted(n) = W
    BY <2>5 DEF Wanted
  <2>9. SeenOk(n)
    <3>1. \A u \in W : se[u] = Look(u)
      OBVIOUS
    <3>2. \A u \in W : /\ se[u] \in View /\ se[u].data = ContentAt(u, Len(log))
                       /\ ~se[u].hit => Filed(u, se[u].n, se[u].data)
      BY <2>1, <3>1, LookIs
    <3>3. se \in [W -> View]
      BY <3>2
    <3>4. Fresh(n)
      BY <2>5, <2>8, <3>2 DEF Fresh
    <3>5. Len(log) \in n.at..Len(log)
      BY <1>2, <2>5, Parts DEF RequestOk, IsRequest
    <3>6. OneMoment(n)
      <4>1. \A u \in Wanted(n) : n.seen[u].data = ContentAt(u, Len(log))
        BY <2>5, <2>8, <3>2
      <4> PICK i : i = Len(log)
        OBVIOUS
      <4>2. i \in n.at..Len(log) /\ \A u \in Wanted(n) : n.seen[u].data = ContentAt(u, i)
        BY <3>5, <4>1
      <4> QED
        BY <4>2 DEF OneMoment
    <3> QED
      BY <2>5, <2>8, <3>2, <3>3, <3>4, <3>6 DEF SeenOk
  <2>10. RequestOk(n)
    BY <1>2, <2>5, <2>6, <2>7, <2>9 DEF RequestOk
  <2>11. \A d \in Client \ {c} : Active(d) => n.locks \cap rq[d].locks = {}
    BY <1>2, <2>5, StillApart
  <2>12. durable' \in 0..Len(log) /\ acked' \in Nat /\ acked' <= durable' /\ ops' \in 0..MaxOps
    BY <1>1, Parts DEF CountsOk
  <2> QED
    BY <1>1, <2>1, <2>3, <2>10, <2>11, <2>12, QuietStep
<1> QED
  BY <1>3, <1>4

(* The greater of two bounded numbers is bounded. *)
LEMMA MaxOfTwo ==
    ASSUME NEW N \in Nat, NEW a \in 0..N, NEW b \in 0..N
    PROVE  Max({a, b}) \in 0..N
  BY MaxIs

(* Only a caller that asked for durability learns of any. *)
LEMMA SucceedIs ==
    ASSUME NEW c \in Client, Succeed(c)
    PROVE  /\ Becomes(c, NoRequest)
           /\ rq[c].gone \/ ~rq[c].fua => acked' = acked
           /\ rq[c].span = {} => acked' \in {acked, Max({acked, rq[c].at})}
           /\ rq[c].span # {} => acked' \in {acked, Max({acked, Len(log')})}
  BY DEF Succeed, End

(* Decrypt keeps the invariant: a slow reader files what it saw under the *)
(* version it saw. *)
LEMMA DecryptStep ==
    ASSUME IInv, NEW c \in Client, Decrypt(c)
    PROVE  IInv'
<1>a. PICK r : r = rq[c]
  OBVIOUS
<1>1. r.stage = "decrypt" /\ UNCHANGED <<log, durable, failed, ops, ticks, maxBytes>>
  BY <1>a DEF Decrypt
<1>2. Active(c) /\ IsRequest(r) /\ Placed(r) /\ RequestOk(r)
  BY <1>a, <1>1, Parts
<1>3. CASE End(c) /\ UNCHANGED <<cache, acked>>
  BY <1>1, <1>3, EndStep
<1>4. ASSUME r.op = "read", NEW s \in SetToSeqs(Misses(r.seen)), cache' = Cached(r, s), Succeed(c)
      PROVE  IInv'
  <2>1. SeenOk(r)
    BY <1>1, <1>2, <1>4 DEF RequestOk, Looked
  <2>b. PICK W \in SUBSET Unit : W = Wanted(r)
    BY <1>2, WantedIs DEF IsRequest
  <2>2. r.seen \in [W -> View] /\ \A u \in W : ~r.seen[u].hit => Filed(u, r.seen[u].n, r.seen[u].data)
    BY <2>1, <2>b DEF SeenOk
  <2>c. PICK S \in SUBSET Unit : S = Misses(r.seen)
    BY <2>2 DEF Misses
  <2>3. \A u \in S : /\ Filed(u, r.seen[u].n, r.seen[u].data)
                     /\ r.seen[u].n \in Nat /\ r.seen[u].data \in Content
    BY <2>2, <2>c DEF Misses, View
  <2>d. PICK k \in Nat : k = Cardinality(S)
    BY CardinalityIs
  <2>4. s \in [1..k -> S]
    BY <1>4, <2>c, <2>d DEF SetToSeqs
  <2>5. s \in Seq(Unit) /\ Len(s) = k /\ \A i \in 1..Len(s) : s[i] \in S
    BY <2>4
  <2>6. \A i \in 1..Len(s) : /\ Filed(s[i], r.seen[s[i]].n, r.seen[s[i]].data)
                             /\ r.seen[s[i]].n \in Nat /\ r.seen[s[i]].data \in Content
    BY <2>3, <2>5
  <2>7. CacheOk(cache')
    BY <1>4, <2>5, <2>6, Parts, CachedOk
  <2>8. acked' = acked /\ Becomes(c, NoRequest)
    BY <1>2, <1>4, <1>a, SucceedIs DEF Placed
  <2>9. durable' \in 0..Len(log) /\ acked' \in Nat /\ acked' <= durable' /\ ops' \in 0..MaxOps
    BY <1>1, <2>8, Parts DEF CountsOk
  <2>e. PICK n : n = NoRequest
    OBVIOUS
  <2> QED
    BY <1>1, <2>7, <2>8, <2>9, <2>e, QuietStep
<1>5. ASSUME r.op = "write", Becomes(c, [r EXCEPT !.stage = "encrypt", !.slots = 1 + ExtraSlots(r.span)]),
             UNCHANGED <<cache, acked>>
      PROVE  IInv'
  <2>a. PICK sl : sl = 1 + ExtraSlots(r.span)
    OBVIOUS
  <2>b. PICK n : n = [r EXCEPT !.stage = "encrypt", !.slots = sl]
    OBVIOUS
  <2>1. Becomes(c, n)
    BY <1>5, <2>a, <2>b
  <2>2. With(n, r, "encrypt", r.span, sl, r.bytes, r.locks, r.seen, r.gone)
    BY <1>2, <2>b, ToStageSlots
  <2>3. n.stage = "encrypt" /\ n.op = r.op /\ n.fua = r.fua /\ n.locks = r.locks /\ n.span = r.span
    BY <2>2, FullFields
  <2>4. Placed(n) /\ (Looked(n) => Looked(r))
    BY <1>1, <1>2, <1>5, <2>3 DEF Placed, Looked
  <2>5. r.gone \in BOOLEAN /\ "encrypt" \in Stages \ {"idle"}
    BY <1>2 DEF IsRequest, Stages
  <2> QED
    BY <1>1, <1>2, <1>5, <1>a, <2>1, <2>2, <2>4, <2>5, OnwardStep
<1>6. \/ End(c) /\ UNCHANGED <<cache, acked>>
      \/ r.op = "read" /\ (\E s \in SetToSeqs(Misses(r.seen)) : cache' = Cached(r, s)) /\ Succeed(c)
      \/ /\ r.op = "write" /\ Becomes(c, [r EXCEPT !.stage = "encrypt", !.slots = 1 + ExtraSlots(r.span)])
         /\ UNCHANGED <<cache, acked>>
  BY <1>a DEF Decrypt
<1> QED
  BY <1>3, <1>4, <1>5, <1>6

(* Encrypt keeps the invariant. *)
LEMMA EncryptStep ==
    ASSUME IInv, NEW c \in Client, Encrypt(c)
    PROVE  IInv'
<1>a. PICK r : r = rq[c]
  OBVIOUS
<1>b. PICK n : n = [r EXCEPT !.stage = "publish", !.slots = 1]
  OBVIOUS
<1>1. r.stage = "encrypt" /\ UNCHANGED <<log, durable, cache, acked, failed, ops, ticks, maxBytes>>
      /\ (End(c) \/ Becomes(c, n))
  BY <1>a, <1>b DEF Encrypt
<1>2. Active(c) /\ IsRequest(r) /\ Placed(r)
  BY <1>a, <1>1, Parts
<1>3. With(n, r, "publish", r.span, 1, r.bytes, r.locks, r.seen, r.gone) /\ r.gone \in BOOLEAN
      /\ "publish" \in Stages \ {"idle"}
  BY <1>2, <1>b, ToStageSlots DEF IsRequest, Stages
<1>4. n.stage = "publish" /\ n.op = r.op /\ n.fua = r.fua /\ n.locks = r.locks /\ n.span = r.span
  BY <1>3, FullFields
<1>5. Placed(n) /\ (Looked(n) => Looked(r))
  BY <1>1, <1>2, <1>4 DEF Placed, Looked
<1>6. CASE Becomes(c, n)
  BY <1>1, <1>2, <1>3, <1>5, <1>6, <1>a, OnwardStep
<1>7. CASE End(c)
  BY <1>1, <1>7, EndStep
<1> QED
  BY <1>1, <1>6, <1>7

(* Cancel keeps the invariant: a publication in flight keeps its locks. *)
LEMMA CancelStep ==
    ASSUME IInv, NEW c \in Client, Cancel(c)
    PROVE  IInv'
<1>a. PICK r : r = rq[c]
  OBVIOUS
<1>1. UNCHANGED <<log, durable, cache, acked, failed, ops, ticks, maxBytes>> /\ Active(c)
  BY DEF Cancel
<1>2. IsRequest(r) /\ Placed(r) /\ r.stage \in Stages \ {"idle"}
  BY <1>a, <1>1, Parts DEF Active, IsRequest
<1>3. CASE End(c)
  BY <1>1, <1>3, EndStep
<1>4. ASSUME Becomes(c, [r EXCEPT !.stage = "drain", !.gone = TRUE])
      PROVE  IInv'
  <2>b. PICK n : n = [r EXCEPT !.stage = "drain", !.gone = TRUE]
    OBVIOUS
  <2>1. With(n, r, "drain", r.span, r.slots, r.bytes, r.locks, r.seen, TRUE) /\ "drain" \in Stages \ {"idle"}
    BY <1>2, <2>b, ToGone DEF Stages
  <2>2. n.stage = "drain" /\ n.op = r.op /\ n.fua = r.fua /\ n.locks = r.locks /\ n.span = r.span
    BY <2>1 DEF With, Full
  <2>3. Placed(n) /\ (Looked(n) => Looked(r))
    BY <1>2, <2>2 DEF Placed, Looked
  <2>4. Becomes(c, n)
    BY <1>4, <2>b
  <2> QED
    BY <1>1, <1>a, <2>1, <2>3, <2>4, OnwardStep
<1>5. ASSUME Becomes(c, [r EXCEPT !.gone = TRUE])
      PROVE  IInv'
  <2>b. PICK n : n = [r EXCEPT !.gone = TRUE]
    OBVIOUS
  <2>1. With(n, r, r.stage, r.span, r.slots, r.bytes, r.locks, r.seen, TRUE)
    BY <1>2, <2>b, ToGone
  <2>2. n.stage = r.stage /\ n.op = r.op /\ n.fua = r.fua /\ n.locks = r.locks /\ n.span = r.span
    BY <2>1 DEF With, Full
  <2>3. Placed(n) /\ (Looked(n) => Looked(r))
    BY <1>2, <2>2 DEF Placed, Looked
  <2>4. Becomes(c, n)
    BY <1>5, <2>b
  <2> QED
    BY <1>1, <1>2, <1>a, <2>1, <2>3, <2>4, OnwardStep
<1>6. \/ End(c) \/ Becomes(c, [r EXCEPT !.stage = "drain", !.gone = TRUE])
      \/ Becomes(c, [r EXCEPT !.gone = TRUE])
  BY <1>a DEF Cancel
<1> QED
  BY <1>3, <1>4, <1>5, <1>6

(* SyncJournal keeps the invariant: what a FLUSH tells its caller is *)
(* synced. *)
LEMMA SyncJournalStep ==
    ASSUME IInv, NEW c \in Client, SyncJournal(c)
    PROVE  IInv'
<1>a. PICK r : r = rq[c]
  OBVIOUS
<1>1. r.stage = "sync" /\ UNCHANGED <<log, cache, failed, ops, ticks, maxBytes>>
  BY <1>a DEF SyncJournal
<1>2. Active(c) /\ IsRequest(r) /\ RequestOk(r)
  BY <1>a, <1>1, Parts
<1>3. CASE End(c) /\ UNCHANGED <<durable, acked>>
  BY <1>1, <1>3, EndStep
<1>4. CASE durable' = Len(log) /\ Succeed(c)
  <2>1. Len(log) \in Nat /\ acked \in 0..Len(log) /\ CacheOk(cache') /\ ops' \in 0..MaxOps
    BY <1>1, Parts DEF CountsOk
  <2>2. r.at \in 0..Len(log) /\ Len(log') \in 0..Len(log)
    BY <1>1, <1>2, <2>1 DEF RequestOk, IsRequest
  <2>3. acked' \in {acked, Max({acked, r.at}), Max({acked, Len(log')})} /\ Becomes(c, NoRequest)
    BY <1>4, <1>a, SucceedIs
  <2>4. acked' \in 0..Len(log)
    BY <2>1, <2>2, <2>3, MaxOfTwo
  <2>5. durable' \in 0..Len(log) /\ acked' \in Nat /\ acked' <= durable'
    BY <1>4, <2>1, <2>4
  <2>e. PICK n : n = NoRequest
    OBVIOUS
  <2> QED
    BY <1>1, <2>1, <2>3, <2>5, <2>e, QuietStep
<1> QED
  BY <1>3, <1>4 DEF SyncJournal

(* The cache changes and nothing else does. *)
LEMMA CacheStep ==
    ASSUME IInv, From(cache', cache), UNCHANGED <<rq, log, durable, acked, failed, ops, maxBytes>>,
           ticks < MaxExpiries, ticks' = ticks + 1
    PROVE  IInv'
<1>1. CountsOk /\ LogOk /\ RequestsOk /\ LocksApart /\ CacheOk(cache)
  BY DEF IInv
<1>2. Grows
  BY GrowsSame
<1>3. CacheOk(cache)'
  <2>a. PICK k : k = cache'
    OBVIOUS
  <2>1. CacheOk(k)
    BY <1>1, <2>a, FromOk
  <2>2. CacheOk(k)'
    BY <1>2, <2>1, CacheKept
  <2> QED
    BY <2>2, <2>a
<1>4. LogOk'
  <2> SUFFICES ASSUME NEW n \in 1..Len(log) PROVE Kept(n)' /\ (~failed => log[n].data \in Content)
    BY <1>1 DEF LogOk
  <2> QED
    BY <1>1, <1>2, KeptKept DEF LogOk
<1>5. RequestsOk'
  <2> SUFFICES ASSUME NEW d \in Client PROVE (rq[d] = NoRequest \/ RequestOk(rq[d]))'
    BY DEF RequestsOk
  <2>a. PICK r : r = rq[d]
    OBVIOUS
  <2>1. r = NoRequest \/ RequestOk(r)
    BY <1>1, <2>a DEF RequestsOk
  <2>2. \A k \in (Len(log) + 1)..Len(log') : FALSE
    BY GrowsSame
  <2>3. r = NoRequest \/ RequestOk(r)'
    BY <1>2, <2>1, <2>2, RequestKept
  <2> QED
    BY <2>3, <2>a
<1>6. LocksApart'
  BY <1>1 DEF LocksApart, Active
<1>7. CountsOk'
  BY <1>1, Constants DEF CountsOk
<1> QED
  BY <1>3, <1>4, <1>5, <1>6, <1>7 DEF IInv

(* Expire keeps the invariant. *)
LEMMA ExpireStep ==
    ASSUME IInv, Expire
    PROVE  IInv'
  BY ExpiredFrom, CacheStep DEF Expire, IInv, CacheOk

(* ConfigureCache keeps the invariant. *)
LEMMA ConfigureCacheStep ==
    ASSUME IInv, ConfigureCache
    PROVE  IInv'
  BY Constants, ReconfigureFrom, CacheStep DEF ConfigureCache, IInv, CacheOk

-----------------------------------------------------------------------------
(* The steps that publish. *)

(* Refused keeps the invariant. *)
LEMMA RefusedStep ==
    ASSUME IInv, NEW c \in Client, Refused(c)
    PROVE  IInv'
  BY EndStep DEF Refused

(* Drain keeps the invariant. *)
LEMMA DrainStep ==
    ASSUME IInv, NEW c \in Client, Drain(c)
    PROVE  IInv'
  BY EndStep DEF Drain

(* The log grows by the records t. *)
LEMMA LogGrows ==
    ASSUME log \in Seq(LogRec), NEW k \in Nat, NEW t \in [1..k -> LogRec], log' = log \o t
    PROVE  /\ Grows /\ Len(log') = Len(log) + k
           /\ \A i \in 1..k : log'[Len(log) + i] = t[i]
           /\ \A m \in (Len(log) + 1)..Len(log') : \E i \in 1..k : m = Len(log) + i
<1>1. t \in Seq(LogRec) /\ Len(t) = k /\ Len(log) \in Nat
  OBVIOUS
<1>2. log' \in Seq(LogRec) /\ Len(log') = Len(log) + k
  BY <1>1, ConcatProperties
<1>3. \A i \in 1..Len(log) : log'[i] = log[i]
  BY <1>1
<1>4. \A i \in 1..k : log'[Len(log) + i] = t[i]
  BY <1>1
<1>5. \A m \in (Len(log) + 1)..Len(log') : m - Len(log) \in 1..k /\ m = Len(log) + (m - Len(log))
  BY <1>1, <1>2
<1>6. Len(log) <= Len(log')
  BY <1>1, <1>2
<1> QED
  BY <1>2, <1>3, <1>4, <1>5, <1>6 DEF Grows

(* A callback publishes the records t, of units it has locked, and moves *)
(* on to n. *)
LEMMA LogStep ==
    ASSUME IInv, NEW c \in Client, Active(c), NEW n, Becomes(c, n),
           NEW k \in Nat, NEW t \in [1..k -> LogRec], log' = log \o t,
           \A i \in 1..k : t[i].unit \in rq[c].locks,
           n = NoRequest \/ (RequestOk(n)' /\ n.locks \subseteq rq[c].locks),
           \A m \in (Len(log) + 1)..Len(log') : Kept(m)',
           failed' \in BOOLEAN, failed => failed', ~failed' => \A i \in 1..k : t[i].data \in Content,
           CacheOk(cache'),
           durable' \in 0..Len(log'), acked' \in Nat, acked' <= durable',
           UNCHANGED <<ops, ticks, maxBytes>>
    PROVE  IInv'
<1>1. CountsOk /\ LogOk /\ LocksApart /\ log \in Seq(LogRec) /\ Len(log) \in Nat
  BY Parts
<1>2. /\ Grows /\ Len(log') = Len(log) + k
      /\ \A i \in 1..k : log'[Len(log) + i] = t[i]
      /\ \A m \in (Len(log) + 1)..Len(log') : \E i \in 1..k : m = Len(log) + i
  BY <1>1, LogGrows
<1>3. \A m \in (Len(log) + 1)..Len(log') : log'[m].unit \in rq[c].locks
  BY <1>2
<1>4. \A d \in Client \ {c} : Active(d) =>
         /\ n # NoRequest => n.locks \cap rq[d].locks = {}
         /\ \A m \in (Len(log) + 1)..Len(log') : log'[m].unit \notin rq[d].locks
  <2> SUFFICES ASSUME NEW d \in Client \ {c}, Active(d)
               PROVE  /\ n # NoRequest => n.locks \cap rq[d].locks = {}
                      /\ \A m \in (Len(log) + 1)..Len(log') : log'[m].unit \notin rq[d].locks
    OBVIOUS
  <2>1. rq[c].locks \cap rq[d].locks = {}
    BY <1>1 DEF LocksApart
  <2>2. n # NoRequest => n.locks \subseteq rq[c].locks
    OBVIOUS
  <2> QED
    BY <1>3, <2>1, <2>2
<1>5. RequestsOk' /\ LocksApart' /\ (rq \in [Client -> {rq[d] : d \in Client}])'
  BY <1>2, <1>4, OneMoves
<1>6. LogOk'
  <2>1. log' \in Seq(LogRec)
    BY <1>2 DEF Grows
  <2>2. ASSUME NEW m \in 1..Len(log') PROVE Kept(m)' /\ (~failed' => log'[m].data \in Content)
    <3>1. m \in 1..Len(log) \/ m \in (Len(log) + 1)..Len(log')
      BY <1>1, <1>2
    <3>2. CASE m \in 1..Len(log)
      BY <1>1, <3>2, <1>2, KeptKept DEF LogOk, Grows
    <3>3. CASE m \in (Len(log) + 1)..Len(log')
      BY <1>2, <3>3
    <3> QED
      BY <3>1, <3>2, <3>3
  <2> QED
    BY <2>1, <2>2 DEF LogOk
<1>7. CacheOk(cache)'
  <2>a. PICK x : x = cache'
    OBVIOUS
  <2>1. CacheOk(x)'
    BY <1>2, <2>a, CacheKept
  <2> QED
    BY <2>1, <2>a
<1>8. CountsOk'
  BY <1>1, <1>5 DEF CountsOk
<1> QED
  BY <1>5, <1>6, <1>7, <1>8 DEF IInv

(* Panic keeps the invariant: the half updated record is of a unit the *)
(* request has locked, and the failure is latched with it. *)
LEMMA PanicStep ==
    ASSUME IInv, NEW c \in Client, Panic(c)
    PROVE  IInv'
<1>a. PICK r : r = rq[c]
  OBVIOUS
<1>1. /\ r.stage = "publish" /\ failed' = TRUE /\ Becomes(c, NoRequest)
      /\ UNCHANGED <<durable, cache, acked, ops, ticks, maxBytes>>
  BY <1>a DEF Panic, End
<1>2. PICK u \in r.span : log' = Append(log, [unit |-> u, live |-> TRUE, by |-> Offset, data |-> Garbage])
  BY <1>a DEF Panic
<1>3. Active(c) /\ IsRequest(r) /\ Placed(r) /\ CountsOk /\ CacheOk(cache) /\ log \in Seq(LogRec) /\ Len(log) \in Nat
  BY <1>1, <1>a, Parts
<1>4. r.locks = r.span /\ u \in Unit
  BY <1>1, <1>2, <1>3 DEF Placed, IsRequest
<1>b. PICK x : x = [unit |-> u, live |-> TRUE, by |-> Offset, data |-> Garbage]
  OBVIOUS
<1>5. x \in LogRec /\ x.unit = u /\ x.by = Offset
  BY <1>4, <1>b DEF LogRec
<1>c. PICK t : t = [i \in 1..1 |-> x]
  OBVIOUS
<1>6. t \in [1..1 -> LogRec] /\ t = <<x>> /\ t[1] = x
  BY <1>5, <1>c
<1>7. log' = log \o t
  BY <1>2, <1>3, <1>5, <1>6, <1>b, AppendIsConcat
<1>8. Len(log') = Len(log) + 1 /\ log'[Len(log) + 1] = x
  BY <1>2, <1>3, <1>b
<1>9. \A m \in (Len(log) + 1)..Len(log') : Kept(m)'
  <2> SUFFICES ASSUME NEW m \in (Len(log) + 1)..Len(log') PROVE Kept(m)'
    OBVIOUS
  <2>1. log'[m] = x
    BY <1>3, <1>8
  <2> QED
    BY <1>5, <2>1 DEF Kept
<1>10. \A i \in 1..1 : t[i].unit \in rq[c].locks
  BY <1>2, <1>4, <1>5, <1>6, <1>a
<1>11. durable' \in 0..Len(log') /\ acked' \in Nat /\ acked' <= durable'
  BY <1>1, <1>3, <1>8 DEF CountsOk
<1>12. CacheOk(cache')
  BY <1>1, <1>3
<1>d. PICK n : n = NoRequest
  OBVIOUS
<1>13. failed' \in BOOLEAN /\ (failed => failed') /\ (~failed' => \A i \in 1..1 : t[i].data \in Content)
  BY <1>1
<1>14. Becomes(c, n) /\ UNCHANGED <<ops, ticks, maxBytes>>
  BY <1>1, <1>d
<1> QED
  BY <1>3, <1>6, <1>7, <1>9, <1>10, <1>11, <1>12, <1>13, <1>14, <1>d, LogStep

(* A request covers a unit when it writes every block of it. *)
LEMMA CoversAll ==
    ASSUME NEW e \in Nat \X Nat, NEW u \in Unit, Covers(e, u)
    PROVE  Written(e, u) = Offset
  BY Constants, UnitsAreNat DEF Covers, Written, Offset

(* What a write publishes for a unit: its own blocks, and for a unit it *)
(* covers in part the ones it has read. *)
LEMMA MergedIs ==
    ASSUME NEW r, IsRequest(r), SeenOk(r), r.op = "write", NEW u \in r.span
    PROVE  /\ Merged(r, u) \in Content
           /\ \A o \in Offset \ Written(r.extent, u) :
                u \in Wanted(r) /\ Merged(r, u)[o] = r.seen[u].data[o]
  BY CoversAll, WantedIs DEF IsRequest, SeenOk, View, Content, Merged

(* What a request publishes for a unit of its span. *)
LEMMA RecordIs ==
    ASSUME NEW r, IsRequest(r), r.op = "write" => SeenOk(r), NEW u \in r.span
    PROVE  /\ RecordOf(r, u) \in LogRec /\ RecordOf(r, u).unit = u /\ RecordOf(r, u).data \in Content
           /\ \A o \in Offset \ RecordOf(r, u).by :
                r.op = "write" /\ u \in Wanted(r) /\ RecordOf(r, u).data[o] = r.seen[u].data[o]
<1>1. u \in Unit
  BY DEF IsRequest
<1>2. CASE r.op = "write"
  <2>a. PICK d \in Content : /\ d = Merged(r, u)
                             /\ \A o \in Offset \ Written(r.extent, u) :
                                  u \in Wanted(r) /\ d[o] = r.seen[u].data[o]
    BY <1>2, MergedIs
  <2>b. PICK w \in SUBSET Offset : w = Written(r.extent, u)
    BY DEF Written
  <2>1. RecordOf(r, u) = [unit |-> u, live |-> TRUE, by |-> w, data |-> d]
    BY <1>2, <2>a, <2>b DEF RecordOf
  <2>2. [unit |-> u, live |-> TRUE, by |-> w, data |-> d] \in LogRec
    BY <1>1 DEF LogRec
  <2> QED
    BY <1>2, <2>a, <2>b, <2>1, <2>2
<1>3. CASE r.op # "write"
  BY <1>3, <1>1, Contents DEF RecordOf, LogRec
<1> QED
  BY <1>2, <1>3

(* The i-th record of a publication keeps the blocks its request did not *)
(* write: the records before it are of other units, and nobody else has *)
(* published the unit since the request read it. *)
LEMMA RecordsKept ==
    ASSUME NEW r, IsRequest(r), r.op = "write" => SeenOk(r), NEW k \in Nat, NEW s,
           \A i \in 1..k : s[i] \in r.span, \A i, j \in 1..k : i < j => s[i] # s[j],
           log \in Seq(LogRec), NEW t \in [1..k -> LogRec], \A i \in 1..k : t[i] = RecordOf(r, s[i]),
           log' = log \o t
    PROVE  \A m \in (Len(log) + 1)..Len(log') : Kept(m)'
<1>a. PICK N \in Nat : N = Len(log)
  OBVIOUS
<1>1. /\ Grows /\ Len(log') = N + k
      /\ \A i \in 1..k : log'[N + i] = t[i]
      /\ \A m \in (N + 1)..Len(log') : \E i \in 1..k : m = N + i
  <2>1. /\ Grows /\ Len(log') = Len(log) + k
        /\ \A i \in 1..k : log'[Len(log) + i] = t[i]
        /\ \A m \in (Len(log) + 1)..Len(log') : \E i \in 1..k : m = Len(log) + i
    BY LogGrows
  <2> QED
    BY <1>a, <2>1
<1> SUFFICES ASSUME NEW m \in (N + 1)..Len(log') PROVE Kept(m)'
  BY <1>a
<1>2. PICK i \in 1..k : m = N + i
  BY <1>1
<1>b. PICK u \in r.span : u = s[i]
  OBVIOUS
<1>c. PICK x : x = RecordOf(r, u)
  OBVIOUS
<1>3. log'[m] = x /\ x.unit = u
  BY <1>1, <1>2, <1>b, <1>c, RecordIs
<1>4. ASSUME NEW o \in Offset \ x.by PROVE x.data[o] = ContentAt(u, m - 1)'[o]
  <2>1. r.op = "write" /\ u \in Wanted(r) /\ x.data[o] = r.seen[u].data[o]
    BY <1>4, <1>c, RecordIs
  <2>2. r.seen[u].data = ContentAt(u, N)
    BY <1>a, <2>1 DEF SeenOk, Fresh
  <2>3. m - 1 \in 0..Len(log') /\ N \in 0..Len(log) /\ N <= m - 1
    BY <1>1, <1>2, <1>a
  <2>4. \A n \in (N + 1)..(m - 1) : log'[n].unit # u
    <3> SUFFICES ASSUME NEW n \in (N + 1)..(m - 1) PROVE log'[n].unit # u
      OBVIOUS
    <3>b. n - N \in 1..k /\ n - N < i /\ n = N + (n - N)
      BY <1>2
    <3>a. PICK j \in 1..k : j < i /\ n = N + j
      BY <3>b
    <3>1. log'[n] = RecordOf(r, s[j]) /\ s[j] \in r.span
      BY <1>1, <3>a
    <3>2. log'[n].unit = s[j]
      BY <3>1, RecordIs
    <3> QED
      BY <3>2, <3>a, <1>b
  <2>a. PICK p : p = m - 1
    OBVIOUS
  <2>5. ContentAt(u, p)' = ContentAt(u, N)
    BY <1>1, <2>3, <2>4, <2>a, SkippedNext
  <2> QED
    BY <2>1, <2>2, <2>5, <2>a
<1> QED
  BY <1>3, <1>4 DEF Kept

(* Where a publication leaves its request and what its caller learns. *)
LEMMA PublishedIs ==
    ASSUME NEW c \in Client, NEW r, r = rq[c], IsRequest(r), Published(c)
    PROVE  \/ /\ r.op = "trim"
              /\ Becomes(c, [r EXCEPT !.stage = "items", !.span = NextChunk(r), !.slots = 0,
                                      !.bytes = 0, !.locks = {}])
              /\ acked' = acked
           \/ /\ Becomes(c, NoRequest)
              /\ acked' = acked \/ (Syncs(r) /\ acked' \in {Max({acked, r.at}), Max({acked, Len(log')})})
  BY SucceedIs DEF Published, Syncs

(* The next chunk of a trim is a request in order. *)
LEMMA ChunkOk ==
    ASSUME NEW r, IsRequest(r), Placed(r), r.op = "trim", Grows, r.at <= Len(log),
           NEW n, n = [r EXCEPT !.stage = "items", !.span = NextChunk(r), !.slots = 0, !.bytes = 0, !.locks = {}]
    PROVE  RequestOk(n)' /\ n.locks = {}
<1>a. PICK sp \in SUBSET Unit : sp = NextChunk(r)
  BY DEF NextChunk, Chunk
<1>1. With(n, r, "items", sp, 0, 0, {}, r.seen, r.gone)
  BY <1>a, ToChunk
<1>2. "items" \in Stages \ {"idle"} /\ {} \in SUBSET sp /\ r.gone \in BOOLEAN
  BY DEF Stages, IsRequest
<1>3. IsRequest(n)
  BY <1>1, <1>2, MovedIs
<1>4. n.stage = "items" /\ n.op = r.op /\ n.fua = r.fua /\ n.locks = {} /\ n.at = r.at
  BY <1>1, FullFields
<1>5. Placed(n) /\ ~Looked(n)
  BY <1>4 DEF Placed, Looked
<1>6. n.at <= Len(log')
  BY <1>3, <1>4, GrowsLen DEF IsRequest
<1>7. IsRequest(n)' /\ Placed(n)' /\ (~Looked(n))'
  BY <1>3, <1>5 DEF IsRequest, Placed, Looked
<1> QED
  BY <1>4, <1>6, <1>7 DEF RequestOk

(* Publish keeps the invariant, however many of the records get out. *)
LEMMA PublishStep ==
    ASSUME IInv, NEW c \in Client, Publish(c)
    PROVE  IInv'
<1>a. PICK r : r = rq[c]
  OBVIOUS
<1>1. r.stage = "publish" /\ ~failed /\ UNCHANGED <<failed, ops, ticks, maxBytes>>
  BY <1>a DEF Publish
<1>2. /\ Active(c) /\ IsRequest(r) /\ Placed(r) /\ RequestOk(r) /\ CountsOk /\ CacheOk(cache)
      /\ log \in Seq(LogRec) /\ Len(log) \in Nat
  BY <1>1, <1>a, Parts
<1>3. r.locks = r.span /\ r.span \subseteq Unit /\ r.at \in 0..Len(log) /\ (r.op = "write" => SeenOk(r))
  BY <1>1, <1>2 DEF Placed, IsRequest, RequestOk, Looked
<1>b. PICK s \in Ascending(Changed(r)), ok \in BOOLEAN : \E k \in 0..Len(s) :
         LET total == Len(log) + k
         IN  /\ ok => k = Len(s)
             /\ log' = log \o [i \in 1..k |-> RecordOf(r, s[i])]
             /\ cache' = Invalidated(SubSeq(s, 1, k))
             /\ IF ok /\ Syncs(r) THEN durable' = total
                ELSE durable' \in {durable} \cup Len(log)..(IF k = 0 THEN Len(log) ELSE total - 1)
             /\ IF ok THEN Published(c) ELSE End(c) /\ UNCHANGED acked
  BY <1>a DEF Publish
<1>4. Changed(r) \in SUBSET Unit /\ Changed(r) \subseteq r.span
  BY <1>3 DEF Changed
<1>5. /\ s \in Seq(Unit) /\ Len(s) \in Nat /\ (\A i \in 1..Len(s) : s[i] \in Changed(r))
      /\ \A i, j \in 1..Len(s) : i < j => s[i] # s[j]
  BY <1>4, <1>b, AscendingIs
<1>c. PICK k \in 0..Len(s) :
             /\ log' = log \o [i \in 1..k |-> RecordOf(r, s[i])]
             /\ cache' = Invalidated(SubSeq(s, 1, k))
             /\ IF ok /\ Syncs(r) THEN durable' = Len(log) + k
                ELSE durable' \in {durable} \cup Len(log)..(IF k = 0 THEN Len(log) ELSE Len(log) + k - 1)
             /\ IF ok THEN Published(c) ELSE End(c) /\ UNCHANGED acked
  BY <1>b, SMTT(60)
<1>6. k \in Nat /\ (\A i \in 1..k : s[i] \in r.span) /\ \A i, j \in 1..k : i < j => s[i] # s[j]
  BY <1>4, <1>5
<1>d. PICK t : t = [i \in 1..k |-> RecordOf(r, s[i])]
  OBVIOUS
<1>7. \A i \in 1..k : /\ RecordOf(r, s[i]) \in LogRec /\ RecordOf(r, s[i]).unit = s[i]
                      /\ RecordOf(r, s[i]).data \in Content
  BY <1>2, <1>3, <1>6, RecordIs
<1>8. /\ t \in [1..k -> LogRec] /\ log' = log \o t
      /\ \A i \in 1..k : t[i] = RecordOf(r, s[i])
  BY <1>7, <1>c, <1>d
<1>9. Grows /\ Len(log') = Len(log) + k
  BY <1>2, <1>6, <1>8, LogGrows
<1>10. \A m \in (Len(log) + 1)..Len(log') : Kept(m)'
  <2>1. /\ IsRequest(r) /\ (r.op = "write" => SeenOk(r)) /\ k \in Nat
        /\ (\A i \in 1..k : s[i] \in r.span) /\ (\A i, j \in 1..k : i < j => s[i] # s[j])
        /\ log \in Seq(LogRec)
    BY <1>2, <1>3, <1>6
  <2> QED
    BY <1>8, <2>1, RecordsKept, ZenonT(60)
<1>11. \A i \in 1..k : t[i].unit \in rq[c].locks /\ t[i].data \in Content
  BY <1>3, <1>6, <1>7, <1>8, <1>a
<1>12. CacheOk(cache')
  <2>1. SubSeq(s, 1, k) \in Seq(Unit)
    BY <1>5, SubSeqProperties
  <2> QED
    BY <1>2, <1>c, <2>1, InvalidatedOk
<1>13. durable' \in durable..Len(log') /\ durable \in 0..Len(log) /\ acked \in 0..durable
  <2>1. durable \in 0..Len(log) /\ acked \in 0..durable
    BY <1>2 DEF CountsOk
  <2>2. durable' \in {durable, Len(log) + k} \cup Len(log)..(IF k = 0 THEN Len(log) ELSE Len(log) + k - 1)
    BY <1>c
  <2> QED
    BY <1>2, <1>6, <1>9, <2>1, <2>2
<1>e. PICK q : q = [r EXCEPT !.stage = "items", !.span = NextChunk(r), !.slots = 0, !.bytes = 0, !.locks = {}]
  OBVIOUS
<1>f. PICK no : no = NoRequest
  OBVIOUS
<1>14. \/ r.op = "trim" /\ Becomes(c, q) /\ acked' = acked
       \/ /\ Becomes(c, no)
          /\ \/ acked' = acked
             \/ durable' = Len(log') /\ acked' \in {Max({acked, r.at}), Max({acked, Len(log')})}
  <2>1. CASE ok
    <3>1. Published(c) /\ (Syncs(r) => durable' = Len(log'))
      BY <1>9, <1>c, <2>1
    <3> QED
      BY <1>2, <1>a, <1>e, <1>f, <3>1, PublishedIs
  <2>2. CASE ~ok
    BY <1>c, <1>f, <2>2 DEF End
  <2> QED
    BY <1>b, <2>1, <2>2
<1>15. durable' \in 0..Len(log') /\ acked' \in Nat /\ acked' <= durable'
  <2>1. Len(log') \in Nat /\ acked \in 0..Len(log') /\ r.at \in 0..Len(log') /\ Len(log') \in 0..Len(log')
    BY <1>2, <1>3, <1>6, <1>9, <1>13
  <2>2. Max({acked, r.at}) \in 0..Len(log') /\ Max({acked, Len(log')}) \in 0..Len(log')
    BY <2>1, MaxOfTwo
  <2>3. acked' = acked \/ (durable' = Len(log') /\ acked' \in 0..Len(log'))
    BY <1>14, <2>2
  <2> QED
    BY <1>13, <2>1, <2>3
<1>16. PICK n : Becomes(c, n) /\ (n = NoRequest \/ (RequestOk(n)' /\ n.locks \subseteq rq[c].locks))
  <2>1. CASE r.op = "trim" /\ Becomes(c, q)
    <3>1. r.at <= Len(log)
      BY <1>2 DEF RequestOk
    <3>2. RequestOk(q)' /\ q.locks = {}
      BY <1>2, <1>9, <1>e, <2>1, <3>1, ChunkOk
    <3> QED
      BY <2>1, <3>2
  <2>2. CASE Becomes(c, no)
    BY <2>2, <1>f
  <2> QED
    BY <1>14, <2>1, <2>2
<1>17. failed' \in BOOLEAN /\ (failed => failed') /\ (~failed' => \A i \in 1..k : t[i].data \in Content)
  BY <1>1, <1>2, <1>11 DEF CountsOk
<1>18. UNCHANGED <<ops, ticks, maxBytes>>
  BY <1>1
<1> QED
  BY <1>2, <1>6, <1>8, <1>10, <1>11, <1>12, <1>15, <1>16, <1>17, <1>18, LogStep

-----------------------------------------------------------------------------
(* The theorems. *)

(* The log that an attach recovers. *)
LEMMA RecoveredIs ==
    ASSUME NEW s \in Seq(Unit)
    PROVE  /\ Recovered(s) \in Seq(LogRec) /\ Len(Recovered(s)) \in Nat
           /\ \A n \in 1..Len(Recovered(s)) : Recovered(s)[n].by = Offset /\ Recovered(s)[n].data \in Content
<1>a. PICK k \in Nat : k = Len(s)
  OBVIOUS
<1>b. PICK d : d = [o \in Offset |-> MaxOps + 1]
  OBVIOUS
<1>1. d \in Content
  BY <1>b, Constants DEF Content
<1>2. Recovered(s) = [i \in 1..k |-> [unit |-> s[i], live |-> TRUE, by |-> Offset, data |-> d]]
  BY <1>a, <1>b DEF Recovered
<1>3. \A i \in 1..k : [unit |-> s[i], live |-> TRUE, by |-> Offset, data |-> d] \in LogRec
  BY <1>1, <1>a DEF LogRec
<1>4. Recovered(s) \in [1..k -> LogRec]
  BY <1>2, <1>3
<1>5. Recovered(s) \in Seq(LogRec) /\ Len(Recovered(s)) = k
  BY <1>4
<1> QED
  BY <1>1, <1>2, <1>5

(* An empty cache is in order. *)
LEMMA EmptyOk ==
    ASSUME NEW m \in Nat
    PROVE  CacheOk(EmptyCache(Unit, m))
<1>a. PICK c : c = EmptyCache(Unit, m)
  OBVIOUS
<1>1. c = [map |-> [u \in Unit |-> NoEntry], order |-> <<>>, max |-> m]
  BY <1>a DEF EmptyCache
<1>2. c \in CacheRec
  BY <1>1 DEF CacheRec
<1>3. \A u \in Unit : ~Holds(c, u)
  BY <1>1 DEF Holds
<1>4. Len(c.order) = 0 /\ Listed(c.order) = {} /\ IsInjective(c.order) /\ c.max = m
  BY <1>1 DEF Listed, IsInjective
<1>5. Ordered(c)
  BY <1>3, <1>4 DEF Ordered
<1> QED
  BY <1>2, <1>3, <1>5, <1>a DEF CacheOk

(* The invariant holds when the engine attaches. *)
LEMMA InitOk == Init => IInv
<1> SUFFICES ASSUME Init PROVE IInv
  OBVIOUS
<1>1. PICK s \in Ascending(Filled) : log = Recovered(s)
  BY DEF Init
<1>2. s \in Seq(Unit)
  BY <1>1, Constants, AscendingIs
<1>3. /\ log \in Seq(LogRec) /\ Len(log) \in Nat
      /\ \A n \in 1..Len(log) : log[n].by = Offset /\ log[n].data \in Content
  BY <1>1, <1>2, RecoveredIs
<1>4. LogOk
  BY <1>3 DEF LogOk, Kept
<1>5. RequestsOk /\ LocksApart
  BY Idle DEF Init, RequestsOk, LocksApart, Active
<1>6. CacheOk(cache)
  BY EmptyOk, Constants DEF Init
<1>7. CountsOk
  <2>1. rq \in [Client -> {rq[c] : c \in Client}]
    BY DEF Init
  <2>2. durable \in 0..Len(log) /\ acked \in Nat /\ acked <= durable
    BY <1>3 DEF Init
  <2>3. ops \in 0..MaxOps /\ ticks \in 0..MaxExpiries
    BY Constants DEF Init
  <2>4. maxBytes \in ByteLimits /\ failed \in BOOLEAN
    BY DEF Init
  <2> QED
    BY <2>1, <2>2, <2>3, <2>4 DEF CountsOk
<1> QED
  BY <1>4, <1>5, <1>6, <1>7 DEF IInv

(* A step that changes nothing keeps the invariant. *)
LEMMA StutterOk ==
    ASSUME IInv, UNCHANGED vars
    PROVE  IInv'
<1>1. UNCHANGED <<maxBytes, rq, log, durable, cache, acked, failed, ops, ticks>>
  BY DEF vars
<1>2. CountsOk /\ LogOk /\ RequestsOk /\ LocksApart /\ CacheOk(cache)
  BY DEF IInv
<1>3. Grows /\ \A k \in (Len(log) + 1)..Len(log') : FALSE
  BY <1>1, GrowsSame
<1>4. LogOk'
  BY <1>1, <1>2, <1>3, KeptKept DEF LogOk
<1>5. RequestsOk'
  <2> SUFFICES ASSUME NEW d \in Client PROVE (rq[d] = NoRequest \/ RequestOk(rq[d]))'
    BY DEF RequestsOk
  <2>a. PICK r : r = rq[d]
    OBVIOUS
  <2>1. r = NoRequest \/ RequestOk(r)
    BY <1>2, <2>a DEF RequestsOk
  <2>2. r = NoRequest \/ RequestOk(r)'
    BY <1>3, <2>1, RequestKept
  <2> QED
    BY <1>1, <2>2, <2>a
<1>6. LocksApart'
  BY <1>1, <1>2 DEF LocksApart, Active
<1>7. CacheOk(cache)'
  <2>a. PICK k : k = cache
    OBVIOUS
  <2>1. CacheOk(k)'
    BY <1>2, <1>3, <2>a, CacheKept
  <2> QED
    BY <1>1, <2>1, <2>a
<1>8. CountsOk'
  BY <1>1, <1>2 DEF CountsOk
<1> QED
  BY <1>4, <1>5, <1>6, <1>7, <1>8 DEF IInv

(* Every step keeps the invariant. *)
LEMMA NextOk ==
    ASSUME IInv, [Next]_vars
    PROVE  IInv'
<1>1. CASE UNCHANGED vars
  BY <1>1, StutterOk
<1>2. ASSUME NEW c \in Client, Begin(c) \/ Wait(c) \/ Run(c) \/ Panic(c) \/ Cancel(c)
      PROVE  IInv'
  BY BeginStep, AcquireSlotStep, AcquireBytesStep, LockUnitStep, CheckFreshnessStep, SnapshotStep,
     DecryptStep, EncryptStep, PublishStep, RefusedStep, SyncJournalStep, DrainStep, PanicStep, CancelStep,
     <1>2 DEF Wait, Run
<1>3. CASE Expire
  BY <1>3, ExpireStep
<1>4. CASE ConfigureCache
  BY <1>4, ConfigureCacheStep
<1> QED
  BY <1>1, <1>2, <1>3, <1>4 DEF Next

(* The invariant always holds. *)
LEMMA Inductive == Spec => []IInv
<1>1. IInv /\ [Next]_vars => IInv'
  BY NextOk
<1> QED
  BY <1>1, InitOk, PTL DEF Spec

(* No update is lost: however many callbacks write, trim and are cancelled *)
(* at the same time, a published record changes only the blocks its *)
(* request wrote (write_admitted under its unit locks, journal_request). *)
THEOREM UpdatesNeverLost == Spec => []NoLostUpdate
<1>1. IInv => NoLostUpdate
  <2> SUFFICES ASSUME IInv PROVE NoLostUpdate
    OBVIOUS
  <2>1. CountsOk /\ LogOk /\ RequestsOk /\ LocksApart /\ log \in Seq(LogRec) /\ Len(log) \in Nat
    BY DEF IInv, LogOk
  <2>2. \A n \in 1..Len(log) : log[n].unit \in Unit /\ log[n].by \subseteq Offset
    BY <2>1, LogFields
  <2>3. \A c \in Client : rq[c].stage \in Stages
    BY <2>1, Idle DEF Stages, RequestsOk, RequestOk, IsRequest
  <2>4. durable \in 0..Len(log) /\ acked \in 0..Len(log)
    BY <2>1 DEF CountsOk
  <2>5. TypeOK
    BY <2>1, <2>2, <2>3, <2>4 DEF TypeOK, CountsOk, LocksApart
  <2> QED
    BY <2>1, <2>5 DEF NoLostUpdate, LogOk, Kept
<1> QED
  BY <1>1, Inductive, PTL

(* Reads are linear: what a read, or the read half of a write, has seen is *)
(* the volume at one moment since it began and nothing a panic left, and *)
(* the cache it is served from stays coherent (read_secret_inner, *)
(* VersionedLruCache). *)
THEOREM ReadsAreLinear == Spec => []ReadsLinear
<1>1. IInv => ReadsLinear
  <2> SUFFICES ASSUME IInv PROVE ReadsLinear
    OBVIOUS
  <2>1. CacheCoherent
    BY DEF IInv, CacheOk, Ordered, Listed, Filed, CacheCoherent
  <2>2. ASSUME NEW c \in Client, rq[c].stage \in {"decrypt", "encrypt"}
        PROVE  \E i \in rq[c].at..Len(log) : \A u \in DOMAIN rq[c].seen :
                  rq[c].seen[u].data = ContentAt(u, i) /\ rq[c].seen[u].data # Garbage
    <3>a. PICK r : r = rq[c]
      OBVIOUS
    <3>1. RequestOk(r) /\ Placed(r)
      BY <2>2, <3>a, Parts
    <3>2. SeenOk(r)
      BY <2>2, <3>1, <3>a DEF RequestOk, Placed, Looked
    <3>3. r.seen \in [Wanted(r) -> View] /\ OneMoment(r)
      BY <3>2 DEF SeenOk
    <3>4. DOMAIN r.seen = Wanted(r) /\ \A u \in Wanted(r) : r.seen[u].data # Garbage
      BY <3>3, Contents DEF View
    <3> QED
      BY <3>3, <3>4, <3>a DEF OneMoment
  <2> QED
    BY <2>1, <2>2 DEF ReadsLinear
<1> QED
  BY <1>1, Inductive, PTL

(* What a FLUSH, FUA write or FUA trim told its caller is durable, also *)
(* when a trim goes through several chunks and when a caller is gone *)
(* before the end (flush_inner, journal_request, trim_inner). *)
THEOREM AckedIsDurable == Spec => []AckedDurable
<1>1. IInv => AckedDurable
  BY DEF IInv, CountsOk, AckedDurable
<1> QED
  BY <1>1, Inductive, PTL

-----------------------------------------------------------------------------
(* Journal admission and the checkpoint worker (EngineReclaim). *)

(* The types of a segment, of the journal with the volume's view of it, of *)
(* a publication, a checkpoint and a pass of the worker. *)
Segment == [last : Nat, count : Nat]

VolumeView == [segments : Seq(Segment), appended : Nat, durable : Nat, ckpt : Nat, retired : Nat, punch : BOOLEAN]

Publication == {NoWrite} \cup
    [stage : {"round", "gate", "wait"}, round : Nat, n : Nat, fua : BOOLEAN, trim : BOOLEAN]

GateOwner == Writer \cup {Worker, Admin}

Checkpoints == {NoCheckpoint} \cup [stage : {"prepare"}, by : GateOwner]
    \cup [stage : {"execute"}, by : GateOwner, horizon : Nat]
    \cup [stage : {"finish"}, by : GateOwner, horizon : Nat, ok : BOOLEAN]

Passes == [stage : {"sleep", "scan", "sync", "enter", "gate", "wait", "after", "done"}]
    \cup [stage : {"decide"}, volatile : BOOLEAN, overlay : BOOLEAN, size : BOOLEAN, punch : BOOLEAN]

Spending == [records : Nat, faults : Nat, space : Nat]

(* The horizons are in order, the active segment ends with the last record *)
(* and no segment holds more than a roll allows. *)
JournalOk(v, c) ==
    /\ v \in VolumeView
    /\ v.ckpt <= v.durable /\ v.durable <= v.appended /\ v.retired <= v.ckpt
    /\ v.appended = IF v.segments = <<>> THEN 0 ELSE v.segments[Len(v.segments)].last
    /\ \A i \in 1..Len(v.segments) : v.segments[i].last <= v.appended /\ v.segments[i].count \in 1..(c.segment - 1)

(* The limits of the journal, the overlay and the unsynced tail. *)
WithinLimits(v, c) ==
    /\ TotalBytes(v) <= c.journal
    /\ v.appended - v.retired <= c.overlay
    /\ v.appended - v.durable <= c.pending

(* A checkpoint that succeeded and covers every record has left only the *)
(* active segment, and nothing in the overlay. *)
Swept(v) == v.ckpt >= v.appended => Len(v.segments) <= 1 /\ v.retired = v.ckpt

(* A publication is no larger than the largest request, and one that waits *)
(* for a checkpoint has a round left. *)
AdmissionOk(p, c) == p.stage # "idle" =>
    /\ p.n <= c.largest /\ p.round <= c.rounds
    /\ p.stage \in {"gate", "wait"} => p.round < c.rounds

(* A checkpoint captures a durable horizon, and its owner waits for it. *)
GateOk(k, v, p, q) ==
    /\ k.stage \in {"execute", "finish"} => k.horizon <= v.durable
    /\ k.stage # "none" /\ k.by \in Writer => p[k.by].stage = "wait"
    /\ k.stage # "none" /\ k.by = Worker => q.stage = "wait"

(* Without a failure the last checkpoint of a publication in a later round *)
(* succeeded, and so has every checkpoint applied since. *)
FaultFree(p, k, done) ==
    /\ \A w \in Writer : p[w].stage # "idle" /\ p[w].round > 0 => done
    /\ k.stage = "finish" => k.ok

(* The inductive invariant of EngineReclaim. *)
ReclaimInv ==
    /\ cfg \in Settings /\ JournalOk(vol, cfg) /\ WithinLimits(vol, cfg)
    /\ wr \in [Writer -> Publication] /\ \A w \in Writer : AdmissionOk(wr[w], cfg)
    /\ ck \in Checkpoints /\ wk \in Passes /\ GateOk(ck, vol, wr, wk)
    /\ clean \in BOOLEAN /\ (clean => Swept(vol))
    /\ spent \in Spending
    /\ spent.records <= cfg.records /\ spent.faults <= cfg.faults /\ spent.space <= cfg.space
    /\ early \in BOOLEAN /\ (early => spent.faults > 0)
    /\ (spent.faults = 0 => FaultFree(wr, ck, clean))
    /\ (returned => wk.stage = "done")
    /\ free \in FreeLevel

(* The greater and the smaller of two integers. *)
LEMMA OfTwo ==
    ASSUME NEW a \in Int, NEW b \in Int
    PROVE  Max({a, b}) = (IF a >= b THEN a ELSE b) /\ Min({a, b}) = (IF a <= b THEN a ELSE b)
  BY DEF Max, Min

(* The smaller of two integers. *)
LEMMA MinOfTwo == \A a, b \in Int : Min({a, b}) = IF a <= b THEN a ELSE b
  BY OfTwo

(* Taking one divisor more adds one to a quotient. *)
LEMMA DivStep ==
    ASSUME NEW a \in Nat, NEW p \in Nat \ {0}
    PROVE  (a + p) \div p = (a \div p) + 1 /\ a \div p \in Nat
  OBVIOUS

(* What is smaller than the divisor has the quotient 0. *)
LEMMA DivSmall ==
    ASSUME NEW p \in Nat \ {0}, NEW a \in 0..(p - 1)
    PROVE  a \div p = 0
  OBVIOUS

(* Quotients grow with the dividend. *)
LEMMA DivMonotone ==
    ASSUME NEW a \in Nat, NEW b \in Nat, a <= b, NEW p \in Nat \ {0}
    PROVE  a \div p <= b \div p
  OBVIOUS

(* b lists the sizes of the first segments of s. *)
SizesAre(b, s) ==
    /\ b \in [0..Len(s) -> Nat] /\ b[0] = 0
    /\ \A i \in 1..Len(s) : b[i] = b[i - 1] + 1 + s[i].count

(* TotalBytes sums the segments. *)
LEMMA TotalBytesIs ==
    ASSUME NEW v, v.segments \in Seq(Segment)
    PROVE  \E b : SizesAre(b, v.segments) /\ TotalBytes(v) = b[Len(v.segments)]
<1>0. PICK s : s = v.segments
  OBVIOUS
<1> DEFINE Eq(a) == a = [i \in 0..Len(s) |-> IF i = 0 THEN 0 ELSE a[i - 1] + 1 + s[i].count]
<1> DEFINE F == [i \in 1..Len(s) |-> [n \in Nat |-> n + 1 + s[i].count]]
<1>a. s \in Seq(Segment)
  BY <1>0
<1>b. Len(s) \in Nat /\ \A i \in 1..Len(s) : s[i] \in Segment
  BY <1>a
<1>1. Len(s) \in Nat /\ \A i \in 1..Len(s) : s[i].count \in Nat
  BY <1>b DEF Segment
<1>2. TotalBytes(v) = (CHOOSE a : Eq(a))[Len(s)]
  BY <1>0 DEF TotalBytes
<1>3. F \in [1..Len(s) -> [Nat -> Nat]]
  BY <1>1
<1>4. PICK g : Iterates(g, Len(s), Nat, 0, F)
  <2> HIDE DEF F
  <2> QED
    BY <1>1, <1>3, Iterated
<1>5. g \in [0..Len(s) -> Nat] /\ g[0] = 0 /\ \A i \in 1..Len(s) : g[i] = F[i][g[i - 1]]
  <2> HIDE DEF F
  <2> QED
    BY <1>4 DEF Iterates
<1>6. \A i \in 1..Len(s) : g[i] = g[i - 1] + 1 + s[i].count
  <2> SUFFICES ASSUME NEW i \in 1..Len(s) PROVE g[i] = g[i - 1] + 1 + s[i].count
    OBVIOUS
  <2>1. i - 1 \in 0..Len(s)
    BY <1>1
  <2>2. g[i - 1] \in Nat
    BY <1>5, <2>1
  <2> QED
    BY <1>5, <2>2
<1>7. Eq(g)
  BY <1>1, <1>5, <1>6
<1>8. PICK a : a = (CHOOSE h : Eq(h)) /\ Eq(a)
  <2> HIDE DEF Eq
  <2> QED
    BY <1>7
<1>9. a = [i \in 0..Len(s) |-> IF i = 0 THEN 0 ELSE a[i - 1] + 1 + s[i].count]
  BY <1>8
<1>10. a[0] = 0 /\ \A i \in 1..Len(s) : a[i] = a[i - 1] + 1 + s[i].count
  <2>2. \A i \in 0..Len(s) : a[i] = IF i = 0 THEN 0 ELSE a[i - 1] + 1 + s[i].count
    BY <1>9
  <2> QED
    BY <1>1, <2>2
<1>11. 0..Len(s) \subseteq {n \in 0..Len(s) : a[n] \in Nat}
  <2> DEFINE S == {n \in 0..Len(s) : a[n] \in Nat}
  <2>1. 0 \in S
    BY <1>1, <1>10
  <2>2. ASSUME NEW n \in 0..(Len(s) - 1), n \in S PROVE n + 1 \in S
    <3>1. n + 1 \in 1..Len(s) /\ (n + 1) - 1 = n /\ a[n] \in Nat
      BY <1>1, <2>2
    <3>2. a[n + 1] = a[n] + 1 + s[n + 1].count
      BY <1>10, <3>1
    <3>3. a[n + 1] \in Nat
      BY <1>1, <3>1, <3>2
    <3> QED
      BY <3>1, <3>3
  <2> HIDE DEF S
  <2>3. 0..Len(s) \subseteq S
    BY <1>1, <2>1, <2>2, UpTo
  <2> QED
    BY <2>3 DEF S
<1>12. a \in [0..Len(s) -> Nat]
  BY <1>9, <1>11
<1>13. SizesAre(a, s)
  BY <1>10, <1>12 DEF SizesAre
<1> QED
  BY <1>0, <1>2, <1>8, <1>13

(* n segments of s are those of t after the first k. *)
Overlaps(s, t, k, n) == n <= Len(s) /\ k + n <= Len(t) /\ \A i \in 1..n : s[i] = t[k + i]

(* The sizes of a prefix and of a rest agree with those of the whole. *)
LEMMA SizesAgree ==
    ASSUME NEW s \in Seq(Segment), NEW t \in Seq(Segment), NEW k \in Nat, NEW n \in Nat,
           NEW a, NEW b, SizesAre(a, s), SizesAre(b, t), Overlaps(s, t, k, n)
    PROVE  b[k + n] = b[k] + a[n]
<1> DEFINE S == {m \in 0..n : b[k + m] = b[k] + a[m]}
<1>d. n <= Len(s) /\ k + n <= Len(t) /\ \A i \in 1..n : s[i] = t[k + i]
  BY DEF Overlaps
<1>0. Len(s) \in Nat /\ Len(t) \in Nat /\ k \in 0..Len(t)
  BY <1>d
<1>b. b \in [0..Len(t) -> Nat] /\ a \in [0..Len(s) -> Nat] /\ a[0] = 0
  BY DEF SizesAre
<1>c. \A i \in 1..Len(s) : s[i] \in Segment
  OBVIOUS
<1>a. a[0] = 0 /\ b[k] \in Nat /\ k + 0 = k
  BY <1>0, <1>b
<1>1. 0 \in S
  BY <1>a
<1>2. ASSUME NEW m \in 0..(n - 1), m \in S PROVE m + 1 \in S
  <2>1. m + 1 \in 1..n /\ m + 1 \in 1..Len(s) /\ k + (m + 1) \in 1..Len(t)
    BY <1>0, <1>d
  <2>2. (m + 1) - 1 = m /\ (k + (m + 1)) - 1 = k + m
    OBVIOUS
  <2>3. a[m + 1] = a[m] + 1 + s[m + 1].count
    BY <2>1, <2>2 DEF SizesAre
  <2>4. b[k + (m + 1)] = b[k + m] + 1 + t[k + (m + 1)].count
    BY <2>1, <2>2 DEF SizesAre
  <2>5. s[m + 1] = t[k + (m + 1)]
    BY <1>d, <2>1
  <2>6. b[k + m] = b[k] + a[m]
    BY <1>2
  <2>7. m \in 0..Len(s)
    BY <1>0, <1>d
  <2>8. a[m] \in Nat /\ s[m + 1].count \in Nat
    BY <1>b, <1>c, <2>1, <2>7 DEF Segment
  <2>9. b[k + (m + 1)] = b[k] + a[m + 1]
    <3>1. PICK x, y, z, c : x = b[k] /\ y = a[m] /\ z = a[m + 1] /\ c = s[m + 1].count
      OBVIOUS
    <3>2. b[k + (m + 1)] = (x + y) + 1 + c
      BY <2>4, <2>5, <2>6, <3>1
    <3>3. z = y + 1 + c
      BY <2>3, <3>1
    <3>4. x \in Nat /\ y \in Nat /\ c \in Nat
      BY <1>a, <2>8, <3>1
    <3>5. (x + y) + 1 + c = x + z
      BY <3>3, <3>4
    <3> QED
      BY <3>1, <3>2, <3>5
  <2> QED
    BY <2>1, <2>9
<1> HIDE DEF S
<1>3. 0..n \subseteq S
  BY <1>1, <1>2, UpTo
<1> QED
  BY <1>3 DEF S

(* The active segment is the last one: a roll adds a header, a record one *)
(* byte, and dropping segments never adds any. *)
LEMMA BytesOfRoll ==
    ASSUME NEW v, NEW w, v.segments \in Seq(Segment), NEW x \in Segment, w.segments = Append(v.segments, x)
    PROVE  TotalBytes(w) = TotalBytes(v) + 1 + x.count /\ TotalBytes(v) \in Nat
<1>1. PICK s, t : s = v.segments /\ t = w.segments
  OBVIOUS
<1>2. s \in Seq(Segment) /\ t = Append(s, x)
  BY <1>1
<1>3. t \in Seq(Segment) /\ Len(t) = Len(s) + 1 /\ t[Len(s) + 1] = x /\ Len(s) \in Nat
  BY <1>2
<1>4. \A i \in 1..Len(s) : s[i] = t[0 + i]
  BY <1>2
<1>5. PICK a : SizesAre(a, s) /\ TotalBytes(v) = a[Len(s)]
  BY <1>1, <1>2, TotalBytesIs
<1>6. PICK b : SizesAre(b, t) /\ TotalBytes(w) = b[Len(t)]
  BY <1>1, <1>3, TotalBytesIs
<1>a. Len(s) <= Len(s) /\ 0 + Len(s) <= Len(t) /\ 0 \in Nat
  BY <1>3
<1>7. b[0 + Len(s)] = b[0] + a[Len(s)]
  <2>1. PICK n : n = Len(s)
    OBVIOUS
  <2>2. n \in Nat /\ n <= Len(s) /\ 0 + n <= Len(t) /\ \A i \in 1..n : s[i] = t[0 + i]
    BY <1>3, <1>4, <1>a, <2>1
  <2>a. Overlaps(s, t, 0, n)
    BY <2>2 DEF Overlaps
  <2>b. s \in Seq(Segment) /\ t \in Seq(Segment) /\ n \in Nat /\ 0 \in Nat
    BY <1>2, <1>3, <2>2
  <2>c. SizesAre(a, s) /\ SizesAre(b, t)
    BY <1>5, <1>6
  <2>3. b[0 + n] = b[0] + a[n]
    BY ONLY <2>a, <2>b, <2>c, SizesAgree
  <2> QED
    BY <2>1, <2>3
<1>8. b[0] = 0 /\ a[Len(s)] \in Nat
  BY <1>3, <1>5, <1>6 DEF SizesAre
<1>9. Len(s) + 1 \in 1..Len(t) /\ (Len(s) + 1) - 1 = Len(s) /\ 0 + Len(s) = Len(s)
  BY <1>3
<1>10. b[Len(s) + 1] = b[Len(s)] + 1 + t[Len(s) + 1].count
  BY <1>6, <1>9 DEF SizesAre
<1> QED
  BY <1>3, <1>5, <1>6, <1>7, <1>8, <1>9, <1>10

(* A record in the active segment adds its bytes. *)
LEMMA BytesOfRecord ==
    ASSUME NEW v, NEW w, v.segments \in Seq(Segment), v.segments # <<>>, w.segments \in Seq(Segment),
           Len(w.segments) = Len(v.segments),
           \A i \in 1..(Len(v.segments) - 1) : w.segments[i] = v.segments[i],
           w.segments[Len(v.segments)].count = v.segments[Len(v.segments)].count + 1
    PROVE  TotalBytes(w) = TotalBytes(v) + 1
<1>1. PICK s, t : s = v.segments /\ t = w.segments
  OBVIOUS
<1>2. s \in Seq(Segment) /\ t \in Seq(Segment) /\ Len(t) = Len(s) /\ s # <<>>
  BY <1>1
<1>a. PICK n : n = Len(s) - 1
  OBVIOUS
<1>3. n \in Nat /\ Len(s) = n + 1 /\ Len(t) = n + 1
  BY <1>2, <1>a
<1>4. /\ \A i \in 1..n : s[i] = t[0 + i]
      /\ t[n + 1].count = s[n + 1].count + 1
  BY <1>1, <1>3, <1>a
<1>5. PICK a : SizesAre(a, s) /\ TotalBytes(v) = a[n + 1]
  BY <1>1, <1>2, <1>3, TotalBytesIs
<1>6. PICK b : SizesAre(b, t) /\ TotalBytes(w) = b[n + 1]
  BY <1>1, <1>2, <1>3, TotalBytesIs
<1>b. Overlaps(s, t, 0, n)
  BY <1>3, <1>4 DEF Overlaps
<1>7. b[0 + n] = b[0] + a[n]
  BY <1>2, <1>3, <1>5, <1>6, <1>b, SizesAgree
<1>8. b[0] = 0 /\ a \in [0..(n + 1) -> Nat]
  BY <1>3, <1>5, <1>6 DEF SizesAre
<1>9. n + 1 \in 1..(n + 1) /\ (n + 1) - 1 = n /\ 0 + n = n /\ n \in 0..(n + 1)
  BY <1>3
<1>10. b[n + 1] = b[n] + 1 + t[n + 1].count
  BY <1>3, <1>6, <1>9 DEF SizesAre
<1>11. a[n + 1] = a[n] + 1 + s[n + 1].count
  BY <1>3, <1>5, <1>9 DEF SizesAre
<1>12. s[n + 1].count \in Nat
  <2>1. s[n + 1] \in Segment
    BY <1>2, <1>3, <1>9
  <2> QED
    BY <2>1 DEF Segment
<1>13. a[n] \in Nat /\ b[n] = a[n]
  BY <1>7, <1>8, <1>9
<1>14. PICK x, c : x = a[n] /\ c = s[n + 1].count
  OBVIOUS
<1>15. b[n + 1] = x + 1 + (c + 1) /\ a[n + 1] = x + 1 + c
  BY <1>4, <1>10, <1>11, <1>13, <1>14
<1>16. x \in Nat /\ c \in Nat
  BY <1>12, <1>13, <1>14
<1>17. x + 1 + (c + 1) = (x + 1 + c) + 1
  BY <1>16
<1> QED
  BY <1>5, <1>6, <1>15, <1>17, Zenon

(* Dropping segments from the front never adds bytes. *)
LEMMA BytesOfDrop ==
    ASSUME NEW v, NEW w, v.segments \in Seq(Segment), NEW k \in 0..Len(v.segments),
           w.segments = SubSeq(v.segments, k + 1, Len(v.segments))
    PROVE  TotalBytes(w) <= TotalBytes(v) /\ TotalBytes(w) \in Nat /\ TotalBytes(v) \in Nat
<1>1. PICK s, t : s = w.segments /\ t = v.segments
  OBVIOUS
<1>2. t \in Seq(Segment) /\ s = SubSeq(t, k + 1, Len(t)) /\ Len(t) \in Nat /\ k \in 0..Len(t)
  BY <1>1
<1>3. s \in Seq(Segment) /\ Len(s) = Len(t) - k /\ \A i \in 1..(Len(t) - k) : s[i] = t[k + i]
  BY <1>2
<1>4. PICK n : n = Len(t) - k
  OBVIOUS
<1>5. n \in Nat /\ k + n = Len(t) /\ Len(s) = n
  BY <1>2, <1>3, <1>4
<1>6. PICK a : SizesAre(a, s) /\ TotalBytes(w) = a[n]
  BY <1>1, <1>3, <1>5, TotalBytesIs
<1>7. PICK b : SizesAre(b, t) /\ TotalBytes(v) = b[Len(t)]
  BY <1>1, <1>2, TotalBytesIs
<1>a. n <= Len(s) /\ k + n <= Len(t) /\ k \in Nat
  BY <1>2, <1>5
<1>b. \A i \in 1..n : s[i] = t[k + i]
  BY <1>3, <1>4
<1>c. Overlaps(s, t, k, n)
  BY <1>a, <1>b DEF Overlaps
<1>d. s \in Seq(Segment) /\ t \in Seq(Segment) /\ n \in Nat /\ k \in Nat
  BY <1>2, <1>3, <1>5, <1>a
<1>e. SizesAre(a, s) /\ SizesAre(b, t)
  BY <1>6, <1>7
<1>8. b[k + n] = b[k] + a[n]
  BY ONLY <1>c, <1>d, <1>e, SizesAgree
<1>9. b \in [0..Len(t) -> Nat] /\ a \in [0..n -> Nat]
  BY <1>5, <1>6, <1>7 DEF SizesAre
<1>10. b[k] \in Nat /\ a[n] \in Nat
  BY <1>2, <1>5, <1>9
<1> QED
  BY <1>5, <1>6, <1>7, <1>8, <1>10

(* A journal of at most one segment is as long as that one. *)
LEMMA BytesOfOne ==
    ASSUME NEW v, v.segments \in Seq(Segment), Len(v.segments) <= 1
    PROVE  TotalBytes(v) = IF v.segments = <<>> THEN 0 ELSE 1 + v.segments[1].count
<1>1. PICK s : s = v.segments
  OBVIOUS
<1>2. PICK a : SizesAre(a, s) /\ TotalBytes(v) = a[Len(s)]
  BY <1>1, TotalBytesIs
<1>3. s \in Seq(Segment) /\ Len(s) \in Nat /\ Len(s) <= 1
  BY <1>1
<1>4. CASE s = <<>>
  BY <1>1, <1>2, <1>4 DEF SizesAre
<1>5. CASE s # <<>>
  <2>0. Len(s) # 0
    BY <1>3, <1>5
  <2>a. PICK n : n = Len(s)
    OBVIOUS
  <2>b. n \in Nat /\ n <= 1 /\ n # 0
    BY <1>3, <2>0, <2>a
  <2>1. Len(s) = 1
    BY <2>a, <2>b
  <2>2. a[1] = a[0] + 1 + s[1].count /\ a[0] = 0
    BY <1>2, <2>1 DEF SizesAre
  <2>3. s[1] \in Segment
    BY <1>3, <2>1
  <2> QED
    BY <1>1, <1>2, <1>5, <2>1, <2>2, <2>3 DEF Segment
<1> QED
  BY <1>4, <1>5

(* What the proofs use of a configuration. *)
LEMMA SettingIs ==
    ASSUME NEW c \in Settings
    PROVE  /\ c.writers \subseteq Writer
           /\ c.largest \in Nat /\ c.rounds \in Nat /\ c.rounds > 0 /\ c.journal \in Nat
           /\ c.pending \in Nat /\ c.pending > 0 /\ c.overlay \in Nat /\ c.largest <= c.overlay
           /\ c.records \in Nat /\ c.faults \in Nat /\ c.space \in Nat
           /\ c.segment \in Nat /\ c.segment >= 2
           /\ c.journal >= c.segment + c.largest + (c.largest + c.segment - 2) \div (c.segment - 1)
           /\ c.requests \subseteq (0..c.largest) \X BOOLEAN \X BOOLEAN
  BY ReclaimAssumption

(* The bytes of n records and of the headers they need when f records fit *)
(* into the active segment and p into a new one. *)
Needed(f, n, p) == n + ((n - Min({n, f})) + p - 1) \div p

(* A record that fits leaves room for one less. *)
LEMMA NeededFits ==
    ASSUME NEW f \in Nat \ {0}, NEW n \in Nat, NEW p \in Nat \ {0}
    PROVE  Needed(f, n + 1, p) = Needed(f - 1, n, p) + 1 /\ Needed(f - 1, n, p) \in Nat
<1>a. n \in Int /\ n + 1 \in Int /\ f \in Int /\ f - 1 \in Int
  OBVIOUS
<1>b. Min({n + 1, f}) = IF n + 1 <= f THEN n + 1 ELSE f
  BY <1>a, MinOfTwo, Zenon
<1>c. Min({n, f - 1}) = IF n <= f - 1 THEN n ELSE f - 1
  BY <1>a, MinOfTwo, Zenon
<1>1. Min({n + 1, f}) = Min({n, f - 1}) + 1
  BY <1>b, <1>c
<1>2. Min({n, f - 1}) \in Nat /\ Min({n, f - 1}) <= n
  BY <1>c
<1>3. PICK m : m = Min({n, f - 1})
  OBVIOUS
<1>4. (n + 1) - Min({n + 1, f}) = n - m
  BY <1>1, <1>2, <1>3
<1>5. (n - m) + p - 1 \in Nat
  BY <1>2, <1>3
<1>6. ((n - m) + p - 1) \div p \in Nat
  BY <1>5, DivStep
<1>7. Needed(f, n + 1, p) = (n + 1) + ((n - m) + p - 1) \div p
  BY <1>4 DEF Needed
<1>8. Needed(f - 1, n, p) = n + ((n - m) + p - 1) \div p
  BY <1>3 DEF Needed
<1> QED
  BY <1>6, <1>7, <1>8

(* A record that does not fit needs a header and leaves a new segment. *)
LEMMA NeededRolls ==
    ASSUME NEW n \in Nat, NEW p \in Nat \ {0}
    PROVE  Needed(0, n + 1, p) = Needed(p - 1, n, p) + 2 /\ Needed(p - 1, n, p) \in Nat
<1>a. n \in Int /\ n + 1 \in Int /\ 0 \in Int /\ p - 1 \in Int
  OBVIOUS
<1>b. Min({n + 1, 0}) = IF n + 1 <= 0 THEN n + 1 ELSE 0
  BY <1>a, MinOfTwo, Zenon
<1>c. Min({n, p - 1}) = IF n <= p - 1 THEN n ELSE p - 1
  BY <1>a, MinOfTwo, Zenon
<1>1. Min({n + 1, 0}) = 0 /\ Min({n, p - 1}) = IF n <= p - 1 THEN n ELSE p - 1
  BY <1>b, <1>c
<1>2. Needed(0, n + 1, p) = (n + 1) + (n + p) \div p
  BY <1>1 DEF Needed
<1>3. (n + p) \div p = (n \div p) + 1 /\ n \div p \in Nat
  BY DivStep
<1>4. CASE n <= p - 1
  <2>1. (n - Min({n, p - 1})) + p - 1 = p - 1
    BY <1>1, <1>4
  <2>2. (p - 1) \div p = 0 /\ n \div p = 0
    BY <1>4, DivSmall
  <2>3. Needed(p - 1, n, p) = n
    BY <2>1, <2>2 DEF Needed
  <2> QED
    BY <1>2, <1>3, <2>2, <2>3
<1>5. CASE ~(n <= p - 1)
  BY <1>1, <1>5, <1>2, <1>3 DEF Needed
<1> QED
  BY <1>4, <1>5

(* No more is needed than in a journal where nothing fits. *)
LEMMA NeededAtMost ==
    ASSUME NEW f \in Nat, NEW n \in Nat, NEW m \in Nat, n <= m, NEW p \in Nat \ {0}
    PROVE  Needed(f, n, p) <= m + (m + p - 1) \div p /\ Needed(f, n, p) \in Nat
<1>1. PICK r : r = n - Min({n, f})
  OBVIOUS
<1>a. n \in Int /\ f \in Int
  OBVIOUS
<1>b. Min({n, f}) = IF n <= f THEN n ELSE f
  BY <1>a, MinOfTwo, Zenon
<1>2. r \in Nat /\ r <= m
  BY <1>1, <1>b
<1>3. r + p - 1 \in Nat /\ m + p - 1 \in Nat /\ r + p - 1 <= m + p - 1
  BY <1>2
<1>4. (r + p - 1) \div p <= (m + p - 1) \div p
  BY <1>3, DivMonotone
<1>5. (r + p - 1) \div p \in Nat /\ (m + p - 1) \div p \in Nat
  BY <1>3, DivStep
<1>6. Needed(f, n, p) = n + (r + p - 1) \div p
  BY <1>1 DEF Needed
<1> QED
  BY <1>4, <1>5, <1>6

(* No records need nothing. *)
LEMMA NeededNothing ==
    ASSUME NEW f \in Nat, NEW p \in Nat \ {0}
    PROVE  Needed(f, 0, p) = 0
<1>a. 0 \in Int /\ f \in Int
  OBVIOUS
<1>b. Min({0, f}) = IF 0 <= f THEN 0 ELSE f
  BY <1>a, MinOfTwo, Zenon
<1>1. 0 - Min({0, f}) = 0
  BY <1>b
<1>2. (p - 1) \div p = 0
  BY DivSmall
<1>3. (0 - Min({0, f})) + p - 1 = p - 1
  BY <1>1
<1> QED
  BY <1>2, <1>3 DEF Needed

(* The footprint of n records, by the room in the active segment. *)
LEMMA FootprintIs ==
    ASSUME cfg \in Settings, NEW v, JournalOk(v, cfg), NEW n \in Nat
    PROVE  /\ Footprint(v, n) = Needed(Fitting(v), n, cfg.segment - 1)
           /\ Fitting(v) \in Nat
           /\ Fitting(v) = IF v.segments = <<>> THEN 0 ELSE cfg.segment - 1 - v.segments[Len(v.segments)].count
<1>1. cfg.segment \in Nat /\ cfg.segment >= 2
  BY SettingIs
<1>2. Footprint(v, n) = Needed(Fitting(v), n, cfg.segment - 1)
  BY DEF Footprint, Needed, SegmentSize
<1>3. CASE v.segments = <<>>
  BY <1>2, <1>3 DEF Fitting
<1>4. CASE v.segments # <<>>
  <2>1. PICK s : s = v.segments
    OBVIOUS
  <2>2. s \in Seq(Segment) /\ s # <<>> /\ \A i \in 1..Len(s) : s[i].count \in 1..(cfg.segment - 1)
    BY <1>4, <2>1 DEF JournalOk, VolumeView
  <2>3. Len(s) \in 1..Len(s)
    BY <2>2
  <2>4. PICK c : c = s[Len(s)].count
    OBVIOUS
  <2>5. c \in 1..(cfg.segment - 1)
    BY <2>2, <2>3, <2>4
  <2>6. Fitting(v) = Max({cfg.segment - 1 - c, IF c = 0 THEN 1 ELSE 0})
    BY <1>4, <2>1, <2>4 DEF Fitting, SegmentSize, Last
  <2>7. Fitting(v) = Max({cfg.segment - 1 - c, 0})
    BY <2>5, <2>6
  <2>8. Fitting(v) = cfg.segment - 1 - c /\ Fitting(v) \in Nat
    BY <1>1, <2>5, <2>7, OfTwo
  <2> QED
    BY <1>2, <1>4, <2>1, <2>4, <2>8
<1> QED
  BY <1>3, <1>4

(* Fewer records need less. *)
LEMMA NeededMonotone ==
    ASSUME NEW f \in Nat, NEW n \in Nat, NEW m \in Nat, n <= m, NEW p \in Nat \ {0}
    PROVE  Needed(f, n, p) <= Needed(f, m, p)
<1>1. n \in Int /\ m \in Int /\ f \in Int
  OBVIOUS
<1>2. Min({n, f}) = IF n <= f THEN n ELSE f
  BY <1>1, MinOfTwo, Zenon
<1>3. Min({m, f}) = IF m <= f THEN m ELSE f
  BY <1>1, MinOfTwo, Zenon
<1>4. PICK q, r : q = (n - Min({n, f})) + p - 1 /\ r = (m - Min({m, f})) + p - 1
  OBVIOUS
<1>5. q \in Nat /\ r \in Nat /\ q <= r
  BY <1>2, <1>3, <1>4
<1>6. q \div p <= r \div p /\ q \div p \in Nat /\ r \div p \in Nat
  BY <1>5, DivMonotone, DivStep
<1>7. Needed(f, n, p) = n + q \div p /\ Needed(f, m, p) = m + r \div p
  BY <1>4 DEF Needed
<1> QED
  BY <1>6, <1>7

(* A sync makes every record durable and changes nothing else. *)
LEMMA SyncedIs ==
    ASSUME NEW v, NEW c, JournalOk(v, c)
    PROVE  /\ JournalOk(Synced(v), c) /\ TotalBytes(Synced(v)) = TotalBytes(v)
           /\ Synced(v).segments = v.segments /\ Synced(v).appended = v.appended
           /\ Synced(v).durable = v.appended /\ Synced(v).ckpt = v.ckpt
           /\ Synced(v).retired = v.retired /\ Synced(v).punch = v.punch
  BY DEF JournalOk, Synced, VolumeView, TotalBytes

(* One record more, which may have sealed and synced those before it. *)
OneMore(v, w) ==
    /\ w.appended = v.appended + 1 /\ w.ckpt = v.ckpt /\ w.retired = v.retired /\ w.punch = v.punch
    /\ v.durable <= w.durable /\ w.durable <= v.appended

(* A record that fits into the active segment. *)
LEMMA AppendOneFits ==
    ASSUME cfg \in Settings, NEW v, JournalOk(v, cfg), Fitting(v) # 0
    PROVE  /\ JournalOk(AppendOne(v), cfg) /\ OneMore(v, AppendOne(v))
           /\ TotalBytes(AppendOne(v)) = TotalBytes(v) + 1
           /\ AppendOne(v).segments # <<>>
           /\ Fitting(AppendOne(v)) = Fitting(v) - 1
<1>1. v \in VolumeView
  BY DEF JournalOk
<1>2. PICK s, n : s = v.segments /\ n = Len(s)
  OBVIOUS
<1>3. /\ s # <<>>
      /\ Fitting(v) \in Nat
      /\ Fitting(v) = cfg.segment - 1 - s[n].count
  BY <1>2, FootprintIs DEF Fitting
<1>4. s \in Seq(Segment) /\ n \in Nat /\ n > 0 /\ n \in 1..n
  BY <1>1, <1>2, <1>3 DEF VolumeView
<1>5. \A i \in 1..n : s[i] \in Segment /\ s[i].last <= v.appended /\ s[i].count \in 1..(cfg.segment - 1)
  BY <1>2, <1>4 DEF JournalOk
<1>6. PICK w : w = AppendOne(v)
  OBVIOUS
<1>7. w = [v EXCEPT !.appended = @ + 1, !.segments[n] = [last |-> v.appended + 1, count |-> @.count + 1]]
  BY <1>2, <1>6 DEF AppendOne
<1>8. PICK x : x = [last |-> v.appended + 1, count |-> s[n].count + 1]
  OBVIOUS
<1>9. v.appended \in Nat /\ cfg.segment \in Nat /\ s[n].count \in 1..(cfg.segment - 1)
  BY <1>1, <1>4, <1>5, SettingIs DEF VolumeView
<1>10. x \in Segment /\ x.last = v.appended + 1 /\ x.count = s[n].count + 1
  BY <1>8, <1>9 DEF Segment
<1>11. PICK t : t = [s EXCEPT ![n] = x]
  OBVIOUS
<1>12. w.segments = t
  BY <1>1, <1>2, <1>7, <1>8, <1>11 DEF VolumeView
<1>13. t \in Seq(Segment) /\ Len(t) = n /\ t # <<>> /\ t[n] = x /\ \A i \in 1..(n - 1) : t[i] = s[i]
  BY <1>2, <1>4, <1>10, <1>11
<1>14. /\ w \in VolumeView /\ w.appended = v.appended + 1 /\ w.ckpt = v.ckpt /\ w.retired = v.retired
       /\ w.punch = v.punch /\ w.durable = v.durable
  <2>1. w = [segments |-> t, appended |-> v.appended + 1, durable |-> v.durable, ckpt |-> v.ckpt,
             retired |-> v.retired, punch |-> v.punch]
    BY <1>1, <1>2, <1>7, <1>8, <1>11 DEF VolumeView
  <2> QED
    BY <1>1, <1>9, <1>13, <2>1 DEF VolumeView
<1>15. TotalBytes(w) = TotalBytes(v) + 1
  BY <1>2, <1>3, <1>4, <1>10, <1>12, <1>13, BytesOfRecord
<1>16. v.ckpt <= v.durable /\ v.durable <= v.appended /\ v.retired <= v.ckpt /\ v.durable \in Nat
  BY <1>1 DEF JournalOk, VolumeView
<1>17. x.count \in 1..(cfg.segment - 1)
  BY <1>3, <1>9, <1>10
<1>18. \A i \in 1..n : t[i].last <= v.appended + 1 /\ t[i].count \in 1..(cfg.segment - 1)
  <2> SUFFICES ASSUME NEW i \in 1..n PROVE t[i].last <= v.appended + 1 /\ t[i].count \in 1..(cfg.segment - 1)
    OBVIOUS
  <2>1. CASE i = n
    BY <1>9, <1>10, <1>13, <1>17, <2>1
  <2>2. CASE i # n
    <3>1. i \in 1..(n - 1)
      BY <1>4, <2>2
    <3>2. t[i] = s[i]
      BY <1>13, <3>1
    <3>3. s[i].last \in Nat
      BY <1>5 DEF Segment
    <3> QED
      BY <1>5, <1>9, <3>2, <3>3
  <2> QED
    BY <2>1, <2>2
<1>19. JournalOk(w, cfg)
  BY <1>9, <1>14, <1>16, <1>10, <1>12, <1>13, <1>18 DEF JournalOk
<1>20. OneMore(v, w)
  BY <1>14, <1>16 DEF OneMore
<1>21. Fitting(w) = cfg.segment - 1 - x.count
  BY <1>12, <1>13, <1>19, FootprintIs
<1>22. Fitting(w) = Fitting(v) - 1
  BY <1>3, <1>9, <1>10, <1>21
<1> QED
  BY <1>6, <1>12, <1>13, <1>15, <1>19, <1>20, <1>22

(* A record for which the segment is full, or the first one of all: the *)
(* segment is sealed and synced and a new one begins. *)
LEMMA AppendOneRolls ==
    ASSUME cfg \in Settings, NEW v, JournalOk(v, cfg), Fitting(v) = 0
    PROVE  /\ JournalOk(AppendOne(v), cfg) /\ OneMore(v, AppendOne(v))
           /\ TotalBytes(AppendOne(v)) = TotalBytes(v) + 2
           /\ AppendOne(v).segments # <<>>
           /\ Fitting(AppendOne(v)) = cfg.segment - 2
<1>1. v \in VolumeView
  BY DEF JournalOk
<1>2. PICK s, n : s = v.segments /\ n = Len(s)
  OBVIOUS
<1>3. s \in Seq(Segment) /\ n \in Nat
  BY <1>1, <1>2 DEF VolumeView
<1>4. \A i \in 1..n : s[i] \in Segment /\ s[i].last <= v.appended /\ s[i].count \in 1..(cfg.segment - 1)
  BY <1>2, <1>3 DEF JournalOk
<1>5. v.appended \in Nat /\ cfg.segment \in Nat /\ cfg.segment >= 2
  BY <1>1, SettingIs DEF VolumeView
<1>6. PICK w : w = AppendOne(v)
  OBVIOUS
<1>7. PICK y : y = [Synced(v) EXCEPT !.segments = Append(@, [last |-> v.appended, count |-> 0])]
  OBVIOUS
<1>8. PICK z : z = Append(s, [last |-> v.appended, count |-> 0])
  OBVIOUS
<1>9. y = [segments |-> z, appended |-> v.appended, durable |-> v.appended, ckpt |-> v.ckpt,
           retired |-> v.retired, punch |-> v.punch]
  BY <1>1, <1>2, <1>7, <1>8 DEF Synced, VolumeView
<1>10. PICK e : e = [last |-> v.appended, count |-> 0]
  OBVIOUS
<1>11. e \in Segment /\ e.count = 0 /\ z = Append(s, e)
  BY <1>5, <1>8, <1>10 DEF Segment
<1>12. z \in Seq(Segment) /\ Len(z) = n + 1 /\ z[n + 1] = e /\ \A i \in 1..n : z[i] = s[i]
  BY <1>2, <1>3, <1>11
<1>13. w = [y EXCEPT !.appended = @ + 1, !.segments[Len(y.segments)] = [last |-> v.appended + 1, count |-> @.count + 1]]
  BY <1>6, <1>7 DEF AppendOne
<1>14. y.segments = z /\ Len(y.segments) = n + 1
  BY <1>9, <1>12
<1>15. PICK x : x = [last |-> v.appended + 1, count |-> 1]
  OBVIOUS
<1>16. x \in Segment /\ x.last = v.appended + 1 /\ x.count = 1
  BY <1>5, <1>15 DEF Segment
<1>17. PICK t : t = [z EXCEPT ![n + 1] = x]
  OBVIOUS
<1>18. t \in Seq(Segment) /\ Len(t) = n + 1 /\ t # <<>> /\ t[n + 1] = x /\ \A i \in 1..n : t[i] = s[i]
  BY <1>3, <1>12, <1>16, <1>17
<1>19. w = [segments |-> t, appended |-> v.appended + 1, durable |-> v.appended, ckpt |-> v.ckpt,
            retired |-> v.retired, punch |-> v.punch]
  <2>1. z[n + 1].count + 1 = 1
    BY <1>11, <1>12
  <2>2. x = [last |-> v.appended + 1, count |-> z[n + 1].count + 1]
    BY <1>15, <2>1
  <2>3. w = [y EXCEPT !.appended = @ + 1, !.segments[n + 1] = [last |-> v.appended + 1, count |-> @.count + 1]]
    BY <1>13, <1>14
  <2> QED
    BY <1>9, <1>17, <2>2, <2>3
<1>20. /\ w \in VolumeView /\ w.segments = t /\ w.appended = v.appended + 1 /\ w.ckpt = v.ckpt /\ w.retired = v.retired
       /\ w.punch = v.punch /\ w.durable = v.appended
  BY <1>1, <1>5, <1>18, <1>19 DEF VolumeView
<1>21. TotalBytes(w) = TotalBytes(v) + 2
  <2>1. TotalBytes(y) = TotalBytes(v) + 1 + e.count /\ TotalBytes(v) \in Nat
    BY <1>2, <1>3, <1>11, <1>14, BytesOfRoll
  <2>2. y.segments \in Seq(Segment) /\ y.segments # <<>> /\ w.segments \in Seq(Segment)
    BY <1>3, <1>12, <1>14, <1>18, <1>20
  <2>3. Len(w.segments) = Len(y.segments)
    BY <1>14, <1>18, <1>20
  <2>4. \A i \in 1..(Len(y.segments) - 1) : w.segments[i] = y.segments[i]
    BY <1>3, <1>12, <1>14, <1>18, <1>20
  <2>5. w.segments[Len(y.segments)].count = y.segments[Len(y.segments)].count + 1
    BY <1>11, <1>12, <1>14, <1>16, <1>18, <1>20
  <2>6. TotalBytes(w) = TotalBytes(y) + 1
    BY <2>2, <2>3, <2>4, <2>5, BytesOfRecord
  <2> QED
    BY <1>11, <2>1, <2>6
<1>22. v.ckpt <= v.durable /\ v.durable <= v.appended /\ v.retired <= v.ckpt /\ v.durable \in Nat /\ v.ckpt \in Nat
  BY <1>1 DEF JournalOk, VolumeView
<1>23. \A i \in 1..(n + 1) : t[i].last <= v.appended + 1 /\ t[i].count \in 1..(cfg.segment - 1)
  <2> SUFFICES ASSUME NEW i \in 1..(n + 1) PROVE t[i].last <= v.appended + 1 /\ t[i].count \in 1..(cfg.segment - 1)
    OBVIOUS
  <2>1. CASE i = n + 1
    BY <1>5, <1>16, <1>18, <2>1
  <2>2. CASE i # n + 1
    <3>1. i \in 1..n
      BY <1>3, <2>2
    <3>2. t[i] = s[i]
      BY <1>18, <3>1
    <3>3. s[i].last \in Nat
      BY <1>4, <3>1 DEF Segment
    <3> QED
      BY <1>4, <1>5, <3>1, <3>2, <3>3
  <2> QED
    BY <2>1, <2>2
<1>24. JournalOk(w, cfg)
  BY <1>5, <1>20, <1>22, <1>16, <1>18, <1>23 DEF JournalOk
<1>25. OneMore(v, w)
  BY <1>5, <1>20, <1>22 DEF OneMore
<1>26. Fitting(w) = cfg.segment - 1 - x.count
  BY <1>18, <1>20, <1>24, FootprintIs
<1>27. Fitting(w) = cfg.segment - 2
  BY <1>5, <1>16, <1>26
<1> QED
  BY <1>6, <1>18, <1>20, <1>21, <1>24, <1>25, <1>27

(* v has appended k records to u, in the bytes that their footprint says, *)
(* and further records need as much as they would have needed. *)
HasAppended(u, v, k) ==
    /\ JournalOk(v, cfg) /\ v.appended - v.durable <= cfg.pending
    /\ v.appended = u.appended + k /\ v.ckpt = u.ckpt /\ v.retired = u.retired /\ v.punch = u.punch
    /\ u.durable <= v.durable
    /\ TotalBytes(v) \in Nat
    /\ \A m \in Nat : TotalBytes(v) + Footprint(v, m) = TotalBytes(u) + Footprint(u, m + k)

(* The bytes of a journal are a natural number. *)
LEMMA BytesAreNat ==
    ASSUME NEW v, NEW c, JournalOk(v, c)
    PROVE  TotalBytes(v) \in Nat
<1>1. v.segments \in Seq(Segment) /\ Len(v.segments) \in Nat
  BY DEF JournalOk, VolumeView
<1>2. PICK b : SizesAre(b, v.segments) /\ TotalBytes(v) = b[Len(v.segments)]
  BY <1>1, TotalBytesIs
<1>3. b \in [0..Len(v.segments) -> Nat] /\ Len(v.segments) \in 0..Len(v.segments)
  BY <1>1, <1>2 DEF SizesAre
<1> QED
  BY <1>2, <1>3

(* An append adds the bytes that the admission counted for it. *)
LEMMA AppendOneIs ==
    ASSUME cfg \in Settings, NEW v, JournalOk(v, cfg)
    PROVE  /\ JournalOk(AppendOne(v), cfg) /\ OneMore(v, AppendOne(v))
           /\ \A m \in Nat : TotalBytes(AppendOne(v)) + Footprint(AppendOne(v), m) = TotalBytes(v) + Footprint(v, m + 1)
<1>1. PICK w : w = AppendOne(v)
  OBVIOUS
<1>2. PICK p : p = cfg.segment - 1
  OBVIOUS
<1>3. p \in Nat \ {0} /\ cfg.segment - 2 = p - 1
  BY <1>2, SettingIs
<1>4. JournalOk(w, cfg) /\ OneMore(v, w)
  BY <1>1, AppendOneFits, AppendOneRolls
<1>5. ASSUME NEW m \in Nat
      PROVE  TotalBytes(w) + Footprint(w, m) = TotalBytes(v) + Footprint(v, m + 1)
  <2>1. PICK f : f = Fitting(v)
    OBVIOUS
  <2>2. f \in Nat /\ Footprint(v, m + 1) = Needed(f, m + 1, p)
    BY <1>2, <2>1, FootprintIs
  <2>3. Footprint(w, m) = Needed(Fitting(w), m, p)
    BY <1>2, <1>4, FootprintIs
  <2>4. TotalBytes(v) \in Nat
    BY BytesAreNat
  <2>5. CASE f # 0
    <3>1. Fitting(w) = f - 1 /\ TotalBytes(w) = TotalBytes(v) + 1
      BY <1>1, <2>1, <2>5, AppendOneFits
    <3>2. Needed(f, m + 1, p) = Needed(f - 1, m, p) + 1 /\ Needed(f - 1, m, p) \in Nat
      BY <1>3, <2>2, <2>5, NeededFits
    <3> QED
      BY <2>2, <2>3, <2>4, <3>1, <3>2
  <2>6. CASE f = 0
    <3>1. Fitting(w) = p - 1 /\ TotalBytes(w) = TotalBytes(v) + 2
      BY <1>1, <1>3, <2>1, <2>6, AppendOneRolls
    <3>2. Needed(0, m + 1, p) = Needed(p - 1, m, p) + 2 /\ Needed(p - 1, m, p) \in Nat
      BY <1>3, NeededRolls
    <3> QED
      BY <2>2, <2>3, <2>4, <2>6, <3>1, <3>2
  <2> QED
    BY <2>5, <2>6
<1> QED
  BY <1>1, <1>4, <1>5

(* The same for one of several records, with the sync that may precede it. *)
LEMMA AppendPendingIs ==
    ASSUME cfg \in Settings, NEW u, u \in VolumeView, NEW v, NEW k \in Nat, HasAppended(u, v, k)
    PROVE  HasAppended(u, AppendPending(v), k + 1)
<1>1. PICK x : x = IF v.appended - v.durable + 1 > cfg.pending THEN Synced(v) ELSE v
  OBVIOUS
<1>2. PICK w : w = AppendOne(x)
  OBVIOUS
<1>3. AppendPending(v) = w
  BY <1>1, <1>2 DEF AppendPending
<1>4. JournalOk(v, cfg)
  BY DEF HasAppended
<1>5. /\ JournalOk(x, cfg) /\ TotalBytes(x) = TotalBytes(v) /\ x.segments = v.segments
      /\ x.appended = v.appended /\ x.ckpt = v.ckpt /\ x.retired = v.retired /\ x.punch = v.punch
      /\ x.durable = v.durable \/ x.durable = v.appended
  BY <1>1, <1>4, SyncedIs
<1>6. v \in VolumeView /\ v.durable <= v.appended
  BY <1>4 DEF JournalOk
<1>7. v.appended \in Nat /\ v.durable \in Nat /\ u.appended \in Nat /\ u.durable \in Nat
  BY <1>6 DEF VolumeView
<1>8. v.durable <= x.durable /\ (x.appended - x.durable) + 1 <= cfg.pending /\ x.durable \in Nat
  <2>1. cfg.pending \in Nat /\ cfg.pending > 0
    BY SettingIs
  <2>2. CASE v.appended - v.durable + 1 > cfg.pending
    BY <1>1, <1>4, <2>2, SyncedIs, <1>6, <1>7, <2>1
  <2>3. CASE ~(v.appended - v.durable + 1 > cfg.pending)
    BY <1>1, <2>3, <1>7, <2>1
  <2> QED
    BY <2>2, <2>3
<1>9. JournalOk(w, cfg) /\ OneMore(x, w)
  BY <1>2, <1>5, AppendOneIs
<1>10. \A m \in Nat : TotalBytes(w) + Footprint(w, m) = TotalBytes(x) + Footprint(x, m + 1)
  BY <1>2, <1>5, AppendOneIs
<1>11. \A m \in Nat : Footprint(x, m) = Footprint(v, m)
  BY <1>5 DEF Footprint, Fitting
<1>12. \A m \in Nat : TotalBytes(w) + Footprint(w, m) = TotalBytes(u) + Footprint(u, m + (k + 1))
  <2> SUFFICES ASSUME NEW m \in Nat
               PROVE  TotalBytes(w) + Footprint(w, m) = TotalBytes(u) + Footprint(u, m + (k + 1))
    OBVIOUS
  <2>1. m + 1 \in Nat /\ (m + 1) + k = m + (k + 1)
    OBVIOUS
  <2>2. TotalBytes(v) + Footprint(v, m + 1) = TotalBytes(u) + Footprint(u, (m + 1) + k)
    BY <2>1 DEF HasAppended
  <2>3. TotalBytes(w) + Footprint(w, m) = TotalBytes(x) + Footprint(x, m + 1)
    BY <1>10
  <2>4. TotalBytes(x) = TotalBytes(v) /\ Footprint(x, m + 1) = Footprint(v, m + 1)
    BY <1>5, <1>11, <2>1
  <2> QED
    BY <2>1, <2>2, <2>3, <2>4
<1>13. TotalBytes(w) \in Nat
  BY <1>9, BytesAreNat
<1>14. w \in VolumeView /\ w.durable \in Nat
  BY <1>9 DEF JournalOk, VolumeView
<1>15. /\ w.appended = v.appended + 1 /\ w.ckpt = v.ckpt /\ w.retired = v.retired /\ w.punch = v.punch
       /\ x.durable <= w.durable /\ w.durable <= v.appended
  BY <1>5, <1>9 DEF OneMore
<1>16. w.appended - w.durable <= cfg.pending /\ v.durable <= w.durable
  BY <1>5, <1>7, <1>8, <1>14, <1>15, SettingIs
<1>17. /\ v.appended = u.appended + k /\ v.ckpt = u.ckpt /\ v.retired = u.retired /\ v.punch = u.punch
       /\ u.durable <= v.durable
  BY DEF HasAppended
<1>18. w.appended = u.appended + (k + 1) /\ u.durable <= w.durable
  BY <1>7, <1>14, <1>15, <1>16, <1>17
<1>19. HasAppended(u, w, k + 1)
  BY <1>9, <1>12, <1>13, <1>15, <1>16, <1>17, <1>18 DEF HasAppended
<1> QED
  BY <1>3, <1>19

(* The journals in order. *)
Journals == {v \in VolumeView : JournalOk(v, cfg) /\ v.appended - v.durable <= cfg.pending}

(* All records of a request are appended, one after the other. *)
LEMMA AppendAllIs ==
    ASSUME cfg \in Settings, NEW u, JournalOk(u, cfg), u.appended - u.durable <= cfg.pending, NEW n \in Nat
    PROVE  HasAppended(u, AppendAll(u, n), n) /\ (n = 0 => AppendAll(u, n) = u)
<1> DEFINE Eq(a) == a = [i \in 0..n |-> IF i = 0 THEN u ELSE AppendPending(a[i - 1])]
<1> DEFINE F == [i \in 1..n |-> [v \in Journals |-> AppendPending(v)]]
<1>0. u \in VolumeView /\ u \in Journals
  BY DEF JournalOk, Journals
<1>1. HasAppended(u, u, 0)
  BY <1>0, BytesAreNat DEF VolumeView, HasAppended
<1>2. ASSUME NEW v \in Journals
      PROVE  AppendPending(v) \in Journals
  <2>1. JournalOk(v, cfg) /\ v.appended - v.durable <= cfg.pending /\ v \in VolumeView
    BY DEF Journals
  <2>2. HasAppended(v, v, 0)
    BY <2>1, BytesAreNat DEF VolumeView, HasAppended
  <2>3. HasAppended(v, AppendPending(v), 0 + 1)
    BY <2>1, <2>2, AppendPendingIs
  <2> QED
    BY <2>3 DEF HasAppended, Journals, JournalOk
<1>3. AppendAll(u, n) = (CHOOSE a : Eq(a))[n]
  BY DEF AppendAll
<1>4. F \in [1..n -> [Journals -> Journals]]
  BY <1>2
<1>5. PICK g : Iterates(g, n, Journals, u, F)
  <2> HIDE DEF F
  <2> QED
    BY <1>0, <1>4, Iterated
<1>6. g \in [0..n -> Journals] /\ g[0] = u /\ \A i \in 1..n : g[i] = F[i][g[i - 1]]
  <2> HIDE DEF F
  <2> QED
    BY <1>5 DEF Iterates
<1>7. \A i \in 1..n : g[i] = AppendPending(g[i - 1])
  <2> SUFFICES ASSUME NEW i \in 1..n PROVE g[i] = AppendPending(g[i - 1])
    OBVIOUS
  <2>1. i - 1 \in 0..n
    OBVIOUS
  <2>2. g[i - 1] \in Journals
    BY <1>6, <2>1
  <2> QED
    BY <1>6, <2>2
<1>8. Eq(g)
  BY <1>6, <1>7
<1>9. PICK a : a = (CHOOSE h : Eq(h)) /\ Eq(a)
  <2> HIDE DEF Eq
  <2> QED
    BY <1>8
<1>10. a[0] = u /\ \A i \in 1..n : a[i] = AppendPending(a[i - 1])
  <2>1. a = [i \in 0..n |-> IF i = 0 THEN u ELSE AppendPending(a[i - 1])]
    BY <1>9
  <2>2. \A i \in 0..n : a[i] = IF i = 0 THEN u ELSE AppendPending(a[i - 1])
    BY <2>1
  <2> QED
    BY <2>2
<1>11. HasAppended(u, a[n], n)
  <2> DEFINE S == {i \in 0..n : HasAppended(u, a[i], i)}
  <2>1. 0 \in S
    BY <1>1, <1>10
  <2>2. ASSUME NEW i \in 0..(n - 1), i \in S PROVE i + 1 \in S
    BY <2>2, <1>0, AppendPendingIs, <1>10
  <2> HIDE DEF S
  <2>3. 0..n \subseteq S
    BY <2>1, <2>2, UpTo
  <2> QED
    BY <2>3 DEF S
<1>12. AppendAll(u, n) = a[n]
  BY <1>3, <1>9
<1> QED
  BY <1>10, <1>11, <1>12

(* What was admitted stays within the limits, all of it or a part. *)
LEMMA AppendedWithin ==
    ASSUME cfg \in Settings, NEW v, JournalOk(v, cfg), WithinLimits(v, cfg), NEW n \in Nat, NEW k \in 0..n,
           n > 0 => /\ OverlayLen(v) + n <= cfg.overlay
                    /\ TotalBytes(v) + Footprint(v, n) <= cfg.journal
    PROVE  /\ HasAppended(v, AppendAll(v, k), k) /\ WithinLimits(AppendAll(v, k), cfg)
           /\ Swept(v) => Swept(AppendAll(v, k))
<1>1. PICK w : w = AppendAll(v, k)
  OBVIOUS
<1>2. v.appended - v.durable <= cfg.pending /\ TotalBytes(v) <= cfg.journal /\ v.appended - v.retired <= cfg.overlay
  BY DEF WithinLimits
<1>3. HasAppended(v, w, k) /\ (k = 0 => w = v)
  BY <1>1, <1>2, AppendAllIs
<1>4. CASE k = 0
  BY <1>1, <1>3, <1>4
<1>5. CASE k # 0
  <2>1. k \in Nat /\ n > 0 /\ k <= n /\ k > 0
    BY <1>5
  <2>2. JournalOk(w, cfg) /\ v \in VolumeView
    BY <1>3 DEF HasAppended, JournalOk
  <2>3. v.appended \in Nat /\ v.retired \in Nat /\ v.ckpt \in Nat /\ v.ckpt <= v.appended
    BY <2>2 DEF VolumeView, JournalOk
  <2>4. PICK p : p = cfg.segment - 1
    OBVIOUS
  <2>5. p \in Nat \ {0} /\ cfg.journal \in Nat /\ cfg.overlay \in Nat
    BY <2>4, SettingIs
  <2>6. Fitting(v) \in Nat /\ Footprint(v, k) = Needed(Fitting(v), k, p) /\ Footprint(v, n) = Needed(Fitting(v), n, p)
    BY <2>1, <2>4, FootprintIs
  <2>7. Fitting(w) \in Nat /\ Footprint(w, 0) = Needed(Fitting(w), 0, p)
    BY <2>2, <2>4, FootprintIs
  <2>8. Footprint(w, 0) = 0
    BY <2>5, <2>7, NeededNothing
  <2>9. TotalBytes(w) + Footprint(w, 0) = TotalBytes(v) + Footprint(v, 0 + k) /\ TotalBytes(w) \in Nat
    BY <1>3 DEF HasAppended
  <2>10. TotalBytes(w) = TotalBytes(v) + Footprint(v, k)
    BY <2>1, <2>8, <2>9
  <2>11. Footprint(v, k) <= Footprint(v, n)
    BY <2>1, <2>5, <2>6, NeededMonotone
  <2>12. Footprint(v, k) \in Nat /\ Footprint(v, n) \in Nat
    BY <2>1, <2>5, <2>6, NeededAtMost
  <2>13. TotalBytes(v) \in Nat
    BY BytesAreNat
  <2>14. TotalBytes(w) <= cfg.journal
    BY <2>1, <2>5, <2>10, <2>11, <2>12, <2>13
  <2>15. w.appended = v.appended + k /\ w.retired = v.retired /\ w.ckpt = v.ckpt /\ w.appended - w.durable <= cfg.pending
    BY <1>3 DEF HasAppended
  <2>16. w.appended - w.retired <= cfg.overlay
    BY <2>1, <2>3, <2>5, <2>15 DEF OverlayLen
  <2>17. Swept(w)
    BY <2>1, <2>3, <2>15 DEF Swept
  <2> QED
    BY <1>1, <1>3, <2>14, <2>15, <2>16, <2>17 DEF WithinLimits
<1> QED
  BY <1>4, <1>5

(* What a journal with another checkpoint, punch flag or retired horizon *)
(* keeps. *)
LEMMA SameSegments ==
    ASSUME NEW v, NEW c, JournalOk(v, c), NEW w, w \in VolumeView, w.segments = v.segments,
           w.appended = v.appended, w.durable = v.durable, w.ckpt <= v.durable, w.retired <= w.ckpt
    PROVE  JournalOk(w, c) /\ TotalBytes(w) = TotalBytes(v)
  BY DEF TotalBytes, JournalOk

(* The covered segments are sealed, and all sealed segments are covered by *)
(* a checkpoint of every record. *)
LEMMA CoveredIs ==
    ASSUME NEW v, NEW c, JournalOk(v, c)
    PROVE  /\ CoveredCount(v) \in Nat
           /\ v.segments = <<>> => CoveredCount(v) = 0
           /\ v.segments # <<>> => CoveredCount(v) < Len(v.segments)
           /\ v.ckpt >= v.appended /\ v.segments # <<>> => CoveredCount(v) = Len(v.segments) - 1
<1>1. PICK s, n : s = v.segments /\ n = Len(s)
  OBVIOUS
<1>2. v \in VolumeView /\ s \in Seq(Segment) /\ n \in Nat
  BY <1>1 DEF JournalOk, VolumeView
<1>3. PICK T : T = {i \in 1..n : i < n /\ s[i].last <= v.ckpt}
  OBVIOUS
<1>4. CoveredCount(v) = Cardinality(T)
  BY <1>1, <1>3 DEF CoveredCount, IsCovered
<1>5. CASE n = 0
  BY <1>3, <1>5, FS_EmptySet, <1>1, <1>2, EmptySeq, <1>4
<1>6. CASE n # 0
  <2>1. 1 \in Int /\ n - 1 \in Int /\ T \subseteq 1..(n - 1)
    BY <1>2, <1>3
  <2>2. IsFiniteSet(1..(n - 1)) /\ Cardinality(1..(n - 1)) = n - 1
    BY <1>2, <1>6, <2>1, FS_Interval
  <2>3. IsFiniteSet(T) /\ Cardinality(T) <= n - 1
    BY <2>1, <2>2, FS_Subset
  <2>4. Cardinality(T) \in Nat
    BY <2>3, FS_CardinalityType
  <2>5. ASSUME v.ckpt >= v.appended PROVE Cardinality(T) = n - 1
    <3>1. \A i \in 1..(n - 1) : s[i].last <= v.ckpt
      <4> SUFFICES ASSUME NEW i \in 1..(n - 1) PROVE s[i].last <= v.ckpt
        OBVIOUS
      <4>1. i \in 1..n /\ s[i] \in Segment
        BY <1>1, <1>2
      <4>2. s[i].last <= v.appended /\ s[i].last \in Nat
        BY <1>1, <4>1 DEF JournalOk, Segment
      <4> QED
        BY <1>2, <2>5, <4>2 DEF VolumeView
    <3>2. T = 1..(n - 1)
      BY <1>2, <1>3, <3>1
    <3> QED
      BY <2>2, <3>2
  <2>6. s # <<>>
    BY <1>1, <1>6
  <2> QED
    BY <1>1, <1>2, <1>4, <2>3, <2>4, <2>5, <2>6
<1> QED
  BY <1>5, <1>6

(* Deleting covered segments keeps the journal in order and adds nothing. *)
LEMMA DropIs ==
    ASSUME NEW v, NEW c, JournalOk(v, c), NEW k \in 0..CoveredCount(v)
    PROVE  /\ JournalOk(Drop(v, k), c) /\ TotalBytes(Drop(v, k)) <= TotalBytes(v)
           /\ Len(Drop(v, k).segments) = Len(v.segments) - k
           /\ Drop(v, k).appended = v.appended /\ Drop(v, k).durable = v.durable /\ Drop(v, k).ckpt = v.ckpt
           /\ Drop(v, k).retired = v.retired /\ Drop(v, k).punch = v.punch
<1>1. PICK s, n : s = v.segments /\ n = Len(s)
  OBVIOUS
<1>2. v \in VolumeView /\ s \in Seq(Segment) /\ n \in Nat
  BY <1>1 DEF JournalOk, VolumeView
<1>3. /\ CoveredCount(v) \in Nat
      /\ s = <<>> => CoveredCount(v) = 0
      /\ s # <<>> => CoveredCount(v) < n
  BY <1>1, CoveredIs
<1>4. k \in Nat /\ k <= n /\ (s # <<>> => k < n)
  BY <1>1, <1>2, <1>3
<1>5. PICK w, t : w = Drop(v, k) /\ t = SubSeq(s, k + 1, n)
  OBVIOUS
<1>6. /\ w.segments = t /\ w.appended = v.appended /\ w.durable = v.durable /\ w.ckpt = v.ckpt
      /\ w.retired = v.retired /\ w.punch = v.punch
      /\ w = [segments |-> t, appended |-> v.appended, durable |-> v.durable, ckpt |-> v.ckpt,
              retired |-> v.retired, punch |-> v.punch]
  BY <1>1, <1>2, <1>5 DEF Drop, VolumeView
<1>7. t \in Seq(Segment) /\ Len(t) = n - k /\ \A i \in 1..(n - k) : t[i] = s[k + i]
  BY <1>1, <1>2, <1>4, <1>5
<1>8. w \in VolumeView
  BY <1>2, <1>6, <1>7 DEF VolumeView
<1>9. TotalBytes(w) <= TotalBytes(v)
  <2>1. k \in 0..Len(v.segments) /\ v.segments \in Seq(Segment)
    BY <1>1, <1>2, <1>4
  <2>2. w.segments = SubSeq(v.segments, k + 1, Len(v.segments))
    BY <1>1, <1>5, <1>6
  <2> QED
    BY <2>1, <2>2, BytesOfDrop
<1>10. \A i \in 1..Len(t) : t[i].last <= v.appended /\ t[i].count \in 1..(c.segment - 1)
  <2> SUFFICES ASSUME NEW i \in 1..Len(t) PROVE t[i].last <= v.appended /\ t[i].count \in 1..(c.segment - 1)
    OBVIOUS
  <2>1. t[i] = s[k + i] /\ k + i \in 1..n
    BY <1>2, <1>4, <1>7
  <2> QED
    BY <1>1, <2>1 DEF JournalOk
<1>11. v.appended = IF t = <<>> THEN 0 ELSE t[Len(t)].last
  BY <1>1, <1>2, <1>4, <1>7 DEF JournalOk
<1>12. JournalOk(w, c)
  BY <1>6, <1>8, <1>10, <1>11 DEF JournalOk
<1> QED
  BY <1>1, <1>5, <1>6, <1>7, <1>9, <1>12

(* Room for every request in a journal of the active segment alone. *)
LEMMA RoomWhenSwept ==
    ASSUME cfg \in Settings, NEW v, JournalOk(v, cfg), Swept(v), v.ckpt >= v.appended,
           NEW n \in Nat, n <= cfg.largest
    PROVE  OverlayLen(v) + n <= cfg.overlay /\ TotalBytes(v) + Footprint(v, n) <= cfg.journal
<1>1. v \in VolumeView /\ Len(v.segments) <= 1 /\ v.retired = v.ckpt
  BY DEF JournalOk, Swept
<1>2. v.segments \in Seq(Segment) /\ v.appended \in Nat /\ v.retired \in Nat /\ v.retired <= v.appended /\ v.appended <= v.retired
  BY <1>1 DEF VolumeView, JournalOk
<1>3. cfg.largest \in Nat /\ cfg.overlay \in Nat /\ cfg.largest <= cfg.overlay
  BY SettingIs
<1>4. OverlayLen(v) + n <= cfg.overlay
  BY <1>2, <1>3 DEF OverlayLen
<1>5. PICK p : p = cfg.segment - 1
  OBVIOUS
<1>a. cfg.segment \in Nat /\ cfg.segment >= 2 /\ cfg.journal \in Nat
  BY SettingIs
<1>6. p \in Nat \ {0} /\ cfg.segment = p + 1 /\ cfg.journal \in Nat
  BY <1>5, <1>a
<1>7. TotalBytes(v) <= cfg.segment /\ TotalBytes(v) \in Nat
  BY <1>1, <1>2, BytesOfOne, <1>5, <1>6 DEF JournalOk
<1>8. Footprint(v, n) = Needed(Fitting(v), n, p) /\ Fitting(v) \in Nat
  BY <1>5, FootprintIs
<1>9. Needed(Fitting(v), n, p) <= cfg.largest + (cfg.largest + p - 1) \div p /\ Needed(Fitting(v), n, p) \in Nat
  BY <1>3, <1>6, <1>8, NeededAtMost
<1>10. cfg.largest + cfg.segment - 2 = cfg.largest + p - 1
  BY <1>3, <1>6
<1>11. cfg.journal >= cfg.segment + cfg.largest + (cfg.largest + p - 1) \div p
  BY <1>5, <1>10, SettingIs
<1>12. (cfg.largest + p - 1) \div p \in Nat
  <2>1. cfg.largest + p - 1 \in Nat
    BY <1>3, <1>6
  <2> QED
    BY <1>6, <2>1, DivStep
<1>13. PICK q : q = (cfg.largest + p - 1) \div p
  OBVIOUS
<1> QED
  BY <1>3, <1>4, <1>6, <1>7, <1>8, <1>9, <1>11, <1>12, <1>13

(* What finish_checkpoint makes of the journal when it stores the horizon *)
(* h and all of its steps succeed. *)
StoredAt(v, h) == [v EXCEPT !.ckpt = Max({@, h})]

Cleaned(v, h) == [Deleted(StoredAt(v, h)) EXCEPT !.retired = StoredAt(v, h).ckpt]

(* Storing a durable horizon. *)
LEMMA StoredAtIs ==
    ASSUME NEW v, NEW c, JournalOk(v, c), NEW h \in Nat, h <= v.durable
    PROVE  /\ JournalOk(StoredAt(v, h), c) /\ TotalBytes(StoredAt(v, h)) = TotalBytes(v)
           /\ StoredAt(v, h).segments = v.segments /\ StoredAt(v, h).appended = v.appended
           /\ StoredAt(v, h).durable = v.durable /\ StoredAt(v, h).retired = v.retired
           /\ StoredAt(v, h).ckpt \in Nat /\ v.ckpt <= StoredAt(v, h).ckpt
<1>1. v \in VolumeView /\ v.ckpt <= v.durable /\ v.retired <= v.ckpt
  BY DEF JournalOk
<1>2. v.ckpt \in Nat /\ v.retired \in Nat /\ v.durable \in Nat
  BY <1>1 DEF VolumeView
<1>3. PICK m : m = Max({v.ckpt, h})
  OBVIOUS
<1>4. m = IF v.ckpt >= h THEN v.ckpt ELSE h
  BY <1>2, <1>3, OfTwo
<1>5. m \in Nat /\ v.ckpt <= m /\ m <= v.durable
  BY <1>1, <1>2, <1>4
<1>6. PICK w : w = StoredAt(v, h)
  OBVIOUS
<1>7. /\ w \in VolumeView /\ w.segments = v.segments /\ w.appended = v.appended /\ w.durable = v.durable
      /\ w.retired = v.retired /\ w.ckpt = m
  BY <1>1, <1>3, <1>5, <1>6 DEF StoredAt, VolumeView
<1>8. w.ckpt <= v.durable /\ w.retired <= w.ckpt
  BY <1>1, <1>2, <1>5, <1>7
<1>9. JournalOk(w, c) /\ TotalBytes(w) = TotalBytes(v)
  BY <1>7, <1>8, SameSegments
<1> QED
  BY <1>5, <1>6, <1>7, <1>9

(* What every outcome of a checkpoint keeps. *)
LEMMA StillWithin ==
    ASSUME NEW v, NEW w, NEW c \in Settings, JournalOk(v, c), JournalOk(w, c), WithinLimits(v, c),
           TotalBytes(w) <= TotalBytes(v), w.appended = v.appended, w.durable = v.durable, v.retired <= w.retired
    PROVE  WithinLimits(w, c)
<1>1. TotalBytes(v) \in Nat /\ TotalBytes(w) \in Nat
  BY BytesAreNat
<1>2. v \in VolumeView /\ w \in VolumeView
  BY DEF JournalOk
<1>3. v.appended \in Nat /\ v.retired \in Nat /\ w.retired \in Nat
  BY <1>2 DEF VolumeView
<1>4. c.journal \in Nat /\ c.overlay \in Nat
  BY SettingIs
<1> QED
  BY <1>1, <1>3, <1>4 DEF WithinLimits

(* A checkpoint that succeeds leaves the journal within its limits, and *)
(* swept. *)
LEMMA CleanedIs ==
    ASSUME NEW v, NEW c \in Settings, JournalOk(v, c), WithinLimits(v, c), NEW h \in Nat, h <= v.durable,
           NEW w, w \in VolumeView, w.segments = Cleaned(v, h).segments, w.appended = Cleaned(v, h).appended,
           w.durable = Cleaned(v, h).durable, w.ckpt = Cleaned(v, h).ckpt, w.retired = Cleaned(v, h).retired
    PROVE  JournalOk(w, c) /\ WithinLimits(w, c) /\ Swept(w) /\ w.durable = v.durable
<1>1. PICK x : x = StoredAt(v, h)
  OBVIOUS
<1>2. /\ JournalOk(x, c) /\ TotalBytes(x) = TotalBytes(v) /\ x.segments = v.segments /\ x.appended = v.appended
      /\ x.durable = v.durable /\ x.retired = v.retired /\ x.ckpt \in Nat /\ v.ckpt <= x.ckpt
  BY <1>1, StoredAtIs
<1>3. PICK k, y : k = CoveredCount(x) /\ y = Drop(x, k)
  OBVIOUS
<1>4. k \in 0..CoveredCount(x)
  BY <1>2, <1>3, CoveredIs
<1>5. /\ JournalOk(y, c) /\ TotalBytes(y) <= TotalBytes(x) /\ Len(y.segments) = Len(x.segments) - k
      /\ y.appended = x.appended /\ y.durable = x.durable /\ y.ckpt = x.ckpt /\ y.retired = x.retired
  BY <1>2, <1>3, <1>4, DropIs
<1>6. y \in VolumeView /\ x \in VolumeView /\ v \in VolumeView
  BY <1>2, <1>5 DEF JournalOk
<1>7. Cleaned(v, h) = [y EXCEPT !.retired = x.ckpt]
  BY <1>1, <1>3 DEF Cleaned, Deleted
<1>8. /\ w.segments = y.segments /\ w.appended = y.appended /\ w.durable = y.durable
      /\ w.ckpt = x.ckpt /\ w.retired = x.ckpt
  BY <1>5, <1>6, <1>7 DEF VolumeView
<1>9. x.ckpt <= x.durable /\ x.retired <= x.ckpt /\ x.durable <= x.appended
  BY <1>2 DEF JournalOk
<1>10. w.ckpt <= y.durable /\ w.retired <= w.ckpt
  BY <1>2, <1>5, <1>8, <1>9
<1>11. JournalOk(w, c) /\ TotalBytes(w) = TotalBytes(y)
  BY <1>5, <1>8, <1>10, SameSegments
<1>12. v.retired <= w.retired /\ w.appended = v.appended /\ w.durable = v.durable
  BY <1>2, <1>5, <1>8, <1>9
<1>13. TotalBytes(w) <= TotalBytes(v)
  BY <1>2, <1>5, <1>11
<1>14. WithinLimits(w, c)
  BY <1>11, <1>12, <1>13, StillWithin
<1>15. Swept(w)
  <2>1. SUFFICES ASSUME x.ckpt >= x.appended PROVE Len(y.segments) <= 1
    BY <1>2, <1>5, <1>8, <1>12 DEF Swept
  <2>2. x.segments \in Seq(Segment) /\ Len(x.segments) \in Nat
    BY <1>6 DEF VolumeView
  <2>3. CASE x.segments = <<>>
    BY <1>2, <1>3, <1>5, <2>2, <2>3, CoveredIs
  <2>4. CASE x.segments # <<>>
    BY <1>2, <1>3, <2>1, <2>4, CoveredIs, <1>5, <2>2
  <2> QED
    BY <2>3, <2>4
<1> QED
  BY <1>11, <1>12, <1>14, <1>15

(* A checkpoint that fails may have stored its horizon, retired entries or *)
(* deleted some of the covered segments. *)
LEMMA PartlyCleaned ==
    ASSUME NEW v, NEW c \in Settings, JournalOk(v, c), WithinLimits(v, c), NEW h \in Nat, h <= v.durable,
           NEW x, x = StoredAt(v, h) \/ x = [v EXCEPT !.retired = v.ckpt], NEW k \in 0..CoveredCount(x)
    PROVE  JournalOk(Drop(x, k), c) /\ WithinLimits(Drop(x, k), c) /\ Drop(x, k).durable = v.durable
<1>1. v \in VolumeView /\ v.ckpt <= v.durable /\ v.retired <= v.ckpt
  BY DEF JournalOk
<1>2. /\ JournalOk(x, c) /\ TotalBytes(x) = TotalBytes(v) /\ x.appended = v.appended /\ x.durable = v.durable
      /\ v.retired <= x.retired
  BY <1>1, StoredAtIs, SameSegments DEF VolumeView
<1>3. PICK y : y = Drop(x, k)
  OBVIOUS
<1>4. /\ JournalOk(y, c) /\ TotalBytes(y) <= TotalBytes(x)
      /\ y.appended = x.appended /\ y.durable = x.durable /\ y.retired = x.retired
  BY <1>2, <1>3, DropIs
<1>5. TotalBytes(y) <= TotalBytes(v) /\ y.appended = v.appended /\ y.durable = v.durable /\ v.retired <= y.retired
  BY <1>2, <1>4
<1>6. WithinLimits(y, c)
  BY <1>4, <1>5, StillWithin
<1> QED
  BY <1>3, <1>4, <1>5, <1>6

(* The initial states. *)
LEMMA ReclaimInitOk == ReclaimInit => ReclaimInv
<1> SUFFICES ASSUME ReclaimInit PROVE ReclaimInv
  OBVIOUS
<1>1. cfg \in Settings
  BY DEF ReclaimInit
<1>2. /\ cfg.records \in Nat /\ cfg.faults \in Nat /\ cfg.space \in Nat /\ cfg.journal \in Nat
      /\ cfg.overlay \in Nat /\ cfg.pending \in Nat
  BY <1>1, SettingIs
<1>3. vol \in VolumeView /\ vol.segments = <<>> /\ vol.appended = 0 /\ vol.durable = 0 /\ vol.ckpt = 0 /\ vol.retired = 0
  BY DEF ReclaimInit, VolumeView
<1>4. JournalOk(vol, cfg)
  BY <1>3 DEF JournalOk
<1>5. TotalBytes(vol) = 0
  <2>1. vol.segments \in Seq(Segment) /\ Len(vol.segments) <= 1
    BY <1>3
  <2> QED
    BY <1>3, <2>1, BytesOfOne
<1>6. WithinLimits(vol, cfg)
  BY <1>2, <1>3, <1>5 DEF WithinLimits
<1>7. wr \in [Writer -> Publication] /\ \A w \in Writer : wr[w].stage = "idle"
  BY DEF ReclaimInit, Publication, NoWrite
<1>8. \A w \in Writer : AdmissionOk(wr[w], cfg)
  BY <1>7 DEF AdmissionOk
<1>9. ck \in Checkpoints /\ ck.stage = "none" /\ wk \in Passes /\ wk.stage = "sleep"
  BY DEF ReclaimInit, Checkpoints, NoCheckpoint, Asleep, Passes
<1>10. GateOk(ck, vol, wr, wk)
  BY <1>9 DEF GateOk
<1>11. spent \in Spending /\ spent.records = 0 /\ spent.faults = 0 /\ spent.space = 0
  BY DEF ReclaimInit, Spending
<1>12. FaultFree(wr, ck, clean)
  BY <1>7, <1>9 DEF FaultFree
<1>13. clean = FALSE /\ early = FALSE /\ returned = FALSE /\ free \in FreeLevel
  BY DEF ReclaimInit, FreeLevel
<1>14. spent.records <= cfg.records /\ spent.faults <= cfg.faults /\ spent.space <= cfg.space
  BY <1>2, <1>11
<1> QED
  BY <1>1, <1>4, <1>6, <1>7, <1>8, <1>9, <1>10, <1>11, <1>12, <1>13, <1>14 DEF ReclaimInv

(* A fault is counted. *)
LEMMA FaultIs ==
    ASSUME cfg \in Settings, spent \in Spending, Fault
    PROVE  /\ spent' \in Spending /\ spent'.records = spent.records /\ spent'.space = spent.space
           /\ spent'.faults > 0 /\ spent'.faults <= cfg.faults
  BY SettingIs DEF Fault, Spending

(* Steps of the worker that do not touch the journal, time, space and the *)
(* shutdown. *)
WorkerMoves == Wake \/ Scan \/ Decide \/ Enter \/ After

(* They move the worker from one stage of a pass to another, never from *)
(* "wait" or "done". *)
LEMMA WorkerMovesIs ==
    ASSUME ReclaimInv, WorkerMoves
    PROVE  /\ wk' \in Passes /\ wk.stage \notin {"wait", "done"}
           /\ UNCHANGED <<cfg, vol, wr, ck, free, early, returned, clean, spent>>
<1>1. wk \in Passes
  BY DEF ReclaimInv
<1>2. CASE Wake
  BY <1>2 DEF Wake, Passes
<1>3. CASE Scan
  BY <1>3 DEF OverlayHigh, ReclaimInv, JournalOk, VolumeView, Scan, Passes, Asleep
<1>4. CASE Decide
  BY <1>4 DEF Decide, Passes, Asleep
<1>5. CASE Enter
  BY <1>1, <1>5 DEF Enter, Passes, Asleep
<1>6. CASE After
  BY <1>6 DEF After, Passes, Asleep
<1> QED
  BY <1>2, <1>3, <1>4, <1>5, <1>6 DEF WorkerMoves

(* So they keep the invariant. *)
LEMMA WorkerMovesOk ==
    ASSUME ReclaimInv, WorkerMoves
    PROVE  ReclaimInv'
  BY WorkerMovesIs DEF ReclaimInv, GateOk

(* Time, space, the shutdown and the gate of a checkpoint. *)
LEMMA ClockOk ==
    ASSUME ReclaimInv, Tick \/ FreeSpace \/ Stop \/ Stopped
    PROVE  ReclaimInv'
  BY SettingIs DEF Tick, Stop, ReclaimInv, FreeSpace, Spending, Stopped

(* The gate is free for one caller at a time. *)
LEMMA EntersOk ==
    ASSUME ReclaimInv, WorkerEnters \/ AdminEnters \/ (\E w \in Writer : WriterEnters(w))
    PROVE  ReclaimInv'
  BY ReclaimAssumption DEF Worker, Admin, ReclaimInv, WorkerEnters, Checkpoints, GateOwner, Passes, GateOk,
     FaultFree, AdminEnters, WriterEnters, Publication, NoWrite, AdmissionOk

(* The two steps of a checkpoint before it is published. *)
LEMMA PrepareExecuteOk ==
    ASSUME ReclaimInv, Prepare \/ Execute
    PROVE  ReclaimInv'
  BY FaultIs DEF ReclaimInv, JournalOk, VolumeView, Prepare, Checkpoints, NoCheckpoint, GateOk, FaultFree,
     Execute, Spending

(* A journal that has been synced is still in order, and as well swept. *)
LEMMA SyncedKeeps ==
    ASSUME NEW v, NEW c \in Settings, JournalOk(v, c), WithinLimits(v, c)
    PROVE  /\ JournalOk(Synced(v), c) /\ WithinLimits(Synced(v), c) /\ (Swept(v) => Swept(Synced(v)))
           /\ v.durable <= Synced(v).durable /\ Synced(v).durable \in Nat /\ v.durable \in Nat
<1>1. /\ JournalOk(Synced(v), c) /\ TotalBytes(Synced(v)) = TotalBytes(v)
      /\ Synced(v).segments = v.segments /\ Synced(v).appended = v.appended
      /\ Synced(v).durable = v.appended /\ Synced(v).ckpt = v.ckpt /\ Synced(v).retired = v.retired
  BY SyncedIs
<1>2. v \in VolumeView /\ v.durable <= v.appended
  BY DEF JournalOk
<1>3. v.appended \in Nat /\ v.durable \in Nat /\ c.pending \in Nat
  BY <1>2, SettingIs DEF VolumeView
<1>4. WithinLimits(Synced(v), c)
  BY <1>1, <1>3 DEF WithinLimits
<1>5. Swept(v) => Swept(Synced(v))
  BY <1>1 DEF Swept
<1> QED
  BY <1>1, <1>2, <1>3, <1>4, <1>5

(* The gate only needs the durable horizon not to move back. *)
LEMMA GateKeeps ==
    ASSUME NEW k \in Checkpoints, NEW v, NEW w, NEW p, NEW q, GateOk(k, v, p, q),
           v.durable \in Nat, w.durable \in Nat, v.durable <= w.durable
    PROVE  GateOk(k, w, p, q)
  BY DEF Checkpoints, NoCheckpoint, GateOk

(* A FLUSH, and the sync of the worker before its checkpoint. *)
LEMMA FlushSyncOk ==
    ASSUME ReclaimInv, Flush \/ Sync
    PROVE  ReclaimInv'
<1>1. /\ cfg \in Settings /\ JournalOk(vol, cfg) /\ WithinLimits(vol, cfg) /\ ck \in Checkpoints
      /\ GateOk(ck, vol, wr, wk) /\ spent \in Spending /\ wk \in Passes
  BY DEF ReclaimInv
<1>2. PICK v : v = Synced(vol)
  OBVIOUS
<1>3. /\ JournalOk(v, cfg) /\ WithinLimits(v, cfg) /\ (Swept(vol) => Swept(v))
      /\ vol.durable <= v.durable /\ v.durable \in Nat /\ vol.durable \in Nat
  BY <1>1, <1>2, SyncedKeeps
<1>4. GateOk(ck, v, wr, wk)
  BY <1>1, <1>3, GateKeeps
<1>5. CASE Flush
  BY <1>2, <1>5, <1>3, <1>4 DEF Flush, ReclaimInv
<1>6. CASE Sync
  BY <1>6, <1>2, <1>1, <1>4, FaultIs, <1>3 DEF Sync, Passes, Asleep, GateOk, ReclaimInv, Spending
<1> QED
  BY <1>5, <1>6

(* A discarded unit may leave a slot to punch, which concerns nothing else.*)
LEMMA ScheduledIs ==
    ASSUME ReclaimInv, NEW w \in Writer, NEW v \in Scheduled(w)
    PROVE  /\ JournalOk(v, cfg) /\ WithinLimits(v, cfg) /\ (Swept(vol) => Swept(v)) /\ v.durable = vol.durable
           /\ v.appended = vol.appended /\ v.ckpt = vol.ckpt
           /\ OverlayLen(v) = OverlayLen(vol) /\ TotalBytes(v) = TotalBytes(vol)
           /\ \A n \in Nat : Footprint(v, n) = Footprint(vol, n)
<1>1. JournalOk(vol, cfg) /\ WithinLimits(vol, cfg)
  BY DEF ReclaimInv
<1>2. vol \in VolumeView /\ vol.ckpt <= vol.durable /\ vol.retired <= vol.ckpt
  BY <1>1 DEF JournalOk
<1>3. v = vol \/ v = [vol EXCEPT !.punch = TRUE]
  BY DEF Scheduled
<1>4. /\ v \in VolumeView /\ v.segments = vol.segments /\ v.appended = vol.appended /\ v.durable = vol.durable
      /\ v.ckpt = vol.ckpt /\ v.retired = vol.retired
  BY <1>2, <1>3 DEF VolumeView
<1>5. v.ckpt <= vol.durable /\ v.retired <= v.ckpt
  BY <1>2, <1>4
<1>6. JournalOk(v, cfg) /\ TotalBytes(v) = TotalBytes(vol)
  BY <1>1, <1>4, <1>5, SameSegments
<1>7. WithinLimits(v, cfg) /\ (Swept(vol) => Swept(v))
  BY <1>1, <1>4, <1>6 DEF WithinLimits, Swept
<1>8. \A n \in Nat : Footprint(v, n) = Footprint(vol, n)
  BY <1>4 DEF Footprint, Fitting
<1>9. OverlayLen(v) = OverlayLen(vol)
  BY <1>4 DEF OverlayLen
<1> QED
  BY <1>4, <1>6, <1>7, <1>8, <1>9

(* What a step of a writer in a round leaves to show. *)
RoundStep(w, p) ==
    /\ cfg' = cfg /\ ck' = ck /\ wk' = wk /\ free' = free /\ returned' = returned /\ clean' = clean
    /\ wr[w].stage = "round" /\ wr' = [wr EXCEPT ![w] = p]
    /\ spent' = spent \/ Fault

(* Such a step keeps the invariant when the journal stays in order and the *)
(* writer is done or has another round to wait for. *)
LEMMA RoundStepOk ==
    ASSUME ReclaimInv, NEW w \in Writer, NEW p \in Publication, RoundStep(w, p), AdmissionOk(p, cfg),
           p.stage = "idle" \/ p.round = wr[w].round,
           JournalOk(vol', cfg), WithinLimits(vol', cfg), Swept(vol) => Swept(vol'), vol.durable <= vol'.durable,
           early' \in BOOLEAN, early' => early \/ spent.faults > 0
    PROVE  ReclaimInv'
<1>1. /\ cfg' = cfg /\ ck' = ck /\ wk' = wk /\ free' = free /\ returned' = returned /\ clean' = clean
      /\ wr[w].stage = "round" /\ wr' = [wr EXCEPT ![w] = p]
      /\ spent' = spent \/ Fault
  BY DEF RoundStep
<1>2. /\ cfg \in Settings /\ JournalOk(vol, cfg) /\ ck \in Checkpoints /\ GateOk(ck, vol, wr, wk) /\ spent \in Spending
      /\ wr \in [Writer -> Publication] /\ \A x \in Writer : AdmissionOk(wr[x], cfg)
  BY DEF ReclaimInv
<1>3. wr' \in [Writer -> Publication] /\ wr'[w] = p /\ \A x \in Writer : x # w => wr'[x] = wr[x]
  BY <1>1, <1>2
<1>4. \A x \in Writer : AdmissionOk(wr'[x], cfg)
  BY <1>2, <1>3
<1>5. vol.durable \in Nat /\ vol'.durable \in Nat
  BY <1>2 DEF JournalOk, VolumeView
<1>6. GateOk(ck, vol', wr, wk)
  BY <1>2, <1>5, GateKeeps
<1>7. GateOk(ck, vol', wr', wk)
  BY <1>1, <1>3, <1>6 DEF GateOk
<1>8. FaultFree(wr, ck, clean) => FaultFree(wr', ck, clean)
  BY <1>1, <1>3 DEF FaultFree
<1>9. /\ spent' \in Spending /\ spent'.records = spent.records /\ spent'.space = spent.space
      /\ spent'.faults <= cfg.faults /\ (spent' = spent \/ spent'.faults > 0)
  BY <1>1, <1>2, FaultIs DEF ReclaimInv
<1>10. spent'.faults \in Nat /\ spent.faults \in Nat
  BY <1>2, <1>9 DEF Spending
<1>11. (spent'.faults = 0 => spent.faults = 0) /\ (spent.faults > 0 => spent'.faults > 0)
  BY <1>9, <1>10
<1>12. early' => spent'.faults > 0
  BY <1>11 DEF ReclaimInv
<1> QED
  BY <1>1, <1>3, <1>4, <1>7, <1>8, <1>9, <1>11, <1>12 DEF ReclaimInv

(* A writer that is done. *)
LEMMA NoWriteIs ==
    NoWrite \in Publication /\ NoWrite.stage = "idle" /\ \A c : AdmissionOk(NoWrite, c)
  BY DEF NoWrite, Publication, AdmissionOk

(* A request enters its first round. *)
LEMMA NewRequestOk ==
    ASSUME ReclaimInv, NEW w \in Writer, Request(w)
    PROVE  ReclaimInv'
<1>1. /\ cfg' = cfg /\ vol' = vol /\ ck' = ck /\ wk' = wk /\ free' = free /\ early' = early
      /\ returned' = returned /\ clean' = clean /\ wr[w].stage = "idle"
  BY DEF Request
<1>2. PICK r \in cfg.requests :
         /\ spent.records + Max({r[1], 1}) <= cfg.records
         /\ spent' = [spent EXCEPT !.records = @ + Max({r[1], 1})]
         /\ wr' = [wr EXCEPT ![w] = [stage |-> "round", round |-> 0, n |-> r[1], fua |-> r[2], trim |-> r[3]]]
  BY DEF Request
<1>3. /\ cfg \in Settings /\ GateOk(ck, vol, wr, wk) /\ spent \in Spending
      /\ wr \in [Writer -> Publication] /\ \A x \in Writer : AdmissionOk(wr[x], cfg)
  BY DEF ReclaimInv
<1>4. /\ cfg.largest \in Nat /\ cfg.rounds \in Nat /\ cfg.records \in Nat
      /\ cfg.requests \subseteq (0..cfg.largest) \X BOOLEAN \X BOOLEAN
  BY <1>3, SettingIs
<1>5. r[1] \in 0..cfg.largest /\ r[2] \in BOOLEAN /\ r[3] \in BOOLEAN
  BY <1>4
<1>6. PICK p : p = [stage |-> "round", round |-> 0, n |-> r[1], fua |-> r[2], trim |-> r[3]]
  OBVIOUS
<1>7. p \in Publication /\ p.stage = "round" /\ p.round = 0 /\ p.n = r[1]
  BY <1>4, <1>5, <1>6 DEF Publication
<1>8. AdmissionOk(p, cfg)
  BY <1>4, <1>5, <1>7 DEF AdmissionOk
<1>9. wr' = [wr EXCEPT ![w] = p]
  BY <1>2, <1>6
<1>10. wr' \in [Writer -> Publication] /\ wr'[w] = p /\ \A x \in Writer : x # w => wr'[x] = wr[x]
  BY <1>3, <1>7, <1>9
<1>11. \A x \in Writer : AdmissionOk(wr'[x], cfg)
  BY <1>3, <1>8, <1>10
<1>12. GateOk(ck, vol, wr', wk)
  BY <1>1, <1>3, <1>10 DEF GateOk
<1>13. FaultFree(wr, ck, clean) => FaultFree(wr', ck, clean)
  BY <1>7, <1>10 DEF FaultFree
<1>14. Max({r[1], 1}) \in Nat
  BY <1>4, <1>5, OfTwo
<1>15. /\ spent' \in Spending /\ spent'.records <= cfg.records /\ spent'.faults = spent.faults
       /\ spent'.space = spent.space
  BY <1>2, <1>3, <1>14 DEF Spending
<1> QED
  BY <1>1, <1>10, <1>11, <1>12, <1>13, <1>15 DEF ReclaimInv

(* A write that fails for space. *)
LEMMA RefuseForSpaceOk ==
    ASSUME ReclaimInv, NEW w \in Writer, RefuseForSpace(w)
    PROVE  ReclaimInv'
<1>1. vol' \in Scheduled(w) /\ early' = early
  BY DEF RefuseForSpace
<1>2. RoundStep(w, NoWrite)
  BY DEF RefuseForSpace, RoundStep
<1>3. JournalOk(vol', cfg) /\ WithinLimits(vol', cfg) /\ (Swept(vol) => Swept(vol')) /\ vol'.durable = vol.durable
  BY <1>1, ScheduledIs
<1>4. vol.durable <= vol'.durable
  BY <1>3 DEF JournalOk, VolumeView
<1>5. early' \in BOOLEAN
  BY <1>1 DEF ReclaimInv
<1> QED
  BY <1>1, <1>2, <1>3, <1>4, <1>5, NoWriteIs, RoundStepOk

(* The same for room: without a fault the last checkpoint has swept the *)
(* journal, so that a write is refused only after its last round. *)
LEMMA RefuseForRoomOk ==
    ASSUME ReclaimInv, NEW w \in Writer, RefuseForRoom(w)
    PROVE  ReclaimInv'
<1>1. vol' \in Scheduled(w) /\ early' = (early \/ wr[w].round < cfg.rounds)
  BY DEF RefuseForRoom
<1>2. RoundStep(w, NoWrite)
  BY DEF RefuseForRoom, RoundStep
<1>3. JournalOk(vol', cfg) /\ WithinLimits(vol', cfg) /\ (Swept(vol) => Swept(vol')) /\ vol'.durable = vol.durable
  BY <1>1, ScheduledIs
<1>4. vol.durable <= vol'.durable
  BY <1>3 DEF JournalOk, VolumeView
<1>5. early' \in BOOLEAN
  BY <1>1 DEF ReclaimInv
<1>6. ASSUME early', ~early, ~(spent.faults > 0) PROVE FALSE
  <2>1. /\ cfg \in Settings /\ JournalOk(vol, cfg) /\ spent \in Spending /\ wr[w] \in Publication
        /\ AdmissionOk(wr[w], cfg) /\ (clean => Swept(vol)) /\ (spent.faults = 0 => FaultFree(wr, ck, clean))
    BY DEF ReclaimInv
  <2>2. wr[w].stage = "round" /\ OverLimit(wr[w].n) /\ Exhausted(wr[w].round) /\ wr[w].round < cfg.rounds
    BY <1>1, <1>6 DEF RefuseForRoom
  <2>3. wr[w].round \in Nat /\ wr[w].n \in Nat /\ wr[w].n <= cfg.largest
    BY <2>1, <2>2 DEF Publication, NoWrite, AdmissionOk
  <2>4. cfg.rounds \in Nat /\ cfg.overlay \in Nat /\ cfg.journal \in Nat
    BY <2>1, SettingIs
  <2>5. wr[w].round > 0 /\ vol.ckpt >= vol.appended
    BY <2>2, <2>3, <2>4 DEF Exhausted, Appended
  <2>6. spent.faults = 0
    BY <1>6, <2>1 DEF Spending
  <2>7. clean
    BY <2>1, <2>2, <2>5, <2>6 DEF FaultFree
  <2>8. PICK n : n = wr[w].n
    OBVIOUS
  <2>9. OverlayLen(vol) + n <= cfg.overlay /\ TotalBytes(vol) + Footprint(vol, n) <= cfg.journal
    BY <2>1, <2>3, <2>5, <2>7, <2>8, RoomWhenSwept
  <2>10. OverlayLen(vol) + n > cfg.overlay \/ TotalBytes(vol) + Footprint(vol, n) > cfg.journal
    BY <2>2, <2>8 DEF OverLimit
  <2>11. OverlayLen(vol) + n \in Int
    BY <2>1, <2>3, <2>8 DEF JournalOk, VolumeView, OverlayLen
  <2>12. TotalBytes(vol) + Footprint(vol, n) \in Int
    <3>1. PICK q : q = cfg.segment - 1
      OBVIOUS
    <3>2. q \in Nat \ {0}
      BY <2>1, <3>1, SettingIs
    <3>3. Footprint(vol, n) = Needed(Fitting(vol), n, q) /\ Fitting(vol) \in Nat
      BY <2>1, <2>3, <2>8, <3>1, FootprintIs
    <3>4. n \in Nat /\ n <= n
      BY <2>3, <2>8
    <3>5. Needed(Fitting(vol), n, q) \in Nat
      BY <3>2, <3>3, <3>4, NeededAtMost
    <3>6. TotalBytes(vol) \in Nat
      BY <2>1, BytesAreNat
    <3> QED
      BY <3>3, <3>5, <3>6
  <2> QED
    BY <2>4, <2>9, <2>10, <2>11, <2>12
<1> QED
  BY <1>2, <1>3, <1>4, <1>5, <1>6, NoWriteIs, RoundStepOk

(* A sum of bytes and a footprint is a number, so that the admission *)
(* either finds room or is over a limit. *)
LEMMA AdmittedIs ==
    ASSUME ReclaimInv, NEW n \in Nat, ~OverLimit(n), n > 0
    PROVE  OverlayLen(vol) + n <= cfg.overlay /\ TotalBytes(vol) + Footprint(vol, n) <= cfg.journal
<1>1. cfg \in Settings /\ JournalOk(vol, cfg)
  BY DEF ReclaimInv
<1>2. PICK q : q = cfg.segment - 1
  OBVIOUS
<1>3. q \in Nat \ {0} /\ cfg.overlay \in Nat /\ cfg.journal \in Nat
  BY <1>1, <1>2, SettingIs
<1>4. Footprint(vol, n) = Needed(Fitting(vol), n, q) /\ Fitting(vol) \in Nat
  BY <1>1, <1>2, FootprintIs
<1>5. n <= n
  OBVIOUS
<1>6. Needed(Fitting(vol), n, q) \in Nat
  BY <1>3, <1>4, <1>5, NeededAtMost
<1>7. TotalBytes(vol) \in Nat
  BY <1>1, BytesAreNat
<1>8. OverlayLen(vol) \in Int
  BY <1>1 DEF JournalOk, VolumeView, OverlayLen
<1>9. ~(OverlayLen(vol) + n > cfg.overlay) /\ ~(TotalBytes(vol) + Footprint(vol, n) > cfg.journal)
  BY DEF OverLimit
<1> QED
  BY <1>3, <1>4, <1>6, <1>7, <1>8, <1>9

(* A writer at a limit syncs and waits for the gate. *)
LEMMA ReclaimOk ==
    ASSUME ReclaimInv, NEW w \in Writer, Reclaim(w)
    PROVE  ReclaimInv'
<1>1. PICK v \in Scheduled(w) :
         \/ vol' = Synced(v) /\ wr' = [wr EXCEPT ![w].stage = "gate"] /\ UNCHANGED spent
         \/ Fault /\ vol' = v /\ wr' = [wr EXCEPT ![w] = NoWrite]
  BY DEF Reclaim
<1>2. /\ cfg' = cfg /\ ck' = ck /\ wk' = wk /\ free' = free /\ early' = early /\ returned' = returned /\ clean' = clean
      /\ wr[w].stage = "round" /\ ~Exhausted(wr[w].round)
  BY DEF Reclaim
<1>3. cfg \in Settings /\ wr[w] \in Publication /\ AdmissionOk(wr[w], cfg) /\ wr \in [Writer -> Publication]
  BY DEF ReclaimInv
<1>4. JournalOk(v, cfg) /\ WithinLimits(v, cfg) /\ (Swept(vol) => Swept(v)) /\ v.durable = vol.durable
  BY ScheduledIs
<1>5. early' \in BOOLEAN
  BY <1>2 DEF ReclaimInv
<1>6. CASE vol' = Synced(v) /\ wr' = [wr EXCEPT ![w].stage = "gate"] /\ UNCHANGED spent
  <2>1. PICK p : p = [wr[w] EXCEPT !.stage = "gate"]
    OBVIOUS
  <2>2. p \in Publication /\ p.stage = "gate" /\ p.round = wr[w].round /\ p.n = wr[w].n
    BY <1>2, <1>3, <2>1 DEF Publication, NoWrite
  <2>3. wr[w].round \in Nat /\ wr[w].round <= cfg.rounds /\ wr[w].n <= cfg.largest
    BY <1>2, <1>3 DEF Publication, NoWrite, AdmissionOk
  <2>4. wr[w].round # cfg.rounds
    BY <1>3, SettingIs, <1>2, <2>3 DEF Exhausted
  <2>5. wr[w].round < cfg.rounds
    <3>1. cfg.rounds \in Nat
      BY <1>3, SettingIs
    <3> QED
      BY <2>3, <2>4, <3>1
  <2>6. AdmissionOk(p, cfg)
    BY <2>2, <2>3, <2>5 DEF AdmissionOk
  <2>7. wr' = [wr EXCEPT ![w] = p]
    BY <1>6, <2>1
  <2>8. RoundStep(w, p)
    BY <1>2, <1>6, <2>7 DEF RoundStep
  <2>9. /\ JournalOk(vol', cfg) /\ WithinLimits(vol', cfg) /\ (Swept(vol) => Swept(vol'))
        /\ vol.durable <= vol'.durable
    BY <1>3, <1>4, <1>6, SyncedKeeps
  <2> QED
    BY <1>2, <1>5, <2>2, <2>6, <2>8, <2>9, RoundStepOk
<1>7. CASE Fault /\ vol' = v /\ wr' = [wr EXCEPT ![w] = NoWrite]
  <2>1. RoundStep(w, NoWrite)
    BY <1>2, <1>7 DEF RoundStep
  <2>2. vol.durable <= vol'.durable
    BY <1>4, <1>7 DEF JournalOk, VolumeView
  <2> QED
    BY <1>2, <1>4, <1>5, <1>7, <2>1, <2>2, NoWriteIs, RoundStepOk
<1> QED
  BY <1>1, <1>6, <1>7

(* The records that were admitted are appended, all or some of them. *)
LEMMA PublishCiphertextsOk ==
    ASSUME ReclaimInv, NEW w \in Writer, PublishCiphertexts(w)
    PROVE  ReclaimInv'
<1>1. PICK n : n = wr[w].n
  OBVIOUS
<1>2. /\ cfg' = cfg /\ ck' = ck /\ wk' = wk /\ free' = free /\ early' = early /\ returned' = returned /\ clean' = clean
      /\ wr[w].stage = "round" /\ ~OverLimit(n) /\ wr' = [wr EXCEPT ![w] = NoWrite]
  BY <1>1 DEF PublishCiphertexts
<1>3. PICK v \in Scheduled(w) :
         /\ \E k \in 0..n : vol' = AppendAll(v, k) \/ vol' = Synced(AppendAll(v, k))
         /\ spent' = spent \/ Fault
  BY <1>1, <1>2 DEF ReclaimInv, Publication, NoWrite, PublishCiphertexts
<1>4. PICK k \in 0..n : vol' = AppendAll(v, k) \/ vol' = Synced(AppendAll(v, k))
  BY <1>3
<1>5. cfg \in Settings /\ n \in Nat
  BY <1>1, <1>2 DEF ReclaimInv, Publication, NoWrite
<1>6. /\ JournalOk(v, cfg) /\ WithinLimits(v, cfg) /\ (Swept(vol) => Swept(v)) /\ v.durable = vol.durable
      /\ OverlayLen(v) = OverlayLen(vol) /\ TotalBytes(v) = TotalBytes(vol) /\ Footprint(v, n) = Footprint(vol, n)
  BY <1>5, ScheduledIs
<1>7. n > 0 => OverlayLen(v) + n <= cfg.overlay /\ TotalBytes(v) + Footprint(v, n) <= cfg.journal
  BY <1>2, <1>5, <1>6, AdmittedIs
<1>8. PICK x : x = AppendAll(v, k)
  OBVIOUS
<1>9. HasAppended(v, x, k) /\ WithinLimits(x, cfg) /\ (Swept(v) => Swept(x))
  BY <1>5, <1>6, <1>7, <1>8, AppendedWithin
<1>10. JournalOk(x, cfg) /\ v.durable <= x.durable
  BY <1>9 DEF HasAppended
<1>11. /\ JournalOk(Synced(x), cfg) /\ WithinLimits(Synced(x), cfg) /\ (Swept(x) => Swept(Synced(x)))
       /\ x.durable <= Synced(x).durable /\ Synced(x).durable \in Nat /\ x.durable \in Nat
  BY <1>5, <1>9, <1>10, SyncedKeeps
<1>12. vol.durable \in Nat
  BY DEF ReclaimInv, JournalOk, VolumeView
<1>13. /\ JournalOk(vol', cfg) /\ WithinLimits(vol', cfg) /\ (Swept(vol) => Swept(vol')) /\ vol.durable <= vol'.durable
  BY <1>4, <1>6, <1>8, <1>9, <1>10, <1>11, <1>12
<1>14. RoundStep(w, NoWrite)
  BY <1>2, <1>3 DEF RoundStep
<1>15. early' \in BOOLEAN
  BY <1>2 DEF ReclaimInv
<1> QED
  BY <1>2, <1>13, <1>14, <1>15, NoWriteIs, RoundStepOk

(* The owner of a checkpoint goes on with its result. *)
LEMMA ReportIs ==
    ASSUME ReclaimInv, ck.stage = "finish", NEW ok \in BOOLEAN, Report(ok)
    PROVE  /\ ck' \in Checkpoints /\ ck'.stage = "none" /\ clean' = ok
           /\ wr' \in [Writer -> Publication] /\ \A w \in Writer : AdmissionOk(wr'[w], cfg)
           /\ wk' \in Passes /\ (returned => wk'.stage = "done")
<1>1. /\ ck \in Checkpoints /\ GateOk(ck, vol, wr, wk) /\ wk \in Passes /\ cfg \in Settings
      /\ wr \in [Writer -> Publication] /\ (\A x \in Writer : AdmissionOk(wr[x], cfg)) /\ (returned => wk.stage = "done")
  BY DEF ReclaimInv
<1>2. ck' = NoCheckpoint /\ clean' = ok
  BY DEF Report
<1>3. wk' = IF ck.by = Worker THEN IF ok THEN [wk EXCEPT !.stage = "after"] ELSE Asleep ELSE wk
  BY DEF Report
<1>4. ck.by = Worker => wk.stage = "wait"
  BY <1>1 DEF GateOk
<1>5. wk' \in Passes
  BY <1>1, <1>3, <1>4 DEF Passes, Asleep
<1>6. returned => wk'.stage = "done"
  BY <1>1, <1>3, <1>4
<1>7. ASSUME NEW w \in Writer
      PROVE  wr'[w] \in Publication /\ AdmissionOk(wr'[w], cfg)
  <2>1. wr'[w] = IF ck.by # w THEN wr[w]
                 ELSE IF ok THEN [wr[w] EXCEPT !.stage = "round", !.round = @ + 1]
                 ELSE NoWrite
    BY DEF Report
  <2>2. CASE ck.by # w
    BY <1>1, <2>1, <2>2
  <2>3. CASE ck.by = w /\ ok
    <3>1. wr[w].stage = "wait" /\ wr[w] \in Publication /\ AdmissionOk(wr[w], cfg)
      BY <1>1, <2>3 DEF GateOk
    <3>2. wr[w].round \in Nat /\ wr[w].round < cfg.rounds /\ wr[w].n <= cfg.largest /\ cfg.rounds \in Nat
      BY <1>1, <3>1, SettingIs DEF Publication, NoWrite, AdmissionOk
    <3>3. wr'[w] = [wr[w] EXCEPT !.stage = "round", !.round = @ + 1]
      BY <2>1, <2>3
    <3>4. /\ wr'[w] \in Publication /\ wr'[w].stage = "round" /\ wr'[w].round = wr[w].round + 1
          /\ wr'[w].n = wr[w].n
      <4>1. PICK x, y : x = wr[w] /\ y = wr'[w]
        OBVIOUS
      <4>2. x \in [stage : {"round", "gate", "wait"}, round : Nat, n : Nat, fua : BOOLEAN, trim : BOOLEAN]
        BY <3>1, <4>1 DEF Publication, NoWrite
      <4>3. y = [stage |-> "round", round |-> x.round + 1, n |-> x.n, fua |-> x.fua, trim |-> x.trim]
        BY <3>3, <4>1, <4>2
      <4>4. y \in Publication /\ y.stage = "round" /\ y.round = x.round + 1 /\ y.n = x.n
        BY <4>2, <4>3 DEF Publication
      <4> QED
        BY <4>1, <4>4
    <3>5. wr'[w].round <= cfg.rounds
      BY <3>2, <3>4
    <3> QED
      BY <3>2, <3>4, <3>5 DEF AdmissionOk
  <2>4. CASE ck.by = w /\ ~ok
    BY <2>1, <2>4, NoWriteIs
  <2> QED
    BY <2>2, <2>3, <2>4
<1>8. wr' \in [Writer -> Publication]
  BY <1>7 DEF Report
<1>9. ck' \in Checkpoints /\ ck'.stage = "none"
  BY <1>2 DEF Checkpoints, NoCheckpoint
<1> QED
  BY <1>2, <1>5, <1>6, <1>7, <1>8, <1>9

(* What a checkpoint that fails half way may leave of v. *)
PartOf(w, v, h) ==
    \E x : /\ (x = StoredAt(v, h) \/ x = [v EXCEPT !.retired = v.ckpt])
           /\ \E k \in 0..CoveredCount(x) : w = Drop(x, k)

(* The end of a checkpoint, with all its outcomes. *)
LEMMA FinishOk ==
    ASSUME ReclaimInv, Finish
    PROVE  ReclaimInv'
<1>1. /\ cfg \in Settings /\ JournalOk(vol, cfg) /\ WithinLimits(vol, cfg) /\ ck \in Checkpoints
      /\ GateOk(ck, vol, wr, wk) /\ spent \in Spending
  BY DEF ReclaimInv
<1>2. ck.stage = "finish" /\ cfg' = cfg /\ free' = free /\ early' = early /\ returned' = returned
  BY DEF Finish
<1>3. PICK h : h = ck.horizon
  OBVIOUS
<1>4. h \in Nat /\ h <= vol.durable /\ ck.ok \in BOOLEAN
  BY <1>1, <1>2, <1>3 DEF Checkpoints, NoCheckpoint, GateOk
<1>5. vol \in VolumeView /\ vol.punch \in BOOLEAN
  BY <1>1 DEF JournalOk, VolumeView
<1>6. CASE /\ ck.ok
           /\ \E p \in BOOLEAN : vol' = [Cleaned(vol, h) EXCEPT !.punch = p]
           /\ spent' = spent \/ Fault
           /\ Report(TRUE)
  <2>1. PICK p \in BOOLEAN : vol' = [Cleaned(vol, h) EXCEPT !.punch = p]
    BY <1>6
  <2>2. Cleaned(vol, h) \in VolumeView
    <3>1. PICK x : x = StoredAt(vol, h)
      OBVIOUS
    <3>2. JournalOk(x, cfg) /\ x.ckpt \in Nat
      BY <1>1, <1>4, <3>1, StoredAtIs
    <3>3. PICK k : k = CoveredCount(x)
      OBVIOUS
    <3>4. k \in 0..CoveredCount(x)
      BY <3>2, <3>3, CoveredIs
    <3>5. Drop(x, k) \in VolumeView
      BY <3>2, <3>4, DropIs DEF JournalOk
    <3>6. Cleaned(vol, h) = [Drop(x, k) EXCEPT !.retired = x.ckpt]
      BY <3>1, <3>3 DEF Cleaned, Deleted
    <3> QED
      BY <3>2, <3>5, <3>6 DEF VolumeView
  <2>3. PICK y : y = Cleaned(vol, h)
    OBVIOUS
  <2>4. /\ vol' \in VolumeView /\ vol'.segments = y.segments /\ vol'.appended = y.appended
        /\ vol'.durable = y.durable /\ vol'.ckpt = y.ckpt /\ vol'.retired = y.retired
    BY <2>1, <2>2, <2>3 DEF VolumeView
  <2>5. JournalOk(vol', cfg) /\ WithinLimits(vol', cfg) /\ Swept(vol')
    BY <1>1, <1>4, <2>3, <2>4, CleanedIs
  <2>6. /\ ck' \in Checkpoints /\ ck'.stage = "none" /\ clean' = TRUE
        /\ wr' \in [Writer -> Publication] /\ (\A w \in Writer : AdmissionOk(wr'[w], cfg))
        /\ wk' \in Passes /\ (returned => wk'.stage = "done")
    BY <1>2, <1>6, ReportIs
  <2>7. GateOk(ck', vol', wr', wk') /\ FaultFree(wr', ck', clean')
    BY <2>6 DEF GateOk, FaultFree
  <2>8. /\ spent' \in Spending /\ spent'.records = spent.records /\ spent'.space = spent.space
        /\ spent'.faults <= cfg.faults /\ (spent' = spent \/ spent'.faults > 0)
    BY <1>1, <1>6, FaultIs DEF ReclaimInv
  <2>9. early' => spent'.faults > 0
    BY <1>2, <2>8 DEF ReclaimInv
  <2> QED
    BY <1>2, <2>5, <2>6, <2>7, <2>8, <2>9 DEF ReclaimInv
<1>7. CASE /\ \/ ck.ok /\ Fault /\ (vol' = vol \/ PartOf(vol', vol, h))
              \/ ~ck.ok /\ UNCHANGED <<vol, spent>>
           /\ Report(FALSE)
  <2>1. JournalOk(vol', cfg) /\ WithinLimits(vol', cfg)
    BY <1>1, <1>4, PartlyCleaned, <1>7 DEF PartOf
  <2>2. /\ ck' \in Checkpoints /\ ck'.stage = "none" /\ clean' = FALSE
        /\ wr' \in [Writer -> Publication] /\ (\A w \in Writer : AdmissionOk(wr'[w], cfg))
        /\ wk' \in Passes /\ (returned => wk'.stage = "done")
    BY <1>2, <1>7, ReportIs
  <2>3. GateOk(ck', vol', wr', wk')
    BY <2>2 DEF GateOk
  <2>4. /\ spent' \in Spending /\ spent'.records = spent.records /\ spent'.space = spent.space
        /\ spent'.faults <= cfg.faults /\ (spent' = spent \/ spent'.faults > 0)
    BY <1>1, <1>7, FaultIs DEF ReclaimInv
  <2>5. spent'.faults # 0
    BY <1>1, <2>4, FaultIs, <1>2, <1>7 DEF Spending, ReclaimInv, FaultFree
  <2>6. early' => spent'.faults > 0
    BY <1>2, <2>4 DEF ReclaimInv
  <2> QED
    BY <1>2, <2>1, <2>2, <2>3, <2>4, <2>5, <2>6 DEF ReclaimInv
<1> QED
  <2> DEFINE new == ck.horizon > vol.ckpt
             stored == [vol EXCEPT !.ckpt = Max({@, ck.horizon})]
             cleaned == [Deleted(stored) EXCEPT !.retired = stored.ckpt]
             first == IF new THEN stored ELSE [vol EXCEPT !.retired = vol.ckpt]
             partial == {vol} \cup {Drop(first, k) : k \in 0..CoveredCount(first)}
  <2>1. stored = StoredAt(vol, h) /\ cleaned = Cleaned(vol, h)
    BY <1>3 DEF StoredAt, Cleaned
  <2>2. \/ /\ ck.ok
           /\ \/ UNCHANGED spent /\ \E punch \in {FALSE, vol.punch} : vol' = [cleaned EXCEPT !.punch = punch]
              \/ Fault /\ new /\ vol' = [cleaned EXCEPT !.punch = TRUE]
           /\ Report(TRUE)
        \/ /\ \/ ck.ok /\ Fault /\ vol' \in partial
              \/ ~ck.ok /\ UNCHANGED <<vol, spent>>
           /\ Report(FALSE)
    <3> HIDE DEF stored, cleaned, first, partial, new
    <3> QED
      BY DEF Finish, stored, cleaned, first, partial, new
  <2>3. CASE /\ ck.ok
             /\ \/ UNCHANGED spent /\ \E punch \in {FALSE, vol.punch} : vol' = [cleaned EXCEPT !.punch = punch]
                \/ Fault /\ new /\ vol' = [cleaned EXCEPT !.punch = TRUE]
             /\ Report(TRUE)
    <3> HIDE DEF stored, cleaned, first, partial, new
    <3>1. \E p \in BOOLEAN : vol' = [cleaned EXCEPT !.punch = p]
      BY <1>5, <2>3
    <3>2. \E p \in BOOLEAN : vol' = [Cleaned(vol, h) EXCEPT !.punch = p]
      BY <2>1, <3>1
    <3> QED
      BY <1>6, <2>3, <3>2
  <2>4. CASE /\ \/ ck.ok /\ Fault /\ vol' \in partial
                \/ ~ck.ok /\ UNCHANGED <<vol, spent>>
             /\ Report(FALSE)
    <3>1. first = StoredAt(vol, h) \/ first = [vol EXCEPT !.retired = vol.ckpt]
      BY <2>1
    <3> HIDE DEF stored, cleaned, first, new
    <3>2. vol' \in partial => vol' = vol \/ \E k \in 0..CoveredCount(first) : vol' = Drop(first, k)
      OBVIOUS
    <3> HIDE DEF partial
    <3>3. vol' \in partial => (vol' = vol \/ PartOf(vol', vol, h))
      BY <3>1, <3>2 DEF PartOf
    <3> QED
      BY <1>7, <2>4, <3>3
  <2> HIDE DEF stored, cleaned, first, partial, new
  <2> QED
    BY <2>2, <2>3, <2>4

(* Every step of the admission and of the worker keeps the invariant. *)
LEMMA ReclaimStep == ReclaimInv /\ [ReclaimNext]_reclaimVars => ReclaimInv'
<1> SUFFICES ASSUME ReclaimInv, [ReclaimNext]_reclaimVars PROVE ReclaimInv'
  OBVIOUS
<1>1. CASE UNCHANGED reclaimVars
  BY <1>1 DEF reclaimVars, ReclaimInv
<1>2. ASSUME NEW w \in Writer, Request(w) \/ Write(w) \/ WriterEnters(w) PROVE ReclaimInv'
  BY <1>2, NewRequestOk, RefuseForSpaceOk, RefuseForRoomOk, ReclaimOk, PublishCiphertextsOk, EntersOk DEF Write
<1>3. CASE CheckpointStep
  BY <1>3, PrepareExecuteOk, FinishOk DEF CheckpointStep
<1>4. CASE WorkerStep
  BY <1>4, WorkerMovesOk, FlushSyncOk DEF WorkerStep, WorkerMoves
<1>5. CASE WorkerEnters \/ AdminEnters
  BY <1>5, EntersOk
<1>6. CASE Flush
  BY <1>6, FlushSyncOk
<1>7. CASE Tick \/ FreeSpace \/ Stop \/ Stopped
  BY <1>7, ClockOk
<1> QED
  BY <1>1, <1>2, <1>3, <1>4, <1>5, <1>6, <1>7 DEF ReclaimNext

(* The invariant of the admission and the worker. *)
LEMMA ReclaimInvariant == ReclaimSpec => []ReclaimInv
  BY ReclaimInitOk, ReclaimStep, PTL DEF ReclaimSpec

(* The invariant says what BoundsHeld says. *)
LEMMA BoundsFollow == ReclaimInv => BoundsHeld
<1> SUFFICES ASSUME ReclaimInv PROVE BoundsHeld
  OBVIOUS
<1>1. /\ cfg \in Settings /\ JournalOk(vol, cfg) /\ WithinLimits(vol, cfg) /\ ck \in Checkpoints /\ wk \in Passes
      /\ wr \in [Writer -> Publication] /\ (\A w \in Writer : AdmissionOk(wr[w], cfg))
      /\ spent \in Spending /\ free \in FreeLevel /\ clean \in BOOLEAN /\ (clean => Swept(vol))
      /\ spent.records <= cfg.records /\ spent.faults <= cfg.faults /\ spent.space <= cfg.space
  BY DEF ReclaimInv
<1>2. /\ cfg.rounds \in Nat /\ cfg.records \in Nat /\ cfg.faults \in Nat /\ cfg.space \in Nat
      /\ cfg.largest \in Nat /\ cfg.journal \in Nat /\ cfg.overlay \in Nat
  BY <1>1, SettingIs
<1>3. /\ vol.ckpt <= vol.durable /\ vol.durable <= Appended /\ vol.retired <= vol.ckpt
      /\ Appended = (IF vol.segments = <<>> THEN 0 ELSE Last(vol.segments).last)
      /\ vol.punch \in BOOLEAN
      /\ \A i \in 1..Len(vol.segments) : vol.segments[i].last <= Appended
  BY <1>1 DEF JournalOk, VolumeView, Appended, Last
<1>4. ASSUME NEW w \in Writer
      PROVE  /\ wr[w].stage \in {"idle", "round", "gate", "wait"}
             /\ wr[w].stage # "idle" => wr[w].round \in 0..cfg.rounds
  BY <1>1, <1>2 DEF Publication, NoWrite, AdmissionOk
<1>5. ck.stage \in {"none", "prepare", "execute", "finish"}
  BY <1>1 DEF Checkpoints, NoCheckpoint
<1>6. wk.stage \in {"sleep", "scan", "decide", "sync", "enter", "gate", "wait", "after", "done"}
  BY <1>1 DEF Passes
<1>7. spent.records \in 0..cfg.records /\ spent.faults \in 0..cfg.faults /\ spent.space \in 0..cfg.space
  BY <1>1, <1>2 DEF Spending
<1>8. ReclaimTypeOK
  BY <1>1, <1>3, <1>4, <1>5, <1>6, <1>7 DEF ReclaimTypeOK
<1>9. TotalBytes(vol) <= cfg.journal /\ OverlayLen(vol) <= cfg.overlay /\ Appended - vol.durable <= cfg.pending
  BY <1>1 DEF WithinLimits, OverlayLen, Appended
<1>10. ASSUME clean, vol.ckpt >= Appended PROVE ~OverLimit(cfg.largest)
  <2>1. PICK n : n = cfg.largest
    OBVIOUS
  <2>2. n \in Nat /\ n <= cfg.largest /\ Swept(vol) /\ vol.ckpt >= vol.appended
    BY <1>1, <1>2, <1>10, <2>1 DEF Appended
  <2>3. OverlayLen(vol) + n <= cfg.overlay /\ TotalBytes(vol) + Footprint(vol, n) <= cfg.journal
    BY <1>1, <2>2, RoomWhenSwept
  <2>4. OverlayLen(vol) + n \in Int
    BY <1>1, <2>2 DEF JournalOk, VolumeView, OverlayLen
  <2>5. TotalBytes(vol) + Footprint(vol, n) \in Int
    <3>1. PICK q : q = cfg.segment - 1
      OBVIOUS
    <3>2. q \in Nat \ {0}
      BY <1>1, <3>1, SettingIs
    <3>3. Footprint(vol, n) = Needed(Fitting(vol), n, q) /\ Fitting(vol) \in Nat
      BY <1>1, <2>2, <3>1, FootprintIs
    <3>4. n <= n
      BY <2>2
    <3>5. Needed(Fitting(vol), n, q) \in Nat
      BY <2>2, <3>2, <3>3, <3>4, NeededAtMost
    <3>6. TotalBytes(vol) \in Nat
      BY <1>1, BytesAreNat
    <3> QED
      BY <3>3, <3>5, <3>6
  <2>6. ~(OverlayLen(vol) + n > cfg.overlay) /\ ~(TotalBytes(vol) + Footprint(vol, n) > cfg.journal)
    BY <1>2, <2>3, <2>4, <2>5
  <2> QED
    BY <2>1, <2>6 DEF OverLimit
<1> QED
  BY <1>8, <1>9, <1>10 DEF BoundsHeld

(* The journal, the overlay and the unsynced tail stay within their limits *)
(* for every configuration that validate_journal_bounds accepts, whoever *)
(* appends, rolls or fails when; and after a checkpoint of every record *)
(* that succeeded the largest request fits. *)
THEOREM BoundsCorrect == ReclaimSpec => []BoundsHeld
  BY ReclaimInvariant, BoundsFollow, PTL

(* Without a storage failure admit_journal refuses no write for room *)
(* before its last reclaim round. *)
THEOREM NotRefusedEarlyCorrect == ReclaimSpec => []NotRefusedEarly
<1>1. ReclaimInv => NotRefusedEarly
  BY DEF ReclaimInv, NotRefusedEarly
<1> QED
  BY <1>1, ReclaimInvariant, PTL

(* Once stop_checkpoint_worker has returned, the worker is gone and no *)
(* checkpoint of it is in flight. *)
THEOREM WorkerGoneCorrect == ReclaimSpec => []WorkerGone
<1>1. ReclaimInv => WorkerGone
  BY DEF ReclaimInv, WorkerGone, GateOk
<1> QED
  BY <1>1, ReclaimInvariant, PTL

=============================================================================
