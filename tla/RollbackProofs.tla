--------------------------- MODULE RollbackProofs ---------------------------
(***************************************************************************)
(* Proofs about RollbackBacking, for every capacity, page value, name, *)
(* directory and bound: the manifest that the witness may select is *)
(* durable with all its pages (WitnessedKept), and a session reads what *)
(* was last written (ReadBack). *)
(* *)
(* Neither is inductive.  The invariant RInv says of a session that no *)
(* slot of the arena holds two pages of its working and its committed *)
(* files, that the cached set of slots in use is exact, that every page of *)
(* the committed manifest is certain on the disk and every other page will *)
(* be after the next sync of the arena, and that the inactive manifest is *)
(* the only one a commit overwrites.  Between sessions it says that every *)
(* manifest the anchor may show is certain, unless an older copy of the *)
(* backing was put back. *)
(* *)
(* Each operation is a set of outcomes; the lemmas say of each outcome *)
(* that it is Good, and StepTo carries the invariant over to the next *)
(* state.  The steps of an open are Calm: they change nothing that is *)
(* shown or certain. *)
(***************************************************************************)
EXTENDS RollbackBacking, FiniteSetTheorems, WellFoundedInduction, TLAPS

(* The types of a page reference, of a file node, and of the maps of a *)
(* manifest. A page lies inside the reserved part of its file. *)
PageRef == [slot : Slot, val : Val \cup {Zero}]

IsMap(f) == f = [x \in DOMAIN f |-> f[x]]

IsRecord(r, fields) == IsMap(r) /\ DOMAIN r = fields

IsPages(P) == IsMap(P) /\ \A i \in DOMAIN P : P[i] \in PageRef

IsNode(n) ==
    /\ IsRecord(n, {"len", "pages", "res"})
    /\ n.len \in 0..MaxPages /\ n.res \subseteq 1..n.len
    /\ IsPages(n.pages) /\ DOMAIN n.pages \subseteq n.res

IsFiles(F) == IsMap(F) /\ DOMAIN F \subseteq Id /\ \A id \in DOMAIN F : IsNode(F[id])

IsEntries(E) ==
    /\ IsMap(E) /\ DOMAIN E \subseteq Name \cup Dir
    /\ \A p \in DOMAIN E : E[p] \in IF p \in Dir THEN {Directory} ELSE Id

(* No slot holds two pages. *)
Apart(F, G) ==
    \A id \in DOMAIN F, k \in DOMAIN G : \A i \in DOMAIN F[id].pages, j \in DOMAIN G[k].pages :
        F[id].pages[i].slot = G[k].pages[j].slot => id = k /\ i = j

IsManifest(m) ==
    /\ IsRecord(m, {"entries", "files", "gen", "next"})
    /\ m.gen \in Nat /\ m.next \in 1..(MaxId + 1)
    /\ IsEntries(m.entries) /\ IsFiles(m.files) /\ Apart(m.files, m.files)
    /\ \A id \in DOMAIN m.files : id < m.next
    /\ Linked(m.entries) \subseteq DOMAIN m.files

(* A session: its working files are the committed ones and more, and no *)
(* slot of either holds two pages, so that a cached set of the slots in *)
(* use that is exact stays so. *)
IsSession(st) ==
    /\ IsRecord(st, {"com", "entries", "files", "handles", "next", "slot", "used"})
    /\ IsManifest(st.com) /\ st.slot \in {0, 1} /\ st.next \in 1..(MaxId + 1)
    /\ IsEntries(st.entries) /\ IsFiles(st.files)
    /\ \A id \in DOMAIN st.files : id < st.next
    /\ st.handles \subseteq DOMAIN st.files /\ Linked(st.entries) \subseteq DOMAIN st.files
    /\ DOMAIN st.com.files \subseteq DOMAIN st.files
    /\ Apart(st.files, st.files) /\ Apart(st.com.files, st.files)
    /\ \A u \in st.used : /\ IsRecord(u, {"hint", "slots"})
                          /\ u.slots = CommittedSlots(st) \cup SlotsOf(st.files) /\ u.hint \in Nat

(* What is in the directories: pages, manifests and flags. *)
PageValue == Val \cup {Zero, Torn}

IsCell(c, V) == IsRecord(c, {"dirty", "may", "now"}) /\ c.now \in c.may /\ c.may \subseteq V /\ c.dirty \in BOOLEAN

Manifest(m) == m = NoManifest \/ IsManifest(m)

IsManifestCell(c) ==
    IsRecord(c, {"dirty", "may", "now"}) /\ Manifest(c.now) /\ (\A m \in c.may : Manifest(m)) /\ c.dirty \in BOOLEAN

IsDisk(disk) ==
    /\ IsRecord(disk, {"anchor", "len", "man", "marker", "page"})
    /\ IsMap(disk.page) /\ DOMAIN disk.page = Slot /\ \A x \in Slot : IsCell(disk.page[x], PageValue)
    /\ IsCell(disk.len, BOOLEAN) /\ IsCell(disk.marker, BOOLEAN)
    /\ IsMap(disk.man) /\ DOMAIN disk.man = {0, 1} /\ \A j \in {0, 1} : IsManifestCell(disk.man[j])
    /\ IsRecord(disk.anchor, {"may", "now"})
    /\ Manifest(disk.anchor.now) /\ \A m \in disk.anchor.may : Manifest(m)

(* Page p is certain on the disk; it is so or the next sync makes it so. *)
CertainPage(disk, p) == disk.page[p.slot].may = {p.val} /\ disk.page[p.slot].now = p.val

DirtyPage(disk, p) == disk.page[p.slot].now = p.val /\ (disk.page[p.slot].may = {p.val} \/ disk.page[p.slot].dirty)

CertainFiles(disk, F) == \A id \in DOMAIN F : \A i \in DOMAIN F[id].pages : CertainPage(disk, F[id].pages[i])

DirtyFiles(disk, F) == \A id \in DOMAIN F : \A i \in DOMAIN F[id].pages : DirtyPage(disk, F[id].pages[i])

(* What Certain says of the directories: the length of the arena and the *)
(* marker, the file j of manifest m, and its pages. *)
Flags(disk) == disk.len.may = {TRUE} /\ disk.marker.may = {TRUE}

FileIs(disk, m, j) == disk.man[j].may = {m} /\ disk.man[j].now = m

CertainAt(disk, m, j) == Flags(disk) /\ FileIs(disk, m, j) /\ CertainFiles(disk, m.files)

(* Between two states of the directories, pages of S that were certain *)
(* are, and so is the file of manifest m. *)
PagesKept(a, b, S) ==
    \A x \in S : \A v : a.page[x].may = {v} /\ a.page[x].now = v => b.page[x].may = {v} /\ b.page[x].now = v

FileKept(a, b, m) == \A j \in {0, 1} : FileIs(a, m, j) => FileIs(b, m, j)

CertainOn(disk, m) == \E j \in {0, 1} : CertainAt(disk, m, j)

(* Every manifest that the witness may select is there for certain. *)
Safe(disk) ==
    /\ IsDisk(disk)
    /\ \A m \in disk.anchor.may \cup {disk.anchor.now} : m = NoManifest \/ CertainOn(disk, m)

(* The directories under a session. *)
Under(st, disk) ==
    /\ IsSession(st) /\ IsDisk(disk)
    /\ disk.anchor.now = st.com /\ disk.anchor.may = {st.com}
    /\ CertainAt(disk, st.com, st.slot)
    /\ DirtyFiles(disk, st.files)

(* The inductive invariant. *)
RInv ==
    /\ pc \in {"none", "down", "up"} /\ restored \in BOOLEAN /\ out \in {"ok", "invalid"}
    /\ faults \in 0..MaxFaults
    /\ IF pc = "up" THEN Under(s, d) ELSE s = NoSession
    /\ pc = "up" => ~restored
    /\ pc = "none" => ~restored /\ d = Fresh /\ owed = {NothingOwed}
    /\ IsDisk(d) /\ (~restored => Safe(d))

-----------------------------------------------------------------------------
(* Maps, cells and references. *)

(* A restricted map by its domain and what it has there. *)
LEMMA RestrictIs ==
    ASSUME NEW f, NEW S
    PROVE  IsMap(Restrict(f, S)) /\ DOMAIN Restrict(f, S) = S /\ \A y \in S : Restrict(f, S)[y] = f[y]
  BY DEF Restrict, IsMap

(* The file identities that names are bound to. *)
LEMMA LinkedAre ==
    ASSUME NEW E, IsMap(E), NEW id
    PROVE  id \in Linked(E) <=> id # Directory /\ \E p \in DOMAIN E : E[p] = id
  BY DEF Linked, Range, IsMap

(* The references of a map of files. *)
LEMMA RefsAre ==
    ASSUME NEW F
    PROVE  /\ \A id \in DOMAIN F : \A i \in DOMAIN F[id].pages : <<id, i>> \in Refs(F)
           /\ \A r \in Refs(F) : r = <<r[1], r[2]>> /\ r[1] \in DOMAIN F /\ r[2] \in DOMAIN F[r[1]].pages
  BY DEF Refs

(* The slots of a map of files. *)
LEMMA SlotsAre ==
    ASSUME NEW F, NEW x
    PROVE  x \in SlotsOf(F) <=> \E id \in DOMAIN F : \E i \in DOMAIN F[id].pages : F[id].pages[i].slot = x
<1>1. ASSUME x \in SlotsOf(F)
      PROVE  \E id \in DOMAIN F : \E i \in DOMAIN F[id].pages : F[id].pages[i].slot = x
  BY <1>1, RefsAre DEF SlotsOf
<1>2. ASSUME NEW id \in DOMAIN F, NEW i \in DOMAIN F[id].pages, F[id].pages[i].slot = x
      PROVE  x \in SlotsOf(F)
  <2>1. <<id, i>> \in Refs(F)
    BY RefsAre
  <2>2. PICK r : r = <<id, i>>
    OBVIOUS
  <2>3. r[1] = id /\ r[2] = i
    BY <2>2
  <2>4. r \in Refs(F) /\ x = F[r[1]].pages[r[2]].slot
    BY <1>2, <2>1, <2>2, <2>3
  <2> QED
    BY <2>4 DEF SlotsOf
<1> QED
  BY <1>1, <1>2

(* Every page of well-formed files lies in a slot of the arena. *)
LEMMA SlotsInArena ==
    ASSUME NEW F, IsFiles(F)
    PROVE  SlotsOf(F) \subseteq Slot
<1>1. SUFFICES ASSUME NEW x \in SlotsOf(F)
               PROVE  x \in Slot
  OBVIOUS
<1>2. PICK id \in DOMAIN F : \E i \in DOMAIN F[id].pages : F[id].pages[i].slot = x
  BY SlotsAre
<1>3. PICK i \in DOMAIN F[id].pages : F[id].pages[i].slot = x
  BY <1>2
<1>4. F[id].pages[i] \in PageRef
  BY DEF IsFiles, IsNode, IsPages
<1> QED
  BY <1>3, <1>4 DEF PageRef

(* Cells stay cells. *)
LEMMA CellsStay ==
    ASSUME NEW V, NEW v \in V, NEW t \in V, NEW c, IsCell(c, V)
    PROVE  /\ IsCell(Cell(v), V) /\ IsCell(Wrote(c, v, t), V) /\ IsCell(Flushed(c), V) /\ IsCell(Unflushed(c), V)
  BY DEF IsCell, Cell, IsRecord, IsMap, Wrote, Unflushed, Flushed

(* Likewise for the cell of a manifest file. *)
LEMMA ManifestCellsStay ==
    ASSUME NEW v, NEW t, Manifest(v), Manifest(t), NEW c, IsManifestCell(c)
    PROVE  /\ IsManifestCell(Cell(v)) /\ IsManifestCell(Wrote(c, v, t)) /\ IsManifestCell(Flushed(c))
           /\ IsManifestCell(Unflushed(c))
  BY DEF IsManifestCell, Cell, IsRecord, IsMap, Wrote, Unflushed, Flushed

(* What is certain stays so through a sync, whether it succeeds or not, *)
(* and through a write of the same value. *)
LEMMA CertainStays ==
    ASSUME NEW c, NEW v, NEW t, IsRecord(c, {"dirty", "may", "now"}), c.may = {v}, c.now = v
    PROVE  /\ Flushed(c).may = {v} /\ Flushed(c).now = v /\ Unflushed(c).may = {v} /\ Unflushed(c).now = v
           /\ Wrote(c, v, t).may = {v} /\ Wrote(c, v, t).now = v
  BY DEF Cell, Wrote, Flushed, Unflushed, IsRecord, IsMap

(* A flag that is certainly set stays so. *)
LEMMA FlagStays ==
    ASSUME NEW c, IsCell(c, BOOLEAN), c.may = {TRUE}, NEW t
    PROVE  Flushed(c).may = {TRUE} /\ Unflushed(c).may = {TRUE} /\ Wrote(c, TRUE, t).may = {TRUE}
<1>1. IsRecord(c, {"dirty", "may", "now"}) /\ c.now = TRUE
  BY DEF IsCell
<1> QED
  BY <1>1, CertainStays

-----------------------------------------------------------------------------
(* Steps on the directories. *)

(* A sync of the arena, whether it succeeds or not. *)
LEMMA ArenaSyncs ==
    ASSUME NEW disk, IsDisk(disk), NEW e, e \in {ArenaSynced(disk), ArenaSyncFailed(disk)}
    PROVE  /\ IsDisk(e) /\ e.man = disk.man /\ e.marker = disk.marker /\ e.anchor = disk.anchor
           /\ e = ArenaSynced(disk) => e.len = Flushed(disk.len) /\ \A x \in Slot : e.page[x] = Flushed(disk.page[x])
           /\ e = ArenaSyncFailed(disk) => e.len = Unflushed(disk.len) /\ \A x \in Slot : e.page[x] = Unflushed(disk.page[x])
<1>1. PICK P : P = [x \in Slot |-> Flushed(disk.page[x])]
  OBVIOUS
<1>2. PICK Q : Q = [x \in Slot |-> Unflushed(disk.page[x])]
  OBVIOUS
<1>3. /\ IsRecord(disk, {"anchor", "len", "man", "marker", "page"})
      /\ IsCell(disk.len, BOOLEAN) /\ IsCell(disk.marker, BOOLEAN)
      /\ \A x \in Slot : IsCell(disk.page[x], PageValue)
  BY DEF IsDisk
<1>4. \A x \in Slot : IsCell(P[x], PageValue) /\ IsCell(Q[x], PageValue)
  BY <1>1, <1>2, <1>3, CellsStay DEF PageValue
<1>5. IsCell(Flushed(disk.len), BOOLEAN) /\ IsCell(Unflushed(disk.len), BOOLEAN)
  BY <1>3, CellsStay
<1>6. IsMap(P) /\ DOMAIN P = Slot /\ IsMap(Q) /\ DOMAIN Q = Slot
  BY <1>1, <1>2 DEF IsMap
<1>7. CASE e = ArenaSynced(disk)
  <2>1. e = [disk EXCEPT !.page = P, !.len = Flushed(disk.len)]
    BY <1>1, <1>7 DEF ArenaSynced
  <2>2. /\ IsRecord(e, {"anchor", "len", "man", "marker", "page"}) /\ e.page = P /\ e.len = Flushed(disk.len)
        /\ e.man = disk.man /\ e.marker = disk.marker /\ e.anchor = disk.anchor
    BY <1>3, <2>1 DEF IsRecord, IsMap
  <2>3. IsDisk(e)
    BY <1>3, <1>4, <1>5, <1>6, <2>2 DEF IsDisk
  <2>4. \A x \in Slot : e.page[x] = Flushed(disk.page[x])
    BY <1>1, <2>2
  <2>5. e = ArenaSyncFailed(disk) => e.len = Unflushed(disk.len) /\ \A x \in Slot : e.page[x] = Unflushed(disk.page[x])
    BY <1>2, <1>3 DEF ArenaSyncFailed, IsRecord
  <2> QED
    BY <2>2, <2>3, <2>4, <2>5
<1>8. CASE e = ArenaSyncFailed(disk) /\ e # ArenaSynced(disk)
  <2>1. e = [disk EXCEPT !.page = Q, !.len = Unflushed(disk.len)]
    BY <1>2, <1>8 DEF ArenaSyncFailed
  <2>2. /\ IsRecord(e, {"anchor", "len", "man", "marker", "page"}) /\ e.page = Q /\ e.len = Unflushed(disk.len)
        /\ e.man = disk.man /\ e.marker = disk.marker /\ e.anchor = disk.anchor
    BY <1>3, <2>1 DEF IsRecord, IsMap
  <2>3. IsDisk(e)
    BY <1>3, <1>4, <1>5, <1>6, <2>2 DEF IsDisk
  <2>4. \A x \in Slot : e.page[x] = Unflushed(disk.page[x])
    BY <1>2, <2>2
  <2> QED
    BY <1>8, <2>2, <2>3, <2>4
<1> QED
  BY <1>7, <1>8

(* The directories after a change of manifest file j, of the anchor or of *)
(* page x. *)
PutManifest(disk, j, c) == [disk EXCEPT !.man[j] = c]

PutAnchor(disk, a) == [disk EXCEPT !.anchor = a]

PutPage(disk, x, c) == [disk EXCEPT !.page[x] = c]

(* A change of one manifest file. *)
LEMMA ManifestPut ==
    ASSUME NEW disk, IsDisk(disk), NEW j \in {0, 1}, NEW c, IsManifestCell(c), NEW e, e = PutManifest(disk, j, c)
    PROVE  /\ IsDisk(e) /\ e.page = disk.page /\ e.len = disk.len /\ e.marker = disk.marker /\ e.anchor = disk.anchor
           /\ e.man[j] = c /\ e.man[1 - j] = disk.man[1 - j]
  BY DEF IsDisk, IsRecord, IsMap, PutManifest

(* A change of the anchor. *)
LEMMA AnchorPut ==
    ASSUME NEW disk, IsDisk(disk), NEW a, IsRecord(a, {"may", "now"}), Manifest(a.now), \A m \in a.may : Manifest(m),
           NEW e, e = PutAnchor(disk, a)
    PROVE  /\ IsDisk(e) /\ e.page = disk.page /\ e.len = disk.len /\ e.marker = disk.marker /\ e.man = disk.man
           /\ e.anchor = a
  BY DEF IsDisk, IsRecord, IsMap, PutAnchor

(* A write of one page. *)
LEMMA PagePut ==
    ASSUME NEW disk, IsDisk(disk), NEW x \in Slot, NEW c, IsCell(c, PageValue), NEW e, e = PutPage(disk, x, c)
    PROVE  /\ IsDisk(e) /\ e.len = disk.len /\ e.marker = disk.marker /\ e.man = disk.man /\ e.anchor = disk.anchor
           /\ e.page[x] = c /\ \A y \in Slot \ {x} : e.page[y] = disk.page[y]
  BY DEF IsDisk, IsRecord, IsMap, PutPage

(* What is certain about a manifest stays so when the flags, its file and *)
(* its pages stay certain. *)
LEMMA CertainKept ==
    ASSUME NEW a, NEW b, NEW m, NEW j \in {0, 1}, CertainAt(a, m, j),
           Flags(b), FileIs(b, m, j), PagesKept(a, b, SlotsOf(m.files))
    PROVE  CertainAt(b, m, j)
<1>1. ASSUME NEW id \in DOMAIN m.files, NEW i \in DOMAIN m.files[id].pages
      PROVE  CertainPage(b, m.files[id].pages[i])
  <2>1. CertainPage(a, m.files[id].pages[i])
    BY DEF CertainAt, CertainFiles
  <2>2. m.files[id].pages[i].slot \in SlotsOf(m.files)
    BY SlotsAre
  <2> QED
    BY <2>1, <2>2 DEF CertainPage, PagesKept
<1> QED
  BY <1>1 DEF CertainAt, CertainFiles

-----------------------------------------------------------------------------
(* State::commit. *)

(* Map G has page p of file id at place i. *)
HasPage(G, id, i, p) == id \in DOMAIN G /\ i \in DOMAIN G[id].pages /\ G[id].pages[i] = p

(* Every page of F is a page of the session, committed or not. *)
From(F, st) == \A id \in DOMAIN F : \A i \in DOMAIN F[id].pages :
    HasPage(st.com.files, id, i, F[id].pages[i]) \/ HasPage(st.files, id, i, F[id].pages[i])

(* What the code hands to commit. *)
Candidate(st, c) ==
    /\ IsRecord(c, {"entries", "files", "gen", "next"})
    /\ IsEntries(c.entries) /\ IsFiles(c.files) /\ From(c.files, st)
    /\ DOMAIN c.files \subseteq DOMAIN st.files

(* Pages of a session share no slot, committed or not. *)
LEMMA ApartFrom ==
    ASSUME NEW st, IsSession(st), NEW F, NEW G, From(F, st), From(G, st)
    PROVE  Apart(F, G)
<1>1. SUFFICES ASSUME NEW id \in DOMAIN F, NEW k \in DOMAIN G, NEW i \in DOMAIN F[id].pages, NEW j \in DOMAIN G[k].pages,
                      F[id].pages[i].slot = G[k].pages[j].slot
               PROVE  id = k /\ i = j
  BY DEF Apart
<1>2. PICK A \in {st.com.files, st.files} : HasPage(A, id, i, F[id].pages[i])
  BY DEF From
<1>3. PICK B \in {st.com.files, st.files} : HasPage(B, k, j, G[k].pages[j])
  BY DEF From
<1>4. Apart(st.com.files, st.com.files) /\ Apart(st.files, st.files) /\ Apart(st.com.files, st.files)
  BY DEF IsSession, IsManifest
<1>5. /\ id \in DOMAIN A /\ i \in DOMAIN A[id].pages /\ k \in DOMAIN B /\ j \in DOMAIN B[k].pages
      /\ A[id].pages[i].slot = B[k].pages[j].slot
  BY <1>1, <1>2, <1>3 DEF HasPage
<1>6. CASE Apart(A, B)
  BY <1>5, <1>6 DEF Apart
<1>7. CASE Apart(B, A)
  BY <1>5, <1>7 DEF Apart
<1> QED
  BY <1>2, <1>3, <1>4, <1>6, <1>7

(* The session's own files are from it. *)
LEMMA OwnFrom ==
    ASSUME NEW st
    PROVE  From(st.files, st) /\ From(st.com.files, st)
  BY DEF From, HasPage

(* A part of a map of files. *)
LEMMA FilesRestricted ==
    ASSUME NEW F, IsFiles(F), NEW S, S \subseteq DOMAIN F, NEW st
    PROVE  /\ IsFiles(Restrict(F, S)) /\ DOMAIN Restrict(F, S) = S /\ \A id \in S : Restrict(F, S)[id] = F[id]
           /\ (From(F, st) => From(Restrict(F, S), st))
  BY RestrictIs DEF IsFiles, From

(* The manifest that a commit of c writes. *)
NewManifest(st, c) ==
    [c EXCEPT !.next = st.next, !.gen = st.com.gen + 1, !.files = Restrict(c.files, DOMAIN c.files \cap Retain(c, st))]

(* The session after a commit of m. *)
CommitTo(st, m, R) ==
    [st EXCEPT !.com = m, !.slot = 1 - st.slot, !.used = {}, !.files = Restrict(st.files, DOMAIN st.files \cap R)]

(* The manifest that commit makes of a candidate, when it validates. *)
LEMMA CandidateManifest ==
    ASSUME NEW st, IsSession(st), NEW c, Candidate(st, c), NEW m, m = NewManifest(st, c), Consistent(m)
    PROVE  /\ IsManifest(m) /\ From(m.files, st) /\ m.gen = st.com.gen + 1 /\ m.next = st.next /\ m.entries = c.entries
           /\ DOMAIN m.files = DOMAIN c.files \cap Retain(c, st) /\ \A id \in DOMAIN m.files : m.files[id] = c.files[id]
<1>0. PICK g, R : g = st.com.gen + 1 /\ R = Retain(c, st)
  OBVIOUS
<1>1. PICK F : F = Restrict(c.files, DOMAIN c.files \cap R)
  OBVIOUS
<1>2. IsRecord(c, {"entries", "files", "gen", "next"}) /\ IsEntries(c.entries)
  BY DEF Candidate
<1>3. m = [c EXCEPT !.next = st.next, !.gen = g, !.files = F] /\ g \in Nat
  BY <1>0, <1>1 DEF NewManifest, IsSession, IsManifest
<1>4. /\ IsRecord(m, {"entries", "files", "gen", "next"})
      /\ m.next = st.next /\ m.gen = g /\ m.files = F /\ m.entries = c.entries
  BY <1>2, <1>3 DEF IsRecord, IsMap
<1>5. /\ IsFiles(F) /\ From(F, st) /\ DOMAIN F = DOMAIN c.files \cap R
      /\ \A id \in DOMAIN F : F[id] = c.files[id]
  BY <1>1, FilesRestricted DEF Candidate
<1>6. Apart(F, F)
  BY <1>5, ApartFrom
<1>7. \A id \in DOMAIN F : id < st.next
  BY <1>5 DEF Candidate, IsSession
<1>8. Linked(c.entries) \subseteq DOMAIN F
  <2>1. SUFFICES ASSUME NEW id \in Linked(c.entries)
                 PROVE  id \in DOMAIN F
    OBVIOUS
  <2>2. IsMap(c.entries)
    BY <1>2 DEF IsEntries
  <2>3. id # Directory /\ \E p \in DOMAIN c.entries : c.entries[p] = id
    BY <2>2, LinkedAre
  <2> QED
    BY <1>4, <2>3 DEF Consistent
<1>9. st.next \in 1..(MaxId + 1)
  BY DEF IsSession
<1>10. IsManifest(m)
  BY <1>2, <1>3, <1>4, <1>5, <1>6, <1>7, <1>8, <1>9 DEF IsManifest
<1> QED
  BY <1>0, <1>1, <1>4, <1>5, <1>10

(* The session y after a commit of manifest m that retains the files R. *)
CommittedTo(st, m, R, y) ==
    /\ IsSession(y) /\ y.com = m /\ y.slot = 1 - st.slot /\ y.entries = st.entries /\ y.handles = st.handles
    /\ y.next = st.next /\ y.used = {}
    /\ y.files = Restrict(st.files, DOMAIN st.files \cap R)
    /\ DOMAIN y.files = DOMAIN st.files \cap R /\ \A id \in DOMAIN y.files : y.files[id] = st.files[id]

(* It is a session. *)
LEMMA SessionCommitted ==
    ASSUME NEW st, IsSession(st), NEW m, IsManifest(m), From(m.files, st), NEW R, DOMAIN m.files \subseteq R,
           Linked(st.entries) \subseteq R, st.handles \subseteq R, DOMAIN m.files \subseteq DOMAIN st.files,
           NEW y, y = CommitTo(st, m, R)
    PROVE  CommittedTo(st, m, R, y)
<1>1. PICK F : F = Restrict(st.files, DOMAIN st.files \cap R)
  OBVIOUS
<1>0. PICK j : j = 1 - st.slot
  OBVIOUS
<1>2. y = [st EXCEPT !.com = m, !.slot = j, !.used = {}, !.files = F] /\ j \in {0, 1}
  BY <1>0, <1>1 DEF CommitTo, IsSession
<1>3. IsRecord(st, {"com", "entries", "files", "handles", "next", "slot", "used"})
  BY DEF IsSession
<1>4. /\ IsRecord(y, {"com", "entries", "files", "handles", "next", "slot", "used"})
      /\ y.com = m /\ y.slot = j /\ y.used = {} /\ y.files = F
      /\ y.entries = st.entries /\ y.handles = st.handles /\ y.next = st.next
  BY <1>2, <1>3 DEF IsRecord, IsMap
<1>5. IsFiles(F) /\ From(F, st) /\ DOMAIN F = DOMAIN st.files \cap R /\ \A id \in DOMAIN F : F[id] = st.files[id]
  BY OwnFrom, <1>1, FilesRestricted DEF IsSession
<1>6. Apart(F, F) /\ Apart(m.files, F)
  BY <1>5, ApartFrom
<1>7. /\ IsEntries(st.entries) /\ st.next \in 1..(MaxId + 1) /\ st.handles \subseteq DOMAIN st.files
      /\ Linked(st.entries) \subseteq DOMAIN st.files /\ \A id \in DOMAIN st.files : id < st.next
  BY DEF IsSession
<1>8. /\ \A id \in DOMAIN F : id < st.next
      /\ st.handles \subseteq DOMAIN F /\ Linked(st.entries) \subseteq DOMAIN F /\ DOMAIN m.files \subseteq DOMAIN F
  BY <1>5, <1>7
<1>9. IsSession(y)
  BY <1>2, <1>4, <1>5, <1>6, <1>7, <1>8 DEF IsSession
<1> QED
  BY <1>0, <1>1, <1>4, <1>5, <1>9 DEF CommittedTo

(* A session leaves the directories safe. *)
LEMMA UnderSafe ==
    ASSUME NEW st, NEW disk, Under(st, disk)
    PROVE  Safe(disk)
  BY DEF Under, IsSession, CertainOn, Safe

(* A sync of the arena makes every page of the session certain. *)
LEMMA ArenaCertain ==
    ASSUME NEW st, NEW disk, Under(st, disk), NEW F, From(F, st)
    PROVE  CertainFiles(ArenaSynced(disk), F)
<1>1. SUFFICES ASSUME NEW id \in DOMAIN F, NEW i \in DOMAIN F[id].pages
               PROVE  CertainPage(ArenaSynced(disk), F[id].pages[i])
  BY DEF CertainFiles
<1>2. PICK p : p = F[id].pages[i]
  OBVIOUS
<1>3. PICK e : e = ArenaSynced(disk)
  OBVIOUS
<1>4. IsDisk(disk) /\ IsSession(st)
  BY DEF Under
<1>5. \A x \in Slot : e.page[x] = Flushed(disk.page[x])
  BY <1>3, <1>4, ArenaSyncs
<1>6. p.slot \in Slot
  BY <1>4, <1>2 DEF IsSession, IsManifest, HasPage, IsFiles, IsNode, IsPages, From, PageRef
<1>7. IsRecord(disk.page[p.slot], {"dirty", "may", "now"})
  BY <1>4, <1>6 DEF IsDisk, IsCell
<1>8. DirtyPage(disk, p)
  <2>1. CASE HasPage(st.com.files, id, i, p)
    BY <2>1 DEF Under, CertainAt, HasPage, CertainFiles, CertainPage, DirtyPage
  <2>2. CASE HasPage(st.files, id, i, p)
    BY <2>2 DEF Under, HasPage, DirtyFiles
  <2> QED
    BY <1>2, <2>1, <2>2 DEF From
<1>9. Flushed(disk.page[p.slot]).may = {p.val} /\ Flushed(disk.page[p.slot]).now = p.val
  BY <1>7, <1>8 DEF DirtyPage, Flushed, Cell
<1>10. CertainPage(e, p)
  BY <1>5, <1>6, <1>9 DEF CertainPage
<1> QED
  BY <1>2, <1>3, <1>10

(* Safe directories stay so when the flags, the files of the manifests *)
(* that the witness may select and their pages stay certain. *)
LEMMA SafeKept ==
    ASSUME NEW a, NEW b, Safe(a), IsDisk(b), b.anchor = a.anchor,
           Flags(a) => Flags(b),
           \A m \in a.anchor.may \cup {a.anchor.now} : m # NoManifest => FileKept(a, b, m),
           PagesKept(a, b, Slot)
    PROVE  Safe(b)
<1>1. ASSUME NEW m \in b.anchor.may \cup {b.anchor.now}, m # NoManifest
      PROVE  CertainOn(b, m)
  <2>1. CertainOn(a, m) /\ Manifest(m)
    BY <1>1 DEF Safe, IsDisk
  <2>2. PICK j \in {0, 1} : CertainAt(a, m, j)
    BY <2>1 DEF CertainOn
  <2>3. Flags(b) /\ FileIs(b, m, j)
    BY <1>1, <2>2 DEF CertainAt, FileKept
  <2>4. SlotsOf(m.files) \subseteq Slot
    BY <1>1, <2>1, SlotsInArena DEF Manifest, IsManifest
  <2>5. CertainAt(b, m, j)
    <3>1. PagesKept(a, b, SlotsOf(m.files))
      BY <2>4 DEF PagesKept
    <3> QED
      BY <2>2, <2>3, <3>1, CertainKept
  <2> QED
    BY <2>5 DEF CertainOn
<1> QED
  BY <1>1 DEF Safe

(* A sync of the arena keeps what is certain, whether it succeeds or not. *)
LEMMA ArenaKeeps ==
    ASSUME NEW disk, IsDisk(disk), NEW e, e \in {ArenaSynced(disk), ArenaSyncFailed(disk)}
    PROVE  (Flags(disk) => Flags(e)) /\ PagesKept(disk, e, Slot)
<1>1. IsCell(disk.len, BOOLEAN) /\ \A x \in Slot : IsRecord(disk.page[x], {"dirty", "may", "now"})
  BY DEF IsDisk, IsCell
<1>2. e.marker = disk.marker
  BY ArenaSyncs
<1>3. CASE e = ArenaSynced(disk)
  <2>1. e.len = Flushed(disk.len) /\ \A x \in Slot : e.page[x] = Flushed(disk.page[x])
    BY <1>3, ArenaSyncs
  <2>2. Flags(disk) => Flags(e)
    BY <1>1, <1>2, <2>1, FlagStays DEF Flags
  <2>3. PagesKept(disk, e, Slot)
    <3>1. SUFFICES ASSUME NEW x \in Slot, NEW v, disk.page[x].may = {v}, disk.page[x].now = v
                   PROVE  e.page[x].may = {v} /\ e.page[x].now = v
      BY DEF PagesKept
    <3> QED
      BY <1>1, <2>1, <3>1, CertainStays
  <2> QED
    BY <2>2, <2>3
<1>4. CASE e = ArenaSyncFailed(disk)
  <2>1. e.len = Unflushed(disk.len) /\ \A x \in Slot : e.page[x] = Unflushed(disk.page[x])
    BY <1>4, ArenaSyncs
  <2>2. Flags(disk) => Flags(e)
    BY <1>1, <1>2, <2>1, FlagStays DEF Flags
  <2>3. PagesKept(disk, e, Slot)
    <3>1. SUFFICES ASSUME NEW x \in Slot, NEW v, disk.page[x].may = {v}, disk.page[x].now = v
                   PROVE  e.page[x].may = {v} /\ e.page[x].now = v
      BY DEF PagesKept
    <3> QED
      BY <1>1, <2>1, <3>1, CertainStays
  <2> QED
    BY <2>2, <2>3
<1> QED
  BY <1>3, <1>4

(* A sync of the arena leaves the directories safe. *)
LEMMA SafeArena ==
    ASSUME NEW disk, Safe(disk), NEW e, e \in {ArenaSynced(disk), ArenaSyncFailed(disk)}
    PROVE  Safe(e)
<1>1. IsDisk(disk)
  BY DEF Safe
<1>2. (Flags(disk) => Flags(e)) /\ PagesKept(disk, e, Slot)
  BY <1>1, ArenaKeeps
<1>3. IsDisk(e) /\ e.man = disk.man /\ e.anchor = disk.anchor
  BY <1>1, ArenaSyncs
<1>4. \A m \in disk.anchor.may \cup {disk.anchor.now} : m # NoManifest => FileKept(disk, e, m)
  BY <1>3 DEF FileKept, FileIs
<1> QED
  BY <1>2, <1>3, <1>4, SafeKept

(* Pages and manifests are as certain as their cells say. *)
LEMMA CertainSame ==
    ASSUME NEW a, NEW b, b.page = a.page, b.len = a.len, b.marker = a.marker, b.man = a.man, NEW m, NEW j, NEW F
    PROVE  (CertainAt(a, m, j) => CertainAt(b, m, j)) /\ (CertainFiles(a, F) => CertainFiles(b, F))
<1>1. \A p : CertainPage(a, p) <=> CertainPage(b, p)
  BY DEF CertainPage
<1>2. \A G : CertainFiles(a, G) => CertainFiles(b, G)
  BY <1>1 DEF CertainFiles
<1>3. Flags(a) <=> Flags(b)
  BY DEF Flags
<1>4. FileIs(a, m, j) <=> FileIs(b, m, j)
  BY DEF FileIs
<1> QED
  BY <1>2, <1>3, <1>4 DEF CertainAt

(* The session t is st after a commit of c. *)
Committed(st, c, t) ==
    /\ t.com = NewManifest(st, c) /\ t.entries = st.entries /\ t.handles = st.handles /\ t.next = st.next /\ t.used = {}
    /\ t.files = Restrict(st.files, DOMAIN st.files \cap Retain(c, st))

(* What the witness may select after an outcome of a commit of c. *)
Selects(o, st, c) ==
    /\ \A m \in o.d.anchor.may \cup {o.d.anchor.now} : m = st.com \/ m = NewManifest(st, c)
    /\ o.d.anchor.may # {st.com} => Consistent(NewManifest(st, c))

(* Whatever becomes of a commit, what the witness may select is certain; *)
(* one that succeeds leaves its session over it. *)
LEMMA CommitOutcome ==
    ASSUME NEW st, NEW disk, Under(st, disk), NEW c, Candidate(st, c), NEW o \in Commit(st, disk, c)
    PROVE  /\ o.stop \in BOOLEAN /\ o.ok \in BOOLEAN /\ o.out \in {"ok", "invalid"}
           /\ o.stop => Safe(o.d) /\ o.s = NoSession /\ ~o.ok /\ o.out = "ok" /\ Selects(o, st, c)
           /\ o.ok => Under(o.s, o.d) /\ Committed(st, c, o.s) /\ o.out = "ok" /\ Consistent(o.s.com)
           /\ ~o.stop /\ ~o.ok => o.s = st /\ o.d = disk
           /\ o.out = "invalid" => ~Consistent(NewManifest(st, c))
<1>1. PICK m : m = NewManifest(st, c)
  OBVIOUS
<1>2. PICK j : j = 1 - st.slot
  OBVIOUS
<1>3. PICK e : e = ArenaSynced(disk)
  OBVIOUS
<1>4. PICK half : half = PutManifest(e, j, Wrote(e.man[j], NoManifest, NoManifest))
  OBVIOUS
<1>5. PICK written : written = PutManifest(e, j, Wrote(e.man[j], m, NoManifest))
  OBVIOUS
<1>6. PICK kept : kept = PutManifest(written, j, Flushed(written.man[j]))
  OBVIOUS
<1>7. /\ IsSession(st) /\ IsDisk(disk) /\ disk.anchor.now = st.com /\ disk.anchor.may = {st.com}
      /\ CertainAt(disk, st.com, st.slot) /\ st.slot \in {0, 1} /\ IsManifest(st.com)
  BY DEF Under, IsSession
<1>8. j \in {0, 1} /\ st.slot # j /\ 1 - j = st.slot
  BY <1>2, <1>7
<1>9. Safe(disk) /\ Safe(e) /\ IsDisk(e) /\ e.anchor = disk.anchor
  BY <1>3, <1>7, UnderSafe, SafeArena, ArenaSyncs
<1>10. ASSUME ~Fits(m), o = Refuse(st, disk)
       PROVE  ~o.stop /\ ~o.ok /\ o.s = st /\ o.d = disk /\ o.out = "ok"
  BY <1>10 DEF Refuse
<1>11. ASSUME ~Consistent(m), o = Inconsistent(Refuse(st, disk))
       PROVE  ~o.stop /\ ~o.ok /\ o.s = st /\ o.d = disk /\ o.out = "invalid"
  BY <1>11 DEF Refuse, Inconsistent
<1>12. ASSUME NEW x, o = Stop(x), Safe(x), x.anchor = disk.anchor
       PROVE  o.stop /\ Safe(o.d) /\ o.s = NoSession /\ ~o.ok /\ o.out = "ok" /\ Selects(o, st, c)
  BY <1>12, <1>7 DEF Stop, Selects
<1>13. ASSUME NEW x, IsDisk(x), x.anchor = e.anchor, x.page = e.page, x.len = e.len, x.marker = e.marker,
              x.man[1 - j] = e.man[1 - j]
       PROVE  Safe(x) /\ CertainAt(x, st.com, st.slot)
  <2>1. CertainAt(e, st.com, st.slot)
    <3>1. Flags(disk) /\ FileIs(disk, st.com, st.slot)
      BY <1>7 DEF CertainAt
    <3>2. e \in {ArenaSynced(disk), ArenaSyncFailed(disk)}
      BY <1>3
    <3>3. Flags(e) /\ PagesKept(disk, e, Slot) /\ e.man = disk.man
      BY <1>7, <3>1, <3>2, ArenaKeeps, ArenaSyncs
    <3>4. FileIs(e, st.com, st.slot)
      BY <3>1, <3>3 DEF FileIs
    <3>5. PagesKept(disk, e, SlotsOf(st.com.files))
      BY <1>7, SlotsInArena, <3>3 DEF IsManifest, PagesKept
    <3> QED
      BY <1>7, <3>3, <3>4, <3>5, CertainKept
  <2>2. CertainAt(x, st.com, st.slot)
    <3>1. CertainFiles(x, st.com.files)
      BY <1>13, <2>1 DEF CertainAt, CertainFiles, CertainPage
    <3>2. Flags(x) /\ FileIs(x, st.com, st.slot)
      BY <1>8, <1>13, <2>1 DEF CertainAt, Flags, FileIs
    <3> QED
      BY <3>1, <3>2 DEF CertainAt
  <2>3. CertainOn(x, st.com)
    BY <1>7, <2>2 DEF CertainOn
  <2>4. x.anchor.may = {st.com} /\ x.anchor.now = st.com
    BY <1>7, <1>9, <1>13
  <2> QED
    BY <1>13, <2>2, <2>3, <2>4 DEF Safe
<1>14. ASSUME Fits(m), Consistent(m), \/ o \in {Stop(disk), Stop(ArenaSyncFailed(disk)), Stop(half)}
              \/ o = Stop(kept)
              \/ o = Stop(PutManifest(written, j, Unflushed(written.man[j])))
              \/ o = Stop(PutAnchor(kept, Renamed(kept.anchor, m)))
              \/ o = Ok(CommitTo(st, m, Retain(c, st)), PutAnchor(kept, Stored(kept.anchor, m)))
       PROVE  /\ o.out = "ok" /\ o.ok = ~o.stop /\ o.stop \in BOOLEAN
              /\ o.stop => Safe(o.d) /\ o.s = NoSession /\ Selects(o, st, c)
              /\ o.ok => Under(o.s, o.d) /\ Committed(st, c, o.s) /\ Consistent(o.s.com)
  <2>1. PICK R : R = Retain(c, st)
    OBVIOUS
  <2>4. IsManifest(m) /\ From(m.files, st) /\ DOMAIN m.files = DOMAIN c.files \cap R
    BY <1>1, <1>7, <1>14, <2>1, CandidateManifest
  <2>5. Manifest(m) /\ Manifest(NoManifest) /\ IsManifestCell(e.man[j])
    BY <1>8, <1>9, <2>4 DEF Manifest, IsDisk
  <2>6. IsManifestCell(Wrote(e.man[j], NoManifest, NoManifest)) /\ IsManifestCell(Wrote(e.man[j], m, NoManifest))
    BY <2>5, ManifestCellsStay
  <2>7. /\ IsDisk(half) /\ half.anchor = e.anchor /\ half.page = e.page /\ half.len = e.len /\ half.marker = e.marker
        /\ half.man[1 - j] = e.man[1 - j]
    <3>1. PICK w : w = Wrote(e.man[j], NoManifest, NoManifest)
      OBVIOUS
    <3>2. half = PutManifest(e, j, w) /\ IsManifestCell(w) /\ IsDisk(e) /\ j \in {0, 1}
      BY <1>4, <1>8, <1>9, <2>6, <3>1
    <3> QED
      BY <3>2, ManifestPut
  <2>8. /\ IsDisk(written) /\ written.anchor = e.anchor /\ written.page = e.page /\ written.len = e.len
        /\ written.marker = e.marker /\ written.man[1 - j] = e.man[1 - j] /\ written.man[j] = Wrote(e.man[j], m, NoManifest)
    <3>1. PICK w : w = Wrote(e.man[j], m, NoManifest)
      OBVIOUS
    <3>2. written = PutManifest(e, j, w) /\ IsManifestCell(w) /\ IsDisk(e) /\ j \in {0, 1}
      BY <1>5, <1>8, <1>9, <2>6, <3>1
    <3>3. /\ IsDisk(written) /\ written.anchor = e.anchor /\ written.page = e.page /\ written.len = e.len
          /\ written.marker = e.marker /\ written.man[1 - j] = e.man[1 - j] /\ written.man[j] = w
      BY <3>2, ManifestPut
    <3> QED
      BY <3>1, <3>3
  <2>9. IsManifestCell(Flushed(written.man[j])) /\ IsManifestCell(Unflushed(written.man[j]))
    BY <2>5, <2>6, <2>8, ManifestCellsStay
  <2>10. PICK lost : lost = PutManifest(written, j, Unflushed(written.man[j]))
    OBVIOUS
  <2>11. /\ IsDisk(lost) /\ lost.anchor = e.anchor /\ lost.page = e.page /\ lost.len = e.len /\ lost.marker = e.marker
         /\ lost.man[1 - j] = e.man[1 - j]
    <3>1. PICK w : w = Unflushed(written.man[j])
      OBVIOUS
    <3>2. lost = PutManifest(written, j, w) /\ IsManifestCell(w) /\ IsDisk(written) /\ j \in {0, 1}
      BY <1>8, <2>8, <2>9, <2>10, <3>1
    <3>3. /\ IsDisk(lost) /\ lost.anchor = written.anchor /\ lost.page = written.page /\ lost.len = written.len
          /\ lost.marker = written.marker /\ lost.man[1 - j] = written.man[1 - j]
      BY <3>2, ManifestPut
    <3> QED
      BY <2>8, <3>3
  <2>12. /\ IsDisk(kept) /\ kept.anchor = e.anchor /\ kept.page = e.page /\ kept.len = e.len /\ kept.marker = e.marker
         /\ kept.man[1 - j] = e.man[1 - j] /\ kept.man[j] = Flushed(written.man[j])
    <3>1. PICK w : w = Flushed(written.man[j])
      OBVIOUS
    <3>2. kept = PutManifest(written, j, w) /\ IsManifestCell(w) /\ IsDisk(written) /\ j \in {0, 1}
      BY <1>6, <1>8, <2>8, <2>9, <3>1
    <3>3. /\ IsDisk(kept) /\ kept.anchor = written.anchor /\ kept.page = written.page /\ kept.len = written.len
          /\ kept.marker = written.marker /\ kept.man[1 - j] = written.man[1 - j] /\ kept.man[j] = w
      BY <3>2, ManifestPut
    <3> QED
      BY <2>8, <3>1, <3>3
  <2>13. FileIs(kept, m, j)
    BY <2>8, <2>12 DEF FileIs, Flushed, Wrote, Cell
  <2>14. Safe(kept) /\ CertainAt(kept, st.com, st.slot) /\ Safe(half) /\ Safe(lost)
    BY <1>13, <2>7, <2>11, <2>12
  <2>15. CertainFiles(kept, m.files) /\ CertainFiles(kept, st.files)
    <3>1. CertainFiles(e, m.files) /\ CertainFiles(e, st.files)
      BY <1>3, <2>4, ArenaCertain, OwnFrom
    <3> QED
      BY <2>12, <3>1 DEF CertainFiles, CertainPage
  <2>16. CertainAt(kept, m, j)
    BY <2>13, <2>14, <2>15 DEF CertainAt
  <2>17. CASE o \in {Stop(disk), Stop(ArenaSyncFailed(disk)), Stop(half)} \/ o = Stop(kept) \/ o = Stop(lost)
    <3>1. Safe(ArenaSyncFailed(disk)) /\ ArenaSyncFailed(disk).anchor = disk.anchor
      BY <1>7, <1>9, SafeArena, ArenaSyncs
    <3>2. PICK x : o = Stop(x) /\ Safe(x) /\ x.anchor = disk.anchor
      BY <1>9, <2>7, <2>11, <2>12, <2>14, <2>17, <3>1
    <3>3. o.stop /\ Safe(o.d) /\ o.s = NoSession /\ ~o.ok /\ o.out = "ok" /\ Selects(o, st, c)
      BY <1>12, <3>2
    <3>4. o.ok = FALSE /\ o.stop = TRUE
      BY <3>2 DEF Stop
    <3> QED
      BY <3>3, <3>4
  <2>18. CASE o = Stop(PutAnchor(kept, Renamed(kept.anchor, m)))
    <3>1. PICK a : a = Renamed(kept.anchor, m)
      OBVIOUS
    <3>2. PICK x : x = PutAnchor(kept, a)
      OBVIOUS
    <3>3. IsRecord(a, {"may", "now"}) /\ a.now = m /\ a.may = {st.com, m}
      BY <1>7, <1>9, <2>12, <3>1 DEF Renamed, IsRecord, IsMap
    <3>4. Manifest(a.now) /\ \A n \in a.may : Manifest(n)
      BY <1>7, <2>5, <3>3 DEF Manifest
    <3>5. IsDisk(x) /\ x.page = kept.page /\ x.len = kept.len /\ x.marker = kept.marker /\ x.man = kept.man /\ x.anchor = a
      BY <2>12, <3>2, <3>3, <3>4, AnchorPut
    <3>6. CertainAt(x, m, j) /\ CertainAt(x, st.com, st.slot)
      BY <2>14, <2>16, <3>5, CertainSame
    <3>7. Safe(x)
      BY <1>7, <1>8, <3>3, <3>5, <3>6 DEF Safe, CertainOn
    <3>8. o.stop = TRUE /\ o.d = x /\ o.s = NoSession /\ o.ok = FALSE /\ o.out = "ok"
      BY <2>18, <3>1, <3>2 DEF Stop
    <3>9. Selects(o, st, c)
      BY <1>1, <1>14, <3>3, <3>5, <3>8 DEF Selects
    <3> QED
      BY <3>7, <3>8, <3>9
  <2>19. CASE o = Ok(CommitTo(st, m, Retain(c, st)), PutAnchor(kept, Stored(kept.anchor, m)))
    <3>1. PICK a : a = Stored(kept.anchor, m)
      OBVIOUS
    <3>2. PICK x : x = PutAnchor(kept, a)
      OBVIOUS
    <3>3. IsRecord(a, {"may", "now"}) /\ a.now = m /\ a.may = {m}
      BY <3>1 DEF Stored, IsRecord, IsMap
    <3>4. Manifest(a.now) /\ \A n \in a.may : Manifest(n)
      BY <2>5, <3>3
    <3>5. IsDisk(x) /\ x.page = kept.page /\ x.len = kept.len /\ x.marker = kept.marker /\ x.man = kept.man /\ x.anchor = a
      BY <2>12, <3>2, <3>3, <3>4, AnchorPut
    <3>6. CertainAt(x, m, j) /\ CertainFiles(x, st.files)
      BY <2>15, <2>16, <3>5, CertainSame
    <3>7. PICK y : y = CommitTo(st, m, R)
      OBVIOUS
    <3>8. DOMAIN m.files \subseteq R /\ Linked(st.entries) \subseteq R /\ st.handles \subseteq R /\ DOMAIN m.files \subseteq DOMAIN st.files
      BY <2>1, <2>4 DEF Retain, Candidate
    <3>9. /\ IsSession(y) /\ y.com = m /\ y.slot = j /\ y.entries = st.entries /\ y.handles = st.handles
          /\ y.next = st.next /\ y.used = {} /\ y.files = Restrict(st.files, DOMAIN st.files \cap R)
          /\ DOMAIN y.files = DOMAIN st.files \cap R /\ \A id \in DOMAIN y.files : y.files[id] = st.files[id]
      <4>1. IsSession(st) /\ IsManifest(m) /\ From(m.files, st) /\ j \in {0, 1}
        BY <1>7, <1>8, <2>4
      <4>2. CommittedTo(st, m, R, y)
        BY <4>1, <3>7, <3>8, SessionCommitted
      <4> QED
        BY <1>2, <4>2 DEF CommittedTo
    <3>10. DirtyFiles(x, y.files)
      <4>1. SUFFICES ASSUME NEW id \in DOMAIN y.files, NEW i \in DOMAIN y.files[id].pages
                     PROVE  DirtyPage(x, y.files[id].pages[i])
        BY DEF DirtyFiles
      <4>2. id \in DOMAIN st.files /\ y.files[id] = st.files[id]
        BY <3>9
      <4>3. CertainPage(x, st.files[id].pages[i])
        BY <3>6, <4>2 DEF CertainFiles
      <4> QED
        BY <4>2, <4>3 DEF CertainPage, DirtyPage
    <3>11. Under(y, x)
      BY <3>3, <3>5, <3>6, <3>9, <3>10 DEF Under
    <3>12. o.stop = FALSE /\ o.ok = TRUE /\ o.s = y /\ o.d = x /\ o.out = "ok"
      BY <2>1, <2>19, <3>1, <3>2, <3>7 DEF Ok
    <3>13. Committed(st, c, y)
      BY <1>1, <2>1, <3>9 DEF Committed
    <3> QED
      BY <1>14, <3>9, <3>11, <3>12, <3>13
  <2> QED
    BY <1>14, <2>10, <2>17, <2>18, <2>19
<1> QED
  <2>1. \/ ~Fits(m) /\ o = Refuse(st, disk)
        \/ Fits(m) /\ ~Consistent(m) /\ o = Inconsistent(Refuse(st, disk))
        \/ Fits(m) /\ Consistent(m) /\ \/ o \in {Stop(disk), Stop(ArenaSyncFailed(disk)), Stop(half), Stop(kept)}
                                       \/ o = Stop(PutManifest(written, j, Unflushed(written.man[j])))
                                       \/ o = Stop(PutAnchor(kept, Renamed(kept.anchor, m)))
                                       \/ o = Ok(CommitTo(st, m, Retain(c, st)), PutAnchor(kept, Stored(kept.anchor, m)))
    BY <1>1, <1>2, <1>3, <1>4, <1>5, <1>6, <1>7 DEF Commit, NewManifest, PutManifest, PutAnchor, CommitTo
  <2>2. CASE ~Fits(m) /\ o = Refuse(st, disk)
    BY <2>2, <1>10 DEF Refuse
  <2>3. CASE Fits(m) /\ ~Consistent(m) /\ o = Inconsistent(Refuse(st, disk))
    BY <2>3, <1>1, <1>11 DEF Refuse, Inconsistent
  <2>4. CASE /\ Fits(m) /\ Consistent(m)
             /\ \/ o \in {Stop(disk), Stop(ArenaSyncFailed(disk)), Stop(half), Stop(kept)}
                \/ o = Stop(PutManifest(written, j, Unflushed(written.man[j])))
                \/ o = Stop(PutAnchor(kept, Renamed(kept.anchor, m)))
                \/ o = Ok(CommitTo(st, m, Retain(c, st)), PutAnchor(kept, Stored(kept.anchor, m)))
    BY <1>14, <2>4
  <2> QED
    BY <2>1, <2>2, <2>3, <2>4

-----------------------------------------------------------------------------
(* Nodes, and sessions whose files lose pages. *)

(* A nonempty set of naturals has a least member. *)
LEMMA LeastNat ==
    ASSUME NEW T \in SUBSET Nat, T # {}
    PROVE  \E x \in T : \A y \in T : x <= y
<1> DEFINE R == OpToRel(<, Nat)
<1>1. IsWellFoundedOn(R, Nat)
  BY NatLessThanWellFounded
<1>2. PICK x \in T : \A y \in T : ~(<<y, x>> \in R)
  BY <1>1, WFMin
<1>3. \A y \in T : ~(y < x)
  BY <1>2 DEF OpToRel
<1> QED
  BY <1>3

(* A bounded nonempty set of naturals has a greatest member. *)
LEMMA GreatestNat ==
    ASSUME NEW N \in Nat, NEW T \in SUBSET (0..N), T # {}
    PROVE  \E x \in T : \A y \in T : y <= x
<1> DEFINE U == {N - x : x \in T}
<1>0. PICK t \in T : t \in 0..N
  OBVIOUS
<1>1. U \in SUBSET Nat /\ U # {}
  BY <1>0
<1>2. PICK z \in U : \A y \in U : z <= y
  BY <1>1, LeastNat
<1>3. PICK x \in T : z = N - x
  OBVIOUS
<1>4. \A y \in T : z <= N - y
  BY <1>2
<1> QED
  BY <1>3, <1>4

(* Max is the greatest member. *)
LEMMA MaxIs ==
    ASSUME NEW N \in Nat, NEW T \in SUBSET (0..N), T # {}
    PROVE  Max(T) \in T /\ \A y \in T : y <= Max(T)
  BY GreatestNat DEF Max

(* Min is the least member. *)
LEMMA MinIs ==
    ASSUME NEW T \in SUBSET Nat, T # {}
    PROVE  Min(T) \in T /\ \A y \in T : Min(T) <= y
  BY LeastNat DEF Min


(* A range that is reserved for a file. *)
LEMMA WidenedIs ==
    ASSUME NEW node, IsNode(node), NEW range \in SUBSET Page
    PROVE  /\ IsNode(Widened(node, range)) /\ Widened(node, range).pages = node.pages
           /\ Widened(node, range).res = node.res \cup range
           /\ Widened(node, range).len = Max({node.len} \cup range)
           /\ node.len <= Max({node.len} \cup range) /\ \A i \in range : i <= Max({node.len} \cup range)
<1>1. /\ IsRecord(node, {"len", "pages", "res"}) /\ node.len \in 0..MaxPages /\ node.res \subseteq 1..node.len
      /\ IsPages(node.pages) /\ DOMAIN node.pages \subseteq node.res
  BY DEF IsNode
<1>2. MaxPages \in Nat /\ range \subseteq 1..MaxPages
  BY RollbackAssumption DEF Page
<1>3. PICK T : T = {node.len} \cup range
  OBVIOUS
<1>4. T \in SUBSET (0..MaxPages) /\ T # {}
  BY <1>1, <1>2, <1>3
<1>5. Max(T) \in T /\ \A y \in T : y <= Max(T)
  BY <1>2, <1>4, MaxIs
<1>6. PICK w : w = Widened(node, range)
  OBVIOUS
<1>7. IsRecord(w, {"len", "pages", "res"}) /\ w.len = Max(T) /\ w.res = node.res \cup range /\ w.pages = node.pages
  BY <1>1, <1>3, <1>6 DEF Widened, IsRecord, IsMap
<1>8. w.len \in 0..MaxPages /\ node.len <= w.len /\ \A i \in range : i <= w.len
  BY <1>3, <1>4, <1>5, <1>7
<1>9. w.res \subseteq 1..w.len
  <2>1. PICK n \in Nat : n = w.len
    BY <1>2, <1>8
  <2>2. PICK k \in Nat : k = node.len
    BY <1>1, <1>2
  <2>3. \A i \in node.res : i \in 1..k
    BY <1>1, <2>2
  <2>4. k <= n
    BY <1>8, <2>1, <2>2
  <2>5. \A i \in node.res : i \in 1..n
    BY <2>3, <2>4
  <2>6. \A i \in range : i \in 1..n
    BY <1>2, <1>8, <2>1
  <2> QED
    BY <1>7, <2>1, <2>5, <2>6
<1>10. IsNode(w)
  BY <1>1, <1>7, <1>8, <1>9 DEF IsNode
<1> QED
  BY <1>3, <1>6, <1>7, <1>8, <1>10

(* The fields of a session. *)
SessionFields == {"com", "entries", "files", "handles", "next", "slot", "used"}

(* Every page of F is one of G. *)
Within(F, G) == \A id \in DOMAIN F : \A i \in DOMAIN F[id].pages : HasPage(G, id, i, F[id].pages[i])

(* A session whose working files lost pages, or whose files only grew. The *)
(* set of slots in use is forgotten, unless no page was lost. *)
LEMMA FilesLose ==
    ASSUME NEW st, NEW disk, Under(st, disk), NEW y, IsRecord(y, SessionFields),
           y.com = st.com, y.entries = st.entries, y.handles = st.handles, y.next = st.next, y.slot = st.slot,
           IsFiles(y.files), DOMAIN y.files = DOMAIN st.files, Within(y.files, st.files),
           y.used = {} \/ (y.used = st.used /\ SlotsOf(y.files) = SlotsOf(st.files))
    PROVE  Under(y, disk)
  BY OwnFrom, ApartFrom DEF Under, From, Within, CommittedSlots, IsSession, SessionFields, DirtyFiles, HasPage

(* Files that have the same pages use the same slots. *)
LEMMA SamePages ==
    ASSUME NEW F, NEW G, DOMAIN F = DOMAIN G, \A id \in DOMAIN F : F[id].pages = G[id].pages
    PROVE  SlotsOf(F) = SlotsOf(G) /\ Within(F, G)
<1>1. \A x : x \in SlotsOf(F) <=> x \in SlotsOf(G)
  BY SlotsAre
<1>2. Within(F, G)
  BY DEF Within, HasPage
<1> QED
  BY <1>1, <1>2

(* A change of the node of one file. *)
LEMMA NodeChanged ==
    ASSUME NEW F, IsFiles(F), NEW id \in DOMAIN F, NEW n, IsNode(n), NEW G, G = [F EXCEPT ![id] = n]
    PROVE  IsFiles(G) /\ DOMAIN G = DOMAIN F /\ G[id] = n /\ \A k \in DOMAIN F \ {id} : G[k] = F[k]
  BY DEF IsFiles, IsMap

(* The node of file id in session st is changed to n. *)
PutNode(st, id, n) == [st EXCEPT !.files[id] = n]

(* Such a change, field by field. *)
LEMMA NodePut ==
    ASSUME NEW st, IsSession(st), NEW id \in DOMAIN st.files, NEW n, IsNode(n), NEW y, y = PutNode(st, id, n)
    PROVE  /\ IsRecord(y, SessionFields) /\ y.com = st.com /\ y.entries = st.entries /\ y.handles = st.handles
           /\ y.next = st.next /\ y.slot = st.slot /\ y.used = st.used /\ IsFiles(y.files)
           /\ DOMAIN y.files = DOMAIN st.files /\ y.files[id] = n /\ \A k \in DOMAIN st.files \ {id} : y.files[k] = st.files[k]
  BY NodeChanged DEF IsSession, SessionFields, PutNode, IsRecord, IsMap

-----------------------------------------------------------------------------
(* Reservations. *)

(* An outcome that stops leaves the directories safe; one that does not, *)
(* leaves them under its session. *)
Good(o) ==
    /\ o.stop \in BOOLEAN /\ o.ok \in BOOLEAN /\ o.out \in {"ok", "invalid"}
    /\ o.stop => Safe(o.d) /\ o.s = NoSession /\ ~o.ok
    /\ ~o.stop => Under(o.s, o.d)

(* Session t has the files of st that it has as st has them. *)
Keeps(st, t) ==
    /\ t.handles = st.handles /\ t.entries = st.entries /\ t.next = st.next
    /\ DOMAIN t.files \subseteq DOMAIN st.files /\ \A id \in DOMAIN t.files : t.files[id] = st.files[id]

(* Plain outcomes are good. *)
LEMMA PlainOutcomes ==
    ASSUME NEW st, NEW disk
    PROVE  /\ Under(st, disk) => Good(Ok(st, disk)) /\ Good(Refuse(st, disk)) /\ Good(Inconsistent(Refuse(st, disk)))
           /\ Safe(disk) => Good(Stop(disk)) /\ Good(Inconsistent(Stop(disk)))
           /\ Ok(st, disk).ok /\ Ok(st, disk).s = st /\ Ok(st, disk).d = disk /\ Ok(st, disk).out = "ok" /\ ~Ok(st, disk).stop
           /\ ~Refuse(st, disk).ok /\ ~Inconsistent(Refuse(st, disk)).ok
           /\ ~Stop(disk).ok /\ ~Inconsistent(Stop(disk)).ok
  BY DEF Good, Ok, Refuse, Inconsistent, Stop

(* The two sessions of a commit. *)
LEMMA CommitGood ==
    ASSUME NEW st, NEW disk, Under(st, disk), NEW c, Candidate(st, c), NEW o \in Commit(st, disk, c)
    PROVE  Good(o) /\ (o.ok => Keeps(st, o.s) /\ Committed(st, c, o.s) /\ Consistent(o.s.com))
<1>1. /\ o.stop \in BOOLEAN /\ o.ok \in BOOLEAN /\ o.out \in {"ok", "invalid"}
      /\ o.stop => Safe(o.d) /\ o.s = NoSession /\ ~o.ok
      /\ o.ok => Under(o.s, o.d) /\ Committed(st, c, o.s) /\ Consistent(o.s.com)
      /\ ~o.stop /\ ~o.ok => o.s = st /\ o.d = disk
  BY CommitOutcome
<1>2. Good(o)
  BY <1>1 DEF Good
<1>3. ASSUME o.ok
      PROVE  Keeps(st, o.s)
  BY <1>1, <1>3, RestrictIs DEF Committed, Keeps
<1> QED
  BY <1>1, <1>2, <1>3

(* reclaim_closed_files commits what is committed. *)
LEMMA ComCandidate ==
    ASSUME NEW st, IsSession(st)
    PROVE  Candidate(st, st.com)
  BY OwnFrom DEF IsSession, IsManifest, Candidate

(* Whatever becomes of reclaim_closed_files. *)
LEMMA ReclaimGood ==
    ASSUME NEW st, NEW disk, Under(st, disk), NEW o \in ReclaimClosedFiles(st, disk)
    PROVE  Good(o) /\ (o.ok => Keeps(st, o.s))
  BY PlainOutcomes, ComCandidate, CommitGood DEF Under, Keeps, ReclaimClosedFiles

(* A session in which a range is reserved for an open file. *)
LEMMA WidenUnder ==
    ASSUME NEW st, NEW disk, Under(st, disk), NEW id \in DOMAIN st.files, NEW range \in SUBSET Page,
           NEW n, n = Widened(st.files[id], range), NEW y, y = PutNode(st, id, n)
    PROVE  /\ Under(y, disk) /\ y.com = st.com /\ y.handles = st.handles /\ y.entries = st.entries /\ y.next = st.next
           /\ y.slot = st.slot /\ DOMAIN y.files = DOMAIN st.files /\ y.files[id] = n
           /\ \A k \in DOMAIN st.files \ {id} : y.files[k] = st.files[k]
<1>1. IsSession(st) /\ IsNode(st.files[id])
  BY DEF Under, IsSession, IsFiles
<1>3. IsNode(n) /\ n.pages = st.files[id].pages
  BY <1>1, WidenedIs
<1>4. /\ IsRecord(y, SessionFields) /\ y.com = st.com /\ y.entries = st.entries /\ y.handles = st.handles
      /\ y.next = st.next /\ y.slot = st.slot /\ y.used = st.used /\ IsFiles(y.files)
      /\ DOMAIN y.files = DOMAIN st.files /\ y.files[id] = n /\ \A k \in DOMAIN st.files \ {id} : y.files[k] = st.files[k]
  BY <1>1, <1>3, NodePut
<1>5. \A k \in DOMAIN y.files : y.files[k].pages = st.files[k].pages
  BY <1>3, <1>4
<1>6. SlotsOf(y.files) = SlotsOf(st.files) /\ Within(y.files, st.files)
  BY <1>4, <1>5, SamePages
<1>7. Under(y, disk)
  BY <1>4, <1>6, FilesLose
<1> QED
  BY <1>4, <1>7

(* The node of a file that may not be there. *)
LEMMA NodeOfIs ==
    ASSUME NEW F, IsFiles(F), NEW id
    PROVE  /\ IsNode(NodeOf(F, id)) /\ (id \in DOMAIN F => NodeOf(F, id) = F[id])
           /\ id \notin DOMAIN F => NodeOf(F, id).len = 0 /\ NodeOf(F, id).res = {} /\ DOMAIN NodeOf(F, id).pages = {}
  BY RollbackAssumption DEF EmptyNode, IsRecord, IsMap, IsPages, IsNode, NodeOf, IsFiles

(* The candidate with the files of c and file id as n. *)
Claim(c, id, n) == [c EXCEPT !.files = Insert(@, id, n)]

(* What sync_data and reserve hand to commit: the committed manifest with *)
(* another node for an open file, whose pages are the session's. *)
LEMMA ClaimCandidate ==
    ASSUME NEW st, IsSession(st), NEW id \in DOMAIN st.files, NEW n, IsNode(n),
           \A i \in DOMAIN n.pages : HasPage(st.com.files, id, i, n.pages[i]) \/ HasPage(st.files, id, i, n.pages[i]),
           NEW c, c = Claim(st.com, id, n)
    PROVE  /\ Candidate(st, c) /\ c.entries = st.com.entries /\ c.next = st.com.next /\ c.gen = st.com.gen
           /\ DOMAIN c.files = DOMAIN st.com.files \cup {id} /\ c.files[id] = n
           /\ \A k \in DOMAIN st.com.files \ {id} : c.files[k] = st.com.files[k]
<1>1. /\ IsManifest(st.com) /\ IsFiles(st.files) /\ DOMAIN st.com.files \subseteq DOMAIN st.files
  BY DEF IsSession
<1>2. /\ IsRecord(st.com, {"entries", "files", "gen", "next"}) /\ IsEntries(st.com.entries) /\ IsFiles(st.com.files)
  BY <1>1 DEF IsManifest
<1>3. PICK F : F = Insert(st.com.files, id, n)
  OBVIOUS
<1>4. IsMap(F) /\ DOMAIN F = DOMAIN st.com.files \cup {id} /\ F[id] = n /\ \A k \in DOMAIN st.com.files \ {id} : F[k] = st.com.files[k]
  BY <1>3 DEF Insert, IsMap
<1>5. /\ IsRecord(c, {"entries", "files", "gen", "next"}) /\ c.files = F /\ c.entries = st.com.entries
      /\ c.next = st.com.next /\ c.gen = st.com.gen
  BY <1>2, <1>3 DEF Claim, IsRecord, IsMap
<1>6. IsFiles(F)
  BY <1>1, <1>2, <1>4 DEF IsFiles
<1>7. From(F, st)
  BY <1>4 DEF From, HasPage
<1> QED
  BY <1>1, <1>2, <1>4, <1>5, <1>6, <1>7 DEF Candidate

(* After a successful commit of a claim the file is committed as claimed. *)
LEMMA ClaimCommitted ==
    ASSUME NEW st, IsSession(st), NEW c, Candidate(st, c), NEW t, Committed(st, c, t), Consistent(t.com),
           NEW id \in DOMAIN c.files, id \in st.handles
    PROVE  id \in DOMAIN t.com.files /\ t.com.files[id] = c.files[id]
  BY CandidateManifest DEF Committed, Retain

(* A session in which range is reserved for file id, as committed too. *)
HasRange(t, id, range) ==
    /\ id \in t.handles /\ id \in DOMAIN t.files /\ range \subseteq t.files[id].res
    /\ range \subseteq NodeOf(t.com.files, id).res

(* Whatever becomes of reserve; its success reserves the range. *)
LEMMA WidenedSession ==
    ASSUME NEW st, NEW disk, Under(st, disk), NEW id \in st.handles, NEW range \in SUBSET Page,
           range \subseteq NodeOf(st.com.files, id).res,
           NEW o, o = Ok(PutNode(st, id, Widened(st.files[id], range)), disk)
    PROVE  Good(o) /\ o.ok /\ HasRange(o.s, id, range) /\ o.s.handles = st.handles
<1>1. id \in DOMAIN st.files /\ IsNode(st.files[id]) /\ IsRecord(st, SessionFields) /\ IsFiles(st.files)
  BY DEF Under, IsSession, IsFiles, SessionFields
<1>2. PICK n : n = Widened(st.files[id], range)
  OBVIOUS
<1>3. PICK y : y = PutNode(st, id, n)
  OBVIOUS
<1>5. Under(y, disk) /\ y.com = st.com /\ y.handles = st.handles /\ DOMAIN y.files = DOMAIN st.files /\ y.files[id] = n
  BY <1>1, <1>2, <1>3, WidenUnder, SMTT(30)
<1>6. n.res = st.files[id].res \cup range
  BY <1>1, <1>2, WidenedIs
<1>7. o = Ok(y, disk)
  BY <1>2, <1>3
<1>8. Good(o) /\ o.ok /\ o.s = y
  BY <1>5, <1>7, PlainOutcomes
<1>9. HasRange(y, id, range)
  BY <1>1, <1>5, <1>6 DEF HasRange
<1> QED
  BY <1>5, <1>8, <1>9

(* The session st with range reserved for file id. *)
Widen(st, id, range) == [st EXCEPT !.files[id] = Widened(@, range)]

(* What reserve does after q, an outcome of reclaim_closed_files. *)
ClaimEnds(q, id, range, o) ==
    \E p \in Commit(q.s, q.d, Claim(q.s.com, id, Widened(NodeOf(q.s.com.files, id), range))) :
        \/ ~p.ok /\ o = p
        \/ p.ok /\ o = Ok(Widen(p.s, id, range), p.d)

ReserveEnds(q, id, range, o) ==
    \/ ~q.ok /\ o = q
    \/ q.ok /\ Cardinality(Coordinates(q.s) \cup {id} \X range) > Capacity /\ o = Refuse(q.s, q.d)
    \/ /\ q.ok /\ ~(Cardinality(Coordinates(q.s) \cup {id} \X range) > Capacity)
       /\ \/ range \subseteq NodeOf(q.s.com.files, id).res /\ o = Ok(Widen(q.s, id, range), q.d)
          \/ ClaimEnds(q, id, range, o)

(* The outcomes of reserve. *)
LEMMA ReserveCases ==
    ASSUME NEW st, NEW disk, NEW id, NEW range, NEW o \in Reserve(st, disk, id, range)
    PROVE  \/ range \subseteq NodeOf(st.com.files, id).res /\ o = Ok(Widen(st, id, range), disk)
           \/ \E q \in ReclaimClosedFiles(st, disk) : ReserveEnds(q, id, range, o)
<1>1. CASE range \subseteq NodeOf(st.com.files, id).res /\ range \subseteq st.files[id].res
  BY <1>1 DEF Reserve, Widen
<1>2. CASE ~(range \subseteq NodeOf(st.com.files, id).res /\ range \subseteq st.files[id].res)
  <2>1. o \in Then(ReclaimClosedFiles(st, disk), LAMBDA q :
               IF Cardinality(Coordinates(q.s) \cup {id} \X range) > Capacity
               THEN {Refuse(q.s, q.d)}
               ELSE IF range \subseteq NodeOf(q.s.com.files, id).res THEN {Ok(Widen(q.s, id, range), q.d)}
               ELSE Then(Commit(q.s, q.d, Claim(q.s.com, id, Widened(NodeOf(q.s.com.files, id), range))),
                         LAMBDA p : {Ok(Widen(p.s, id, range), p.d)}))
    BY <1>2 DEF Reserve, Widen, Claim
  <2>2. PICK q \in ReclaimClosedFiles(st, disk) : o \in IF q.ok THEN
               IF Cardinality(Coordinates(q.s) \cup {id} \X range) > Capacity
               THEN {Refuse(q.s, q.d)}
               ELSE IF range \subseteq NodeOf(q.s.com.files, id).res THEN {Ok(Widen(q.s, id, range), q.d)}
               ELSE Then(Commit(q.s, q.d, Claim(q.s.com, id, Widened(NodeOf(q.s.com.files, id), range))),
                         LAMBDA p : {Ok(Widen(p.s, id, range), p.d)})
               ELSE {q}
    BY <2>1 DEF Then
  <2>3. ASSUME o \in Then(Commit(q.s, q.d, Claim(q.s.com, id, Widened(NodeOf(q.s.com.files, id), range))),
                         LAMBDA p : {Ok(Widen(p.s, id, range), p.d)})
        PROVE  ClaimEnds(q, id, range, o)
    BY <2>3 DEF Then, ClaimEnds
  <2> QED
    BY <2>2, <2>3 DEF ReserveEnds
<1> QED
  BY <1>1, <1>2

(* Widen changes one node. *)
LEMMA WidenIsPut ==
    ASSUME NEW st, IsSession(st), NEW id \in DOMAIN st.files, NEW range
    PROVE  Widen(st, id, range) = PutNode(st, id, Widened(st.files[id], range))
  BY DEF IsSession, SessionFields, Widen, PutNode, IsRecord, IsMap

(* Whatever becomes of reserve, the witness selects what is certain; after *)
(* a success the range is reserved, as committed and in the session. *)
LEMMA ReserveGood ==
    ASSUME NEW st, NEW disk, Under(st, disk), NEW id \in st.handles, NEW range \in SUBSET Page,
           NEW o \in Reserve(st, disk, id, range)
    PROVE  Good(o) /\ (o.ok => HasRange(o.s, id, range) /\ o.s.handles = st.handles)
<1>1. ASSUME NEW t, NEW e, Under(t, e), t.handles = st.handles, range \subseteq NodeOf(t.com.files, id).res,
             o = Ok(Widen(t, id, range), e)
      PROVE  Good(o) /\ o.ok /\ HasRange(o.s, id, range) /\ o.s.handles = st.handles
  <2>1. IsSession(t) /\ id \in t.handles /\ id \in DOMAIN t.files
    BY <1>1 DEF Under, IsSession
  <2>2. o = Ok(PutNode(t, id, Widened(t.files[id], range)), e)
    BY <1>1, <2>1, WidenIsPut
  <2> QED
    BY <1>1, <2>1, <2>2, WidenedSession
<1>2. CASE range \subseteq NodeOf(st.com.files, id).res /\ o = Ok(Widen(st, id, range), disk)
  BY <1>1, <1>2
<1>3. ASSUME NEW q \in ReclaimClosedFiles(st, disk), ~q.ok, o = q
      PROVE  Good(o) /\ ~o.ok
  BY <1>3, ReclaimGood
<1>4. ASSUME NEW q \in ReclaimClosedFiles(st, disk), q.ok
      PROVE  Under(q.s, q.d) /\ q.s.handles = st.handles /\ Keeps(st, q.s)
  BY <1>4, ReclaimGood DEF Good, Keeps
<1>5. ASSUME NEW q \in ReclaimClosedFiles(st, disk), q.ok, o = Refuse(q.s, q.d)
      PROVE  Good(o) /\ ~o.ok
  BY <1>4, <1>5, PlainOutcomes
<1>6. ASSUME NEW q \in ReclaimClosedFiles(st, disk), q.ok, range \subseteq NodeOf(q.s.com.files, id).res,
             o = Ok(Widen(q.s, id, range), q.d)
      PROVE  Good(o) /\ o.ok /\ HasRange(o.s, id, range) /\ o.s.handles = st.handles
  BY <1>1, <1>4, <1>6
<1>7. ASSUME NEW q \in ReclaimClosedFiles(st, disk), q.ok,
             NEW p \in Commit(q.s, q.d, Claim(q.s.com, id, Widened(NodeOf(q.s.com.files, id), range))),
             (~p.ok /\ o = p) \/ (p.ok /\ o = Ok(Widen(p.s, id, range), p.d))
      PROVE  Good(o) /\ (o.ok => HasRange(o.s, id, range) /\ o.s.handles = st.handles)
  <2>1. PICK t, e : t = q.s /\ e = q.d
    OBVIOUS
  <2>2. Under(t, e) /\ t.handles = st.handles /\ IsSession(t) /\ id \in DOMAIN t.files /\ IsFiles(t.com.files)
    BY <1>4, <1>7, <2>1 DEF Under, IsSession, IsManifest
  <2>3. PICK b : b = NodeOf(t.com.files, id)
    OBVIOUS
  <2>4. PICK n : n = Widened(b, range)
    OBVIOUS
  <2>5. PICK c : c = Claim(t.com, id, n)
    OBVIOUS
  <2>6. /\ IsNode(b) /\ (id \in DOMAIN t.com.files => b = t.com.files[id])
        /\ id \notin DOMAIN t.com.files => DOMAIN b.pages = {}
    BY <2>2, <2>3, NodeOfIs
  <2>7. IsNode(n) /\ n.pages = b.pages /\ range \subseteq n.res
    <3>1. n.res = b.res \cup range
      BY <2>4, <2>6, WidenedIs
    <3> QED
      BY <2>4, <2>6, <3>1, WidenedIs
  <2>8. \A i \in DOMAIN n.pages : HasPage(t.com.files, id, i, n.pages[i]) \/ HasPage(t.files, id, i, n.pages[i])
    BY <2>6, <2>7 DEF HasPage
  <2>9. Candidate(t, c) /\ id \in DOMAIN c.files /\ c.files[id] = n
    <3>1. /\ Candidate(t, c) /\ DOMAIN c.files = DOMAIN t.com.files \cup {id} /\ c.files[id] = n
      BY <2>2, <2>5, <2>7, <2>8, ClaimCandidate
    <3> QED
      BY <3>1
  <2>10. p \in Commit(t, e, c)
    BY <1>7, <2>1, <2>3, <2>4, <2>5
  <2>11. Good(p) /\ (p.ok => Keeps(t, p.s) /\ Committed(t, c, p.s) /\ Consistent(p.s.com))
    BY <2>2, <2>9, <2>10, CommitGood
  <2>12. CASE ~p.ok /\ o = p
    BY <2>11, <2>12
  <2>13. CASE p.ok /\ o = Ok(Widen(p.s, id, range), p.d)
    BY <2>11, <2>13, <2>2, <2>9, ClaimCommitted, <2>7, <1>1 DEF Good, NodeOf, Keeps
  <2> QED
    BY <1>7, <2>12, <2>13
<1>8. ASSUME NEW q \in ReclaimClosedFiles(st, disk), ReserveEnds(q, id, range, o)
      PROVE  Good(o) /\ (o.ok => HasRange(o.s, id, range) /\ o.s.handles = st.handles)
  BY <1>3, <1>5, <1>6, <1>7, <1>8 DEF ClaimEnds, ReserveEnds
<1> QED
  BY <1>2, <1>8, ReserveCases

-----------------------------------------------------------------------------
(* Reads and writes of a page. *)

(* A read changes nothing, or stops the session. *)
LEMMA ReadGood ==
    ASSUME NEW st, NEW disk, Under(st, disk), NEW id, NEW i, NEW o \in ReadPage(st, disk, id, i)
    PROVE  Good(o) /\ (o.ok => o = Ok(st, disk))
  BY UnderSafe, PlainOutcomes DEF ReadPage

(* The set of slots in use is exact. *)
LEMMA UsedSlotsIs ==
    ASSUME NEW st, IsSession(st)
    PROVE  UsedSlots(st).slots = CommittedSlots(st) \cup SlotsOf(st.files) /\ UsedSlots(st).hint \in Nat
  BY DEF UsedSlots, IsSession

(* The first free slot is free. *)
LEMMA FirstFreeIs ==
    ASSUME NEW u, u.hint \in Nat, ~(Slot \subseteq u.slots)
    PROVE  FirstFree(u) \in Slot /\ FirstFree(u) \notin u.slots
  BY RollbackAssumption, MinIs DEF Slot, FirstFree

(* A slot that page i of file id may be written to. *)
MayWrite(st, id, i, x) ==
    /\ x \in Slot /\ x \notin CommittedSlots(st)
    /\ \A k \in DOMAIN st.files : \A j \in DOMAIN st.files[k].pages : st.files[k].pages[j].slot = x => k = id /\ j = i

(* The slot that write_page chooses is one. *)
LEMMA ChosenSlot ==
    ASSUME NEW st, IsSession(st), NEW id \in DOMAIN st.files, NEW i,
           OwnSlot(st, id, i) # {} \/ ~(Slot \subseteq UsedSlots(st).slots),
           NEW x, x = IF OwnSlot(st, id, i) # {} THEN CHOOSE y \in OwnSlot(st, id, i) : TRUE ELSE FirstFree(UsedSlots(st))
    PROVE  /\ MayWrite(st, id, i, x)
           /\ OwnSlot(st, id, i) # {} => i \in DOMAIN st.files[id].pages /\ st.files[id].pages[i].slot = x
           /\ OwnSlot(st, id, i) = {} => /\ x \notin SlotsOf(st.files)
                                         /\ i \in DOMAIN st.files[id].pages => st.files[id].pages[i].slot \in CommittedSlots(st)
<1>1. SlotsOf(st.files) \subseteq Slot
  BY SlotsInArena DEF IsSession
<1>2. CASE OwnSlot(st, id, i) # {}
  <2>1. x \in OwnSlot(st, id, i)
    BY <1>2
  <2>2. i \in DOMAIN st.files[id].pages /\ st.files[id].pages[i].slot = x /\ x \notin CommittedSlots(st)
    BY <2>1 DEF OwnSlot
  <2>3. x \in SlotsOf(st.files)
    BY <2>2, SlotsAre
  <2>4. Apart(st.files, st.files)
    BY DEF IsSession
  <2>5. ASSUME NEW k \in DOMAIN st.files, NEW j \in DOMAIN st.files[k].pages, st.files[k].pages[j].slot = x
        PROVE  k = id /\ j = i
    BY <2>2, <2>4, <2>5 DEF Apart
  <2>6. MayWrite(st, id, i, x)
    BY <1>1, <2>2, <2>3, <2>5 DEF MayWrite
  <2> QED
    BY <1>2, <2>2, <2>6
<1>3. CASE OwnSlot(st, id, i) = {}
  <2>1. PICK u : u = UsedSlots(st)
    OBVIOUS
  <2>2. u.slots = CommittedSlots(st) \cup SlotsOf(st.files) /\ u.hint \in Nat
    BY <2>1, UsedSlotsIs
  <2>3. x = FirstFree(u) /\ ~(Slot \subseteq u.slots)
    BY <1>3, <2>1
  <2>4. x \in Slot /\ x \notin u.slots
    BY <2>2, <2>3, FirstFreeIs
  <2>5. MayWrite(st, id, i, x)
    <3>1. ASSUME NEW k \in DOMAIN st.files, NEW j \in DOMAIN st.files[k].pages, st.files[k].pages[j].slot = x
          PROVE  FALSE
      BY <3>1, SlotsAre, <2>2, <2>4
    <3> QED
      BY <2>2, <2>4, <3>1 DEF MayWrite
  <2>6. i \in DOMAIN st.files[id].pages => st.files[id].pages[i].slot \in CommittedSlots(st)
    BY <1>3 DEF OwnSlot
  <2> QED
    BY <1>3, <2>2, <2>4, <2>5, <2>6
<1> QED
  BY <1>2, <1>3

(* A write of a slot that may be written keeps what the witness selects. *)
LEMMA SlotWritten ==
    ASSUME NEW st, NEW disk, Under(st, disk), NEW id, NEW i, NEW x, MayWrite(st, id, i, x), NEW v \in PageValue,
           NEW e, e = PutPage(disk, x, Wrote(disk.page[x], v, Torn))
    PROVE  /\ Safe(e) /\ IsDisk(e) /\ e.anchor = disk.anchor /\ CertainAt(e, st.com, st.slot)
           /\ e.page[x].now = v /\ e.page[x].dirty /\ \A y \in Slot \ {x} : e.page[y] = disk.page[y]
<1>1. x \in Slot /\ x \notin CommittedSlots(st)
  BY DEF MayWrite
<1>2. IsDisk(disk) /\ IsSession(st) /\ IsManifest(st.com) /\ st.slot \in {0, 1}
  BY DEF Under, IsSession
<1>3. PICK w : w = Wrote(disk.page[x], v, Torn)
  OBVIOUS
<1>4. IsCell(w, PageValue) /\ w.now = v /\ w.dirty
  BY <1>1, <1>2, <1>3, CellsStay DEF IsDisk, PageValue, Wrote
<1>5. /\ IsDisk(e) /\ e.len = disk.len /\ e.marker = disk.marker /\ e.man = disk.man /\ e.anchor = disk.anchor
      /\ e.page[x] = w /\ \A y \in Slot \ {x} : e.page[y] = disk.page[y]
  BY <1>3, <1>1, <1>2, <1>4, PagePut
<1>6. CertainAt(disk, st.com, st.slot)
  BY DEF Under
<1>7. Flags(e) /\ FileIs(e, st.com, st.slot)
  BY <1>5, <1>6 DEF CertainAt, Flags, FileIs
<1>8. PagesKept(disk, e, SlotsOf(st.com.files))
  BY <1>2, SlotsInArena, <1>1, <1>5 DEF IsManifest, CommittedSlots, PagesKept
<1>9. CertainAt(e, st.com, st.slot)
  BY <1>2, <1>6, <1>7, <1>8, CertainKept
<1>10. Safe(e)
  BY <1>2, <1>9, <1>5 DEF CertainOn, Under, Safe
<1> QED
  BY <1>4, <1>5, <1>9, <1>10

(* Node n with page i at reference ref. *)
WithPage(n, i, ref) == [n EXCEPT !.pages = Insert(@, i, ref)]

(* Such a node. *)
LEMMA WithPageIs ==
    ASSUME NEW n, IsNode(n), NEW i \in n.res, NEW ref \in PageRef, NEW w, w = WithPage(n, i, ref)
    PROVE  /\ IsNode(w) /\ w.len = n.len /\ w.res = n.res /\ DOMAIN w.pages = DOMAIN n.pages \cup {i} /\ w.pages[i] = ref
           /\ \A j \in DOMAIN n.pages \ {i} : w.pages[j] = n.pages[j]
  BY DEF IsNode, Insert, IsMap, WithPage, IsRecord, IsPages

(* Session st with the node of file id and the set of used slots replaced. *)
PutWith(st, id, n, used) == [st EXCEPT !.files[id] = n, !.used = used]

(* Such a session. *)
LEMMA PutWithIs ==
    ASSUME NEW st, IsSession(st), NEW id \in DOMAIN st.files, NEW n, IsNode(n), NEW used, NEW y, y = PutWith(st, id, n, used)
    PROVE  /\ IsRecord(y, SessionFields) /\ y.com = st.com /\ y.entries = st.entries /\ y.handles = st.handles
           /\ y.next = st.next /\ y.slot = st.slot /\ y.used = used /\ IsFiles(y.files)
           /\ DOMAIN y.files = DOMAIN st.files /\ y.files[id] = n /\ \A k \in DOMAIN st.files \ {id} : y.files[k] = st.files[k]
  BY NodeChanged DEF IsSession, SessionFields, PutWith, IsRecord, IsMap

(* How the cached set of slots in use may change with a write to slot x. *)
UsedAfter(st, id, i, x, used) ==
    \/ used = st.used /\ i \in DOMAIN st.files[id].pages /\ st.files[id].pages[i].slot = x
    \/ /\ used = {[slots |-> CommittedSlots(st) \cup SlotsOf(st.files) \cup {x}, hint |-> x + 1]}
       /\ i \in DOMAIN st.files[id].pages => st.files[id].pages[i].slot \in CommittedSlots(st)

(* The session after a page was written to slot x. *)
LEMMA SessionWritten ==
    ASSUME NEW st, NEW disk, Under(st, disk), NEW id \in DOMAIN st.files, NEW i \in st.files[id].res,
           NEW x, MayWrite(st, id, i, x), NEW v \in Val \cup {Zero}, NEW used, UsedAfter(st, id, i, x, used),
           NEW e, e = PutPage(disk, x, Wrote(disk.page[x], v, Torn)),
           NEW ref, ref = [slot |-> x, val |-> v], NEW n, n = WithPage(st.files[id], i, ref),
           NEW y, y = PutWith(st, id, n, used)
    PROVE  Under(y, e)
<1>1. IsSession(st) /\ IsDisk(disk) /\ IsNode(st.files[id]) /\ x \in Slot /\ x \notin CommittedSlots(st)
  BY DEF Under, IsSession, IsFiles, MayWrite
<1>2. ref \in PageRef /\ ref.slot = x /\ ref.val = v
  BY <1>1 DEF PageRef
<1>3. /\ IsNode(n) /\ DOMAIN n.pages = DOMAIN st.files[id].pages \cup {i} /\ n.pages[i] = ref
      /\ \A j \in DOMAIN st.files[id].pages \ {i} : n.pages[j] = st.files[id].pages[j]
  BY <1>1, <1>2, WithPageIs
<1>4. /\ IsRecord(y, SessionFields) /\ y.com = st.com /\ y.entries = st.entries /\ y.handles = st.handles
      /\ y.next = st.next /\ y.slot = st.slot /\ y.used = used /\ IsFiles(y.files)
      /\ DOMAIN y.files = DOMAIN st.files /\ y.files[id] = n /\ \A k \in DOMAIN st.files \ {id} : y.files[k] = st.files[k]
  BY <1>1, <1>3, PutWithIs
<1>5. /\ IsDisk(e) /\ e.anchor = disk.anchor /\ CertainAt(e, st.com, st.slot)
      /\ e.page[x].now = v /\ e.page[x].dirty /\ \A z \in Slot \ {x} : e.page[z] = disk.page[z]
  BY SlotWritten DEF PageValue
<1>6. ASSUME NEW k \in DOMAIN y.files, NEW j \in DOMAIN y.files[k].pages
      PROVE  \/ k = id /\ j = i /\ y.files[k].pages[j] = ref
             \/ HasPage(st.files, k, j, y.files[k].pages[j]) /\ y.files[k].pages[j].slot # x
  BY <1>3, <1>4 DEF MayWrite, HasPage
<1>7. Apart(y.files, y.files)
  <2>1. SUFFICES ASSUME NEW k \in DOMAIN y.files, NEW l \in DOMAIN y.files, NEW j \in DOMAIN y.files[k].pages,
                        NEW g \in DOMAIN y.files[l].pages, y.files[k].pages[j].slot = y.files[l].pages[g].slot
                 PROVE  k = l /\ j = g
    BY DEF Apart
  <2>2. y.files[id].pages[i].slot = x
    BY <1>2, <1>3, <1>4
  <2>4. CASE k = id /\ j = i
    BY <2>1, <2>2, <2>4, <1>6
  <2>5. CASE l = id /\ g = i
    BY <2>1, <2>2, <2>5, <1>6
  <2>3. CASE HasPage(st.files, k, j, y.files[k].pages[j]) /\ HasPage(st.files, l, g, y.files[l].pages[g])
    <3>1. Apart(st.files, st.files)
      BY <1>1 DEF IsSession
    <3> QED
      BY <2>1, <2>3, <3>1 DEF HasPage, Apart
  <2> QED
    BY <1>6, <2>3, <2>4, <2>5
<1>8. Apart(st.com.files, y.files)
  <2>1. SUFFICES ASSUME NEW k \in DOMAIN st.com.files, NEW l \in DOMAIN y.files, NEW j \in DOMAIN st.com.files[k].pages,
                        NEW g \in DOMAIN y.files[l].pages, st.com.files[k].pages[j].slot = y.files[l].pages[g].slot
                 PROVE  k = l /\ j = g
    BY DEF Apart
  <2>2. CASE l = id /\ g = i /\ y.files[l].pages[g] = ref
    BY SlotsAre, <1>1, <1>2, <2>1, <2>2 DEF CommittedSlots
  <2>3. CASE HasPage(st.files, l, g, y.files[l].pages[g])
    <3>1. Apart(st.com.files, st.files)
      BY <1>1 DEF IsSession
    <3> QED
      BY <2>1, <2>3, <3>1 DEF HasPage, Apart
  <2> QED
    BY <1>6, <2>2, <2>3
<1>9. \A z \in SlotsOf(y.files) : z = x \/ z \in SlotsOf(st.files)
  <2>1. SUFFICES ASSUME NEW z \in SlotsOf(y.files)
                 PROVE  z = x \/ z \in SlotsOf(st.files)
    OBVIOUS
  <2>2. PICK k \in DOMAIN y.files : \E j \in DOMAIN y.files[k].pages : y.files[k].pages[j].slot = z
    BY SlotsAre
  <2>3. PICK j \in DOMAIN y.files[k].pages : y.files[k].pages[j].slot = z
    BY <2>2
  <2>4. CASE y.files[k].pages[j] = ref
    BY <1>2, <2>3, <2>4
  <2>5. CASE HasPage(st.files, k, j, y.files[k].pages[j])
    BY <2>3, <2>5, SlotsAre DEF HasPage
  <2> QED
    BY <1>6, <2>4, <2>5
<1>10. x \in SlotsOf(y.files)
  BY <1>2, <1>3, <1>4, SlotsAre
<1>11. \A z \in SlotsOf(st.files) : \/ z \in SlotsOf(y.files)
                                    \/ i \in DOMAIN st.files[id].pages /\ z = st.files[id].pages[i].slot
  <2>1. SUFFICES ASSUME NEW z \in SlotsOf(st.files), ~(i \in DOMAIN st.files[id].pages /\ z = st.files[id].pages[i].slot)
                 PROVE  z \in SlotsOf(y.files)
    OBVIOUS
  <2>2. PICK k \in DOMAIN st.files : \E j \in DOMAIN st.files[k].pages : st.files[k].pages[j].slot = z
    BY SlotsAre
  <2>3. PICK j \in DOMAIN st.files[k].pages : st.files[k].pages[j].slot = z
    BY <2>2
  <2>4. k \in DOMAIN y.files /\ j \in DOMAIN y.files[k].pages /\ y.files[k].pages[j].slot = z
    BY <1>3, <1>4, <2>1, <2>3
  <2> QED
    BY <2>4, SlotsAre
<1>12. \A u \in y.used : /\ IsRecord(u, {"hint", "slots"})
                         /\ u.slots = CommittedSlots(y) \cup SlotsOf(y.files) /\ u.hint \in Nat
  <2>1. CommittedSlots(y) = CommittedSlots(st)
    BY <1>4 DEF CommittedSlots
  <2>2. CASE used = st.used /\ i \in DOMAIN st.files[id].pages /\ st.files[id].pages[i].slot = x
    BY <2>2, SlotsAre, <1>9, <1>10, <1>11, <1>1, <1>4, <2>1 DEF IsSession
  <2>3. CASE /\ used = {[slots |-> CommittedSlots(st) \cup SlotsOf(st.files) \cup {x}, hint |-> x + 1]}
             /\ i \in DOMAIN st.files[id].pages => st.files[id].pages[i].slot \in CommittedSlots(st)
    <3>1. CommittedSlots(st) \cup SlotsOf(st.files) \cup {x} = CommittedSlots(y) \cup SlotsOf(y.files)
      BY <1>9, <1>10, <1>11, <2>1, <2>3
    <3>2. x + 1 \in Nat
      BY <1>1, RollbackAssumption DEF Slot
    <3>3. PICK u : u = [slots |-> CommittedSlots(y) \cup SlotsOf(y.files), hint |-> x + 1]
      OBVIOUS
    <3>4. IsRecord(u, {"hint", "slots"}) /\ u.slots = CommittedSlots(y) \cup SlotsOf(y.files) /\ u.hint \in Nat
      BY <3>2, <3>3 DEF IsRecord, IsMap
    <3>5. y.used = {u}
      BY <1>4, <2>3, <3>1, <3>3
    <3> QED
      BY <3>4, <3>5
  <2> QED
    BY <2>2, <2>3 DEF UsedAfter
<1>13. IsSession(y)
  BY <1>1, <1>4, <1>7, <1>8, <1>12 DEF IsSession, SessionFields
<1>14. DirtyFiles(e, y.files)
  <2>1. SUFFICES ASSUME NEW k \in DOMAIN y.files, NEW j \in DOMAIN y.files[k].pages
                 PROVE  DirtyPage(e, y.files[k].pages[j])
    BY DEF DirtyFiles
  <2>2. CASE y.files[k].pages[j] = ref
    <3>1. e.page[ref.slot].now = ref.val /\ e.page[ref.slot].dirty
      BY <1>2, <1>5
    <3>2. DirtyPage(e, ref)
      BY <3>1, Zenon DEF DirtyPage
    <3> QED
      BY <2>2, <3>2
  <2>3. CASE HasPage(st.files, k, j, y.files[k].pages[j]) /\ y.files[k].pages[j].slot # x
    <3>1. PICK p : p = y.files[k].pages[j]
      OBVIOUS
    <3>2. DirtyPage(disk, p) /\ p \in PageRef
      BY <1>1, <2>3, <3>1 DEF Under, DirtyFiles, HasPage, IsSession, IsFiles, IsNode, IsPages
    <3>3. e.page[p.slot] = disk.page[p.slot]
      BY <1>5, <2>3, <3>1, <3>2 DEF PageRef
    <3>4. DirtyPage(e, p)
      BY <3>2, <3>3 DEF DirtyPage
    <3> QED
      BY <3>1, <3>4
  <2> QED
    BY <1>6, <2>2, <2>3
<1> QED
  BY <1>4, <1>5, <1>13, <1>14 DEF Under

(* Session t is st, written at page i of file id, or the like. *)
OnlyNode(st, t, id) ==
    /\ t.com = st.com /\ t.entries = st.entries /\ t.handles = st.handles /\ t.next = st.next /\ t.slot = st.slot
    /\ DOMAIN t.files = DOMAIN st.files /\ \A k \in DOMAIN st.files \ {id} : t.files[k] = st.files[k]

(* In session t, page i of file id is v, in some slot. *)
Written(st, t, id, i, v) ==
    \E x : OnlyNode(st, t, id) /\ t.files[id] = WithPage(st.files[id], i, [slot |-> x, val |-> v])

(* Whatever becomes of write_page. *)
LEMMA WriteGood ==
    ASSUME NEW st, NEW disk, Under(st, disk), NEW id \in DOMAIN st.files, NEW i \in st.files[id].res,
           NEW v \in Val \cup {Zero}, NEW o \in WritePage(st, disk, id, i, v)
    PROVE  /\ Good(o)
           /\ o.ok => Written(st, o.s, id, i, v)
           /\ o.out = "invalid" => Slot \subseteq CommittedSlots(st) \cup SlotsOf(st.files)
<1>1. IsSession(st) /\ IsNode(st.files[id]) /\ IsRecord(st, SessionFields) /\ IsMap(st.files)
  BY DEF Under, IsSession, IsFiles, SessionFields
<1>2. PICK own : own = OwnSlot(st, id, i)
  OBVIOUS
<1>3. PICK u : u = UsedSlots(st)
  OBVIOUS
<1>4. PICK x : x = IF own # {} THEN CHOOSE y \in own : TRUE ELSE FirstFree(u)
  OBVIOUS
<1>5. PICK ref : ref = [slot |-> x, val |-> v]
  OBVIOUS
<1>6. PICK used : used = IF own # {} THEN st.used ELSE {[slots |-> u.slots \cup {x}, hint |-> x + 1]}
  OBVIOUS
<1>7. PICK n : n = WithPage(st.files[id], i, ref)
  OBVIOUS
<1>8. PICK y : y = PutWith(st, id, n, used)
  OBVIOUS
<1>9. PICK torn, e : torn = PutPage(disk, x, Wrote(disk.page[x], Torn, Torn)) /\ e = PutPage(disk, x, Wrote(disk.page[x], v, Torn))
  OBVIOUS
<1>10. u.slots = CommittedSlots(st) \cup SlotsOf(st.files)
  BY <1>1, <1>3, UsedSlotsIs
<1>11. \/ own = {} /\ Slot \subseteq u.slots /\ o = Inconsistent(Refuse(st, disk))
       \/ ~(own = {} /\ Slot \subseteq u.slots) /\ (o = Stop(torn) \/ o = Ok(y, e))
  BY <1>1, <1>6, <1>7, <1>8, <1>9, <1>2, <1>3, <1>4, <1>5 DEF PutWith, WithPage, IsNode, IsRecord,
     SessionFields, IsMap, PutPage, WritePage
<1>12. CASE own = {} /\ Slot \subseteq u.slots /\ o = Inconsistent(Refuse(st, disk))
  BY <1>12, PlainOutcomes, <1>10
<1>13. CASE ~(own = {} /\ Slot \subseteq u.slots) /\ (o = Stop(torn) \/ o = Ok(y, e))
  <2>1. /\ MayWrite(st, id, i, x)
        /\ own # {} => i \in DOMAIN st.files[id].pages /\ st.files[id].pages[i].slot = x
        /\ own = {} => (i \in DOMAIN st.files[id].pages => st.files[id].pages[i].slot \in CommittedSlots(st))
    BY <1>1, <1>2, <1>3, <1>4, <1>13, ChosenSlot
  <2>2. UsedAfter(st, id, i, x, used)
    BY <1>6, <1>10, <2>1 DEF UsedAfter
  <2>3. CASE o = Stop(torn)
    BY <1>9, <2>1, SlotWritten, <2>3 DEF PageValue, Good, Stop
  <2>4. CASE o = Ok(y, e)
    <3>1. Under(y, e)
      BY <1>5, <1>7, <1>8, <1>9, <2>1, <2>2, SessionWritten
    <3>2. Good(o) /\ o.s = y /\ o.out = "ok"
      BY <2>4, <3>1, PlainOutcomes
    <3>3. IsNode(n)
      BY <2>1, <1>5, <1>1, <1>7, WithPageIs DEF MayWrite, PageRef
    <3>4. /\ y.com = st.com /\ y.entries = st.entries /\ y.handles = st.handles /\ y.next = st.next /\ y.slot = st.slot
          /\ DOMAIN y.files = DOMAIN st.files /\ y.files[id] = n /\ \A k \in DOMAIN st.files \ {id} : y.files[k] = st.files[k]
      BY <1>1, <1>8, <3>3, PutWithIs
    <3>5. OnlyNode(st, y, id) /\ y.files[id] = WithPage(st.files[id], i, [slot |-> x, val |-> v])
      BY <1>5, <1>7, <3>4 DEF OnlyNode
    <3> QED
      BY <3>2, <3>5 DEF Written
  <2> QED
    BY <1>13, <2>3, <2>4
<1> QED
  BY <1>11, <1>12, <1>13

(* A page is read and written again. *)
Rewrite(st, disk, id, i, v) == Then(ReadPage(st, disk, id, i), LAMBDA p : WritePage(p.s, p.d, id, i, v))

(* Whatever becomes of it. *)
LEMMA RewriteGood ==
    ASSUME NEW st, NEW disk, Under(st, disk), NEW id \in DOMAIN st.files, NEW i \in st.files[id].res,
           NEW v \in Val \cup {Zero}, NEW o \in Rewrite(st, disk, id, i, v)
    PROVE  /\ Good(o)
           /\ o.ok => Written(st, o.s, id, i, v)
           /\ o.out = "invalid" => Slot \subseteq CommittedSlots(st) \cup SlotsOf(st.files)
<1>1. PICK p \in ReadPage(st, disk, id, i) : o \in IF p.ok THEN WritePage(p.s, p.d, id, i, v) ELSE {p}
  BY DEF Rewrite, Then
<1>2. Good(p) /\ (p.ok => p = Ok(st, disk))
  BY ReadGood
<1>3. CASE p.ok
  BY <1>2, <1>3, PlainOutcomes, <1>1, WriteGood
<1>4. CASE ~p.ok
  <2>1. o = p
    BY <1>1, <1>4
  <2>2. p = Inconsistent(Stop(disk)) \/ p = Ok(st, disk)
    BY DEF ReadPage
  <2>3. o.out = "ok"
    <3>1. DirtyFiles(disk, st.files)
      BY DEF Under
    <3>2. i \in DOMAIN st.files[id].pages => disk.page[st.files[id].pages[i].slot].now = st.files[id].pages[i].val
      BY <3>1 DEF DirtyFiles, DirtyPage
    <3>3. p = Ok(st, disk)
      BY <3>2 DEF ReadPage
    <3> QED
      BY <2>1, <3>3, PlainOutcomes
  <2> QED
    BY <1>2, <1>4, <2>1, <2>3
<1> QED
  BY <1>3, <1>4

(* A file cut to n pages. *)
LEMMA TruncatedIs ==
    ASSUME NEW node, IsNode(node), NEW n \in 0..MaxPages, NEW w, w = Truncated(node, n)
    PROVE  /\ IsNode(w) /\ w.len = n /\ w.res = node.res \cap 1..n /\ DOMAIN w.pages = DOMAIN node.pages \cap 1..n
           /\ \A i \in DOMAIN w.pages : w.pages[i] = node.pages[i]
<1>1. IsPages(node.pages) /\ DOMAIN node.pages \subseteq node.res
  BY DEF IsNode
<1>2. PICK S : S = DOMAIN node.pages \cap 1..n
  OBVIOUS
<1>3. PICK P : P = Restrict(node.pages, S)
  OBVIOUS
<1>4. IsMap(P) /\ DOMAIN P = S /\ \A i \in S : P[i] = node.pages[i]
  BY <1>3, RestrictIs
<1>5. IsRecord(w, {"len", "pages", "res"}) /\ w.len = n /\ w.res = node.res \cap 1..n /\ w.pages = P
  BY <1>2, <1>3 DEF Truncated, IsRecord, IsMap
<1>6. IsPages(P) /\ DOMAIN P \subseteq node.res \cap 1..n
  BY <1>1, <1>2, <1>4 DEF IsPages
<1>7. IsNode(w)
  BY <1>5, <1>6 DEF IsNode
<1> QED
  BY <1>2, <1>4, <1>5, <1>7

(* A session whose file id lost pages, with the used slots forgotten. *)
LEMMA LostUnder ==
    ASSUME NEW st, NEW disk, Under(st, disk), NEW id \in DOMAIN st.files, NEW n, IsNode(n),
           DOMAIN n.pages \subseteq DOMAIN st.files[id].pages, \A i \in DOMAIN n.pages : n.pages[i] = st.files[id].pages[i],
           NEW y, y = PutWith(st, id, n, {})
    PROVE  Under(y, disk) /\ OnlyNode(st, y, id) /\ y.files[id] = n
  BY PutWithIs, FilesLose DEF Under, Within, HasPage, OnlyNode

(* The node of file id with page i dropped. *)
Punched(node, i) == [node EXCEPT !.pages = Restrict(@, DOMAIN @ \ {i}), !.res = @ \ {i}]

(* Such a node. *)
LEMMA PunchedIs ==
    ASSUME NEW node, IsNode(node), NEW i, NEW w, w = Punched(node, i)
    PROVE  /\ IsNode(w) /\ w.len = node.len /\ w.res = node.res \ {i} /\ DOMAIN w.pages = DOMAIN node.pages \ {i}
           /\ \A j \in DOMAIN w.pages : w.pages[j] = node.pages[j]
<1>1. /\ IsRecord(node, {"len", "pages", "res"}) /\ node.len \in 0..MaxPages /\ node.res \subseteq 1..node.len
      /\ IsPages(node.pages) /\ DOMAIN node.pages \subseteq node.res
  BY DEF IsNode
<1>2. PICK S : S = DOMAIN node.pages \ {i}
  OBVIOUS
<1>3. PICK P : P = Restrict(node.pages, S)
  OBVIOUS
<1>4. IsMap(P) /\ DOMAIN P = S /\ \A j \in S : P[j] = node.pages[j]
  BY <1>3, RestrictIs
<1>5. IsRecord(w, {"len", "pages", "res"}) /\ w.len = node.len /\ w.res = node.res \ {i} /\ w.pages = P
  BY <1>1, <1>2, <1>3 DEF Punched, IsRecord, IsMap
<1>6. IsPages(P) /\ DOMAIN P \subseteq node.res \ {i}
  BY <1>1, <1>2, <1>4 DEF IsPages
<1>7. IsNode(w)
  BY <1>1, <1>5, <1>6 DEF IsNode
<1> QED
  BY <1>2, <1>4, <1>5, <1>7

-----------------------------------------------------------------------------
(* The operations of a session. *)

(* The step to outcome o, what is owed apart. *)
StepTo(o) ==
    /\ s' = o.s /\ d' = o.d /\ out' = o.out
    /\ pc' = IF o.stop THEN "down" ELSE "up"
    /\ IF o.stop THEN Fault ELSE UNCHANGED faults
    /\ UNCHANGED restored

(* The state of a session in use, and a fault counted. *)
LEMMA UpState ==
    ASSUME RInv, Up
    PROVE  Under(s, d) /\ IsSession(s) /\ Safe(d) /\ ~restored /\ s.handles \subseteq DOMAIN s.files
  BY UnderSafe DEF RInv, Up, Under, IsSession

(* Every step to a good outcome keeps the invariant. *)
LEMMA GoodStep ==
    ASSUME RInv, Up, NEW o, Good(o), StepTo(o)
    PROVE  RInv'
  BY RollbackAssumption, UnderSafe DEF RInv, Up, StepTo, Good, Fault, Safe

(* The outcome every operation may have: the anchor cannot be read. *)
LEMMA StopGood ==
    ASSUME RInv, Up
    PROVE  Good(Stop(d))
  BY UpState, PlainOutcomes

(* CowFile::write_at. *)
LEMMA WriteAtKeeps ==
    ASSUME RInv, NEW id \in Id, NEW i \in Page, NEW v \in Val, WriteAt(id, i, v)
    PROVE  RInv'
  BY StopGood, GoodStep, UpState, ReserveGood, RewriteGood DEF WriteAt, Finish, StepTo, Rewrite, Then, Good,
     HasRange

(* CowFile::read_at. *)
LEMMA ReadAtKeeps ==
    ASSUME RInv, NEW id \in Id, NEW i \in Page, ReadAt(id, i)
    PROVE  RInv'
  BY UpState, ReadGood, StopGood, GoodStep DEF ReadAt, Finish, StepTo

(* The session after a truncation. *)
Shorten(st, id, n) == [st EXCEPT !.files[id] = Truncated(@, n), !.used = {}]

(* A truncation drops pages of one file. *)
LEMMA ShortenUnder ==
    ASSUME NEW st, NEW disk, Under(st, disk), NEW id \in DOMAIN st.files, NEW n \in 0..MaxPages, NEW y, y = Shorten(st, id, n)
    PROVE  Under(y, disk) /\ OnlyNode(st, y, id) /\ y.files[id] = Truncated(st.files[id], n)
<1>1. IsNode(st.files[id]) /\ IsRecord(st, SessionFields) /\ IsMap(st.files)
  BY DEF Under, IsSession, IsFiles, SessionFields
<1>2. PICK w : w = Truncated(st.files[id], n)
  OBVIOUS
<1>3. y = PutWith(st, id, w, {})
  BY <1>1, <1>2 DEF Shorten, PutWith, IsRecord, SessionFields, IsMap
<1>4. IsNode(w) /\ DOMAIN w.pages \subseteq DOMAIN st.files[id].pages /\ \A i \in DOMAIN w.pages : w.pages[i] = st.files[id].pages[i]
  BY <1>1, <1>2, TruncatedIs
<1>5. Under(y, disk) /\ OnlyNode(st, y, id) /\ y.files[id] = w
  BY <1>3, <1>4, LostUnder
<1> QED
  BY <1>2, <1>5

(* The outcomes of zeroing the end of the last page, when it is cut. *)
Zeroed(st, disk, id, n, tail) == IF ~tail THEN {Ok(st, disk)} ELSE Rewrite(st, disk, id, n, Zero)

(* Whatever becomes of it. *)
LEMMA ZeroedGood ==
    ASSUME NEW st, NEW disk, Under(st, disk), NEW id \in DOMAIN st.files, NEW n, NEW tail \in BOOLEAN,
           tail => n \in DOMAIN st.files[id].pages, NEW o \in Zeroed(st, disk, id, n, tail)
    PROVE  /\ Good(o)
           /\ o.ok => \/ o.s = st
                      \/ /\ n \in DOMAIN st.files[id].pages
                         /\ Written(st, o.s, id, n, Zero)
           /\ o.out = "invalid" => n \in DOMAIN st.files[id].pages /\ Slot \subseteq CommittedSlots(st) \cup SlotsOf(st.files)
  BY PlainOutcomes, RewriteGood DEF Zeroed, Under, IsSession, IsFiles, IsNode

(* CowFile::set_len. *)
LEMMA SetLenKeeps ==
    ASSUME RInv, NEW id \in Id, NEW n \in 0..MaxPages, NEW cut \in BOOLEAN, SetLen(id, n, cut)
    PROVE  RInv'
<1>1. Up /\ id \in s.handles /\ Under(s, d) /\ id \in DOMAIN s.files
  BY UpState DEF SetLen
<1>2. PICK tail : tail = (cut /\ n \in DOMAIN s.files[id].pages)
  OBVIOUS
<1>3. PICK o : /\ o \in Then(Zeroed(s, d, id, n, tail), LAMBDA q : {Ok(Shorten(q.s, id, n), q.d)}) \/ o = Stop(d)
               /\ StepTo(o)
  BY <1>2 DEF SetLen, Finish, StepTo, Zeroed, Rewrite, Shorten
<1>4. CASE o = Stop(d)
  BY <1>1, <1>3, <1>4, StopGood, GoodStep
<1>5. CASE o \in Then(Zeroed(s, d, id, n, tail), LAMBDA q : {Ok(Shorten(q.s, id, n), q.d)})
  <2>1. PICK q \in Zeroed(s, d, id, n, tail) : o \in IF q.ok THEN {Ok(Shorten(q.s, id, n), q.d)} ELSE {q}
    BY <1>5 DEF Then
  <2>2. Good(q) /\ (q.ok => q.s = s \/ OnlyNode(s, q.s, id))
    BY <1>1, <1>2, ZeroedGood DEF Written
  <2>3. CASE q.ok
    <3>1. PICK t, e : t = q.s /\ e = q.d
      OBVIOUS
    <3>2. Under(t, e) /\ id \in DOMAIN t.files
      BY <1>1, <2>2, <2>3, <3>1 DEF Good, OnlyNode
    <3>3. PICK y : y = Shorten(t, id, n)
      OBVIOUS
    <3>4. Under(y, e)
      BY <3>2, <3>3, ShortenUnder
    <3>5. o = Ok(y, e)
      BY <2>1, <2>3, <3>1, <3>3
    <3>6. Good(o)
      BY <3>4, <3>5, PlainOutcomes
    <3> QED
      BY <1>1, <1>3, <3>6, GoodStep
  <2>4. CASE ~q.ok
    BY <1>1, <1>3, <2>1, <2>2, <2>4, GoodStep
  <2> QED
    BY <2>3, <2>4
<1> QED
  BY <1>3, <1>4, <1>5

(* CowFile::allocate_range. *)
LEMMA AllocateRangeKeeps ==
    ASSUME RInv, NEW id \in Id, NEW lo \in Page, NEW hi \in lo..MaxPages, AllocateRange(id, lo..hi)
    PROVE  RInv'
  BY UpState, RollbackAssumption, ReserveGood, StopGood, GoodStep DEF AllocateRange, Page, Finish, StepTo

(* The session after a page was dropped. *)
DropPage(st, id, i) == [st EXCEPT !.files[id].pages = Restrict(@, DOMAIN @ \ {i}), !.files[id].res = @ \ {i}, !.used = {}]

(* A hole drops a page of one file. *)
LEMMA DropUnder ==
    ASSUME NEW st, NEW disk, Under(st, disk), NEW id \in DOMAIN st.files, NEW i, NEW y, y = DropPage(st, id, i)
    PROVE  Under(y, disk) /\ OnlyNode(st, y, id) /\ y.files[id] = Punched(st.files[id], i)
<1>1. IsNode(st.files[id]) /\ IsRecord(st, SessionFields) /\ IsMap(st.files)
  BY DEF Under, IsSession, IsFiles, SessionFields
<1>2. PICK w : w = Punched(st.files[id], i)
  OBVIOUS
<1>3. y = PutWith(st, id, w, {})
  <2>1. PICK P : P = Restrict(st.files[id].pages, DOMAIN st.files[id].pages \ {i})
    OBVIOUS
  <2>2. PICK a : a = [st.files EXCEPT ![id].pages = P]
    OBVIOUS
  <2>3. PICK b : b = [a EXCEPT ![id].res = @ \ {i}]
    OBVIOUS
  <2>4. IsMap(a) /\ DOMAIN a = DOMAIN st.files /\ a[id] = [st.files[id] EXCEPT !.pages = P] /\ \A k \in DOMAIN st.files \ {id} : a[k] = st.files[k]
    BY <1>1, <2>2 DEF IsMap
  <2>5. /\ IsMap(b) /\ DOMAIN b = DOMAIN st.files /\ b[id] = [a[id] EXCEPT !.res = @ \ {i}]
        /\ \A k \in DOMAIN st.files \ {id} : b[k] = st.files[k]
    BY <2>3, <2>4 DEF IsMap
  <2>6. b[id] = w
    BY <1>1, <1>2, <2>1, <2>4, <2>5 DEF Punched, IsNode, IsRecord, IsMap
  <2>7. b = [st.files EXCEPT ![id] = w]
    BY <1>1, <2>5, <2>6 DEF IsMap
  <2>8. y = [st EXCEPT !.files = b, !.used = {}]
    <3>1. PICK c : c = [st EXCEPT !.files[id].pages = Restrict(@, DOMAIN @ \ {i})]
      OBVIOUS
    <3>2. PICK e : e = [c EXCEPT !.files[id].res = @ \ {i}]
      OBVIOUS
    <3>3. c = [st EXCEPT !.files = a]
      BY <1>1, <2>1, <2>2, <3>1 DEF IsRecord, SessionFields, IsMap
    <3>4. IsRecord(c, SessionFields) /\ c.files = a
      BY <1>1, <3>3 DEF IsRecord, SessionFields, IsMap
    <3>5. e = [c EXCEPT !.files = b]
      BY <2>3, <3>2, <3>4 DEF IsRecord, SessionFields, IsMap
    <3>6. e = [st EXCEPT !.files = b]
      BY <1>1, <3>3, <3>5 DEF IsRecord, SessionFields, IsMap
    <3>7. y = [e EXCEPT !.used = {}]
      <4>1. y = [[[st EXCEPT !.files[id].pages = Restrict(@, DOMAIN @ \ {i})] EXCEPT !.files[id].res = @ \ {i}]
                  EXCEPT !.used = {}]
        BY DEF DropPage
      <4> QED
        BY <3>1, <3>2, <4>1, Zenon
    <3> QED
      BY <3>6, <3>7
  <2> QED
    BY <1>1, <2>7, <2>8 DEF PutWith, IsRecord, SessionFields, IsMap
<1>4. IsNode(w) /\ DOMAIN w.pages \subseteq DOMAIN st.files[id].pages /\ \A j \in DOMAIN w.pages : w.pages[j] = st.files[id].pages[j]
  BY <1>1, <1>2, PunchedIs
<1>5. Under(y, disk) /\ OnlyNode(st, y, id) /\ y.files[id] = w
  BY <1>3, <1>4, LostUnder
<1> QED
  BY <1>2, <1>5

(* CowFile::punch_hole. *)
LEMMA PunchHoleKeeps ==
    ASSUME RInv, NEW id \in Id, NEW i \in Page, NEW part \in BOOLEAN, PunchHole(id, i, part)
    PROVE  RInv'
<1>1. Up /\ id \in s.handles /\ Under(s, d) /\ id \in DOMAIN s.files
  BY UpState DEF PunchHole
<1>2. PICK tail \in BOOLEAN : tail <=> i \in DOMAIN s.files[id].pages
  OBVIOUS
<1>3. PICK o : /\ o = Ok(DropPage(s, id, i), d) \/ o \in Zeroed(s, d, id, i, tail) \/ o = Stop(d)
               /\ StepTo(o)
  BY <1>2 DEF PunchHole, Finish, StepTo, Zeroed, Rewrite, DropPage
<1>4. CASE o = Stop(d)
  BY <1>1, <1>3, <1>4, StopGood, GoodStep
<1>5. CASE o \in Zeroed(s, d, id, i, tail)
  BY <1>1, <1>2, <1>5, ZeroedGood, <1>3, GoodStep
<1>6. CASE o = Ok(DropPage(s, id, i), d)
  BY <1>1, DropUnder, <1>6, PlainOutcomes, <1>3, GoodStep
<1> QED
  BY <1>3, <1>4, <1>5, <1>6

(* What sync_data hands to commit. *)
LEMMA SyncCandidate ==
    ASSUME NEW st, IsSession(st), NEW id \in DOMAIN st.files, NEW n, n = st.files[id], NEW c, c = Claim(st.com, id, n)
    PROVE  /\ Candidate(st, c) /\ c.entries = st.com.entries
           /\ DOMAIN c.files = DOMAIN st.com.files \cup {id} /\ c.files[id] = n
           /\ \A k \in DOMAIN st.com.files \ {id} : c.files[k] = st.com.files[k]
  BY ClaimCandidate DEF IsSession, IsFiles, HasPage

(* CowFile::sync_data. *)
LEMMA SyncDataKeeps ==
    ASSUME RInv, NEW id \in Id, SyncData(id)
    PROVE  RInv'
  BY UpState, SyncCandidate, CommitGood, StopGood, GoodStep DEF SyncData, Finish, StepTo, Claim

-----------------------------------------------------------------------------
(* The namespace. *)

(* A session whose names or open files change, and maybe one new file. The *)
(* pages stay as they are. *)
LEMMA NamesUnder ==
    ASSUME NEW st, NEW disk, Under(st, disk), NEW y, IsRecord(y, SessionFields),
           y.com = st.com, y.slot = st.slot, y.used = st.used, y.next \in 1..(MaxId + 1),
           IsEntries(y.entries), IsFiles(y.files), \A id \in DOMAIN y.files : id < y.next,
           y.handles \subseteq DOMAIN y.files, Linked(y.entries) \subseteq DOMAIN y.files,
           DOMAIN st.files \subseteq DOMAIN y.files, \A id \in DOMAIN st.files : y.files[id] = st.files[id],
           \A id \in DOMAIN y.files \ DOMAIN st.files : DOMAIN y.files[id].pages = {}
    PROVE  Under(y, disk)
<1>1. IsSession(st)
  BY DEF Under
<1>2. Within(y.files, st.files)
  BY DEF Within, HasPage
<1>3. From(y.files, st) /\ From(st.com.files, st)
  BY <1>2, OwnFrom DEF From, Within
<1>4. Apart(y.files, y.files) /\ Apart(st.com.files, y.files)
  BY <1>1, <1>3, ApartFrom
<1>5. SlotsOf(y.files) = SlotsOf(st.files)
  <2>1. ASSUME NEW x
        PROVE  x \in SlotsOf(y.files) <=> x \in SlotsOf(st.files)
    BY SlotsAre
  <2> QED
    BY <2>1
<1>6. \A u \in y.used : /\ IsRecord(u, {"hint", "slots"})
                        /\ u.slots = CommittedSlots(y) \cup SlotsOf(y.files) /\ u.hint \in Nat
  BY <1>1, <1>5 DEF CommittedSlots, IsSession
<1>7. DOMAIN y.com.files \subseteq DOMAIN y.files
  BY <1>1 DEF IsSession
<1>8. IsSession(y)
  BY <1>1, <1>4, <1>6, <1>7 DEF IsSession, SessionFields
<1>9. DirtyFiles(disk, y.files)
  BY <1>2 DEF Under, DirtyFiles, Within, HasPage
<1> QED
  BY <1>8, <1>9 DEF Under

(* Sessions that differ in their names and handles. *)
PutNames(st, E, H) == [st EXCEPT !.entries = E, !.handles = H]

(* Such a session. *)
LEMMA NamesPut ==
    ASSUME NEW st, NEW disk, Under(st, disk), NEW E, IsEntries(E), Linked(E) \subseteq DOMAIN st.files,
           NEW H, H \subseteq DOMAIN st.files, NEW y, y = PutNames(st, E, H)
    PROVE  /\ Under(y, disk) /\ y.entries = E /\ y.handles = H /\ y.com = st.com /\ y.files = st.files /\ y.next = st.next
           /\ y.slot = st.slot /\ y.used = st.used
<1>1. IsSession(st) /\ IsRecord(st, SessionFields)
  BY DEF Under, IsSession, SessionFields
<1>2. /\ IsRecord(y, SessionFields) /\ y.com = st.com /\ y.slot = st.slot /\ y.used = st.used /\ y.next = st.next
      /\ y.entries = E /\ y.handles = H /\ y.files = st.files
  BY <1>1 DEF PutNames, IsRecord, SessionFields, IsMap
<1>3. st.next \in 1..(MaxId + 1) /\ IsFiles(st.files) /\ \A id \in DOMAIN st.files : id < st.next
  BY <1>1 DEF IsSession
<1>4. Under(y, disk)
  BY <1>2, <1>3, NamesUnder
<1> QED
  BY <1>2, <1>4

(* Drop of a CowFile. *)
LEMMA CloseFileKeeps ==
    ASSUME RInv, NEW id \in Id, CloseFile(id)
    PROVE  RInv'
<1>1. Up /\ Under(s, d) /\ IsSession(s) /\ s.handles \subseteq DOMAIN s.files
  BY UpState DEF CloseFile
<1>2. PICK y : y = PutNames(s, s.entries, s.handles \ {id})
  OBVIOUS
<1>3. s' = y
  BY <1>1, <1>2 DEF CloseFile, PutNames, IsSession, IsRecord, IsMap
<1>4. Under(y, d)
  BY <1>1, <1>2, NamesPut DEF IsSession
<1> QED
  BY <1>1, <1>3, <1>4 DEF CloseFile, RInv, Up

(* Entries after an insertion. *)
LEMMA EntriesInsert ==
    ASSUME NEW E, IsEntries(E), NEW p \in Name \cup Dir, NEW v, v \in IF p \in Dir THEN {Directory} ELSE Id,
           NEW G, G = Insert(E, p, v)
    PROVE  /\ IsEntries(G) /\ DOMAIN G = DOMAIN E \cup {p} /\ G[p] = v /\ \A q \in DOMAIN E \ {p} : G[q] = E[q]
           /\ Linked(G) \subseteq Linked(E) \cup {v}
  BY LinkedAre DEF Insert, IsMap, IsEntries

(* Entries after a removal. *)
Without(E, p) == Restrict(E, DOMAIN E \ {p})

(* They are entries. *)
LEMMA EntriesRemove ==
    ASSUME NEW E, IsEntries(E), NEW p, NEW G, G = Without(E, p)
    PROVE  /\ IsEntries(G) /\ DOMAIN G = DOMAIN E \ {p} /\ \A q \in DOMAIN G : G[q] = E[q]
           /\ Linked(G) \subseteq Linked(E)
  BY RestrictIs, LinkedAre DEF Without, IsEntries

(* Backing::remove_file. *)
LEMMA RemoveFileKeeps ==
    ASSUME RInv, NEW name \in Name, RemoveFile(name)
    PROVE  RInv'
<1>1. Up /\ Under(s, d) /\ IsSession(s) /\ IsEntries(s.entries) /\ Linked(s.entries) \subseteq DOMAIN s.files /\ s.handles \subseteq DOMAIN s.files
  BY UpState DEF RemoveFile, IsSession
<1>2. PICK E : E = Restrict(s.entries, DOMAIN s.entries \ {name})
  OBVIOUS
<1>3. PICK H : H = s.handles
  OBVIOUS
<1>4. PICK y : y = PutNames(s, E, H)
  OBVIOUS
<1>5. PICK o : (o = Ok(y, d) \/ o = Stop(d)) /\ StepTo(o)
  BY <1>1, <1>2, <1>3, <1>4 DEF PutNames, IsSession, IsRecord, IsMap, RemoveFile, Finish, StepTo
<1>6. IsEntries(E) /\ Linked(E) \subseteq DOMAIN s.files
  <2>1. PICK F : F = s.entries
    OBVIOUS
  <2>2. IsEntries(F) /\ E = Without(F, name)
    BY <1>1, <1>2, <2>1 DEF Without
  <2>3. IsEntries(E) /\ Linked(E) \subseteq Linked(F)
    BY <2>2, EntriesRemove
  <2> QED
    BY <1>1, <2>1, <2>3
<1>7. Under(y, d)
  BY <1>1, <1>3, <1>4, <1>6, NamesPut
<1>8. Good(o)
  BY <1>1, <1>5, <1>7, PlainOutcomes, StopGood
<1> QED
  BY <1>1, <1>5, <1>8, GoodStep

(* Backing::rename. *)
LEMMA RenameKeeps ==
    ASSUME RInv, NEW from \in Name, NEW to \in Name, Rename(from, to)
    PROVE  RInv'
<1>1. Up /\ Under(s, d) /\ IsSession(s) /\ IsEntries(s.entries) /\ Linked(s.entries) \subseteq DOMAIN s.files /\ s.handles \subseteq DOMAIN s.files
  BY UpState DEF Rename, IsSession
<1>2. from \in DOMAIN s.entries
  BY DEF Rename
<1>3. PICK G : G = Restrict(s.entries, DOMAIN s.entries \ {from})
  OBVIOUS
<1>4. PICK v : v = s.entries[from]
  OBVIOUS
<1>5. PICK E : E = Insert(G, to, v)
  OBVIOUS
<1>6. PICK H : H = s.handles
  OBVIOUS
<1>7. PICK y : y = PutNames(s, E, H)
  OBVIOUS
<1>8. PICK o : (o = Ok(y, d) \/ o = Stop(d)) /\ StepTo(o)
  <2>1. y = [s EXCEPT !.entries = Insert(Restrict(@, DOMAIN @ \ {from}), to, s.entries[from])]
    BY <1>1, <1>3, <1>4, <1>5, <1>6, <1>7 DEF PutNames, IsSession, IsRecord, IsMap
  <2> QED
    BY <2>1 DEF Rename, Finish, StepTo
<1>9. IsEntries(G) /\ Linked(G) \subseteq Linked(s.entries)
  <2>1. PICK F : F = s.entries
    OBVIOUS
  <2>2. IsEntries(F) /\ G = Without(F, from)
    BY <1>1, <1>3, <2>1 DEF Without
  <2>3. IsEntries(G) /\ Linked(G) \subseteq Linked(F)
    BY <2>2, EntriesRemove
  <2> QED
    BY <2>1, <2>3
<1>10. to \notin Dir /\ v \in Id /\ to \in Name \cup Dir
  BY <1>1, <1>2, <1>4, RollbackAssumption DEF IsEntries
<1>11. IsEntries(E) /\ Linked(E) \subseteq Linked(G) \cup {v}
  BY <1>5, <1>9, <1>10, EntriesInsert
<1>12. v \in DOMAIN s.files
  BY <1>10, <1>1, <1>2, <1>4, LinkedAre DEF Id, Directory, IsEntries
<1>13. Under(y, d)
  BY <1>1, <1>6, <1>7, <1>9, <1>11, <1>12, NamesPut
<1>14. Good(o)
  BY <1>1, <1>8, <1>13, PlainOutcomes, StopGood
<1> QED
  BY <1>1, <1>8, <1>14, GoodStep

(* Backing::create_dir_all. *)
LEMMA CreateDirAllKeeps ==
    ASSUME RInv, NEW dir \in Dir, CreateDirAll(dir)
    PROVE  RInv'
<1>1. Up /\ Under(s, d) /\ IsSession(s) /\ IsEntries(s.entries) /\ Linked(s.entries) \subseteq DOMAIN s.files /\ s.handles \subseteq DOMAIN s.files
  BY UpState DEF CreateDirAll, IsSession
<1>2. PICK E : E = Insert(s.entries, dir, Directory)
  OBVIOUS
<1>3. PICK H : H = s.handles
  OBVIOUS
<1>4. PICK y : y = PutNames(s, E, H)
  OBVIOUS
<1>5. PICK o : (o = Ok(y, d) \/ o = Refuse(s, d) \/ o = Stop(d)) /\ StepTo(o)
  <2>1. y = [s EXCEPT !.entries = Insert(@, dir, Directory)]
    BY <1>1, <1>2, <1>3, <1>4 DEF PutNames, IsSession, IsRecord, IsMap
  <2> QED
    BY <2>1 DEF CreateDirAll, Finish, StepTo
<1>6. IsEntries(E) /\ Linked(E) \subseteq DOMAIN s.files
  <2>1. PICK v : v = Directory
    OBVIOUS
  <2>2. PICK F : F = s.entries
    OBVIOUS
  <2>3. /\ dir \in Name \cup Dir /\ v \in (IF dir \in Dir THEN {Directory} ELSE Id)
        /\ IsEntries(F) /\ E = Insert(F, dir, v)
    BY <1>1, <1>2, <2>1, <2>2
  <2>4. IsEntries(E) /\ Linked(E) \subseteq Linked(F) \cup {v}
    BY <2>3, EntriesInsert
  <2>5. v \notin Linked(E)
    BY <2>1 DEF Linked
  <2> QED
    BY <1>1, <2>2, <2>4, <2>5
<1>7. Under(y, d)
  BY <1>1, <1>3, <1>4, <1>6, NamesPut
<1>8. Good(o)
  BY <1>1, <1>5, <1>7, PlainOutcomes, StopGood
<1> QED
  BY <1>1, <1>5, <1>8, GoodStep

(* Backing::free_bytes. *)
LEMMA FreeBytesKeeps ==
    ASSUME RInv, FreeBytes
    PROVE  RInv'
  BY UpState, ReclaimGood, StopGood, GoodStep DEF FreeBytes, Finish, StepTo

(* The session with a new file under a name. *)
Created(st, name) ==
    [st EXCEPT !.next = @ + 1, !.files = Insert(@, st.next, EmptyNode),
               !.entries = Insert(@, name, st.next), !.handles = @ \cup {st.next}]

(* A new file. *)
LEMMA CreatedUnder ==
    ASSUME NEW st, NEW disk, Under(st, disk), NEW name \in Name, st.next <= MaxId, NEW y, y = Created(st, name)
    PROVE  /\ Under(y, disk) /\ y.com = st.com /\ y.next = st.next + 1 /\ y.handles = st.handles \cup {st.next}
           /\ y.slot = st.slot /\ y.used = st.used
           /\ y.entries = Insert(st.entries, name, st.next) /\ y.files = Insert(st.files, st.next, EmptyNode)
<1>1. IsSession(st) /\ IsRecord(st, SessionFields)
  BY DEF Under, IsSession, SessionFields
<1>2. /\ st.next \in 1..(MaxId + 1) /\ IsFiles(st.files) /\ IsEntries(st.entries)
      /\ \A id \in DOMAIN st.files : id < st.next
      /\ st.handles \subseteq DOMAIN st.files /\ Linked(st.entries) \subseteq DOMAIN st.files
  BY <1>1 DEF IsSession
<1>3. PICK k : k = st.next
  OBVIOUS
<1>4. k \in Id /\ k + 1 \in 1..(MaxId + 1) /\ k \in Nat
  BY <1>2, <1>3, RollbackAssumption DEF Id
<1>5. PICK F : F = st.files
  OBVIOUS
<1>6. PICK G : G = Insert(F, k, EmptyNode)
  OBVIOUS
<1>7. IsMap(G) /\ DOMAIN G = DOMAIN F \cup {k} /\ G[k] = EmptyNode /\ \A j \in DOMAIN F \ {k} : G[j] = F[j]
  BY <1>6 DEF Insert, IsMap
<1>8. k \notin DOMAIN F
  BY <1>2, <1>3, <1>4, <1>5
<1>9. IsNode(EmptyNode) /\ DOMAIN EmptyNode.pages = {}
  BY <1>2, <1>5, <1>8, NodeOfIs DEF NodeOf
<1>10. IsFiles(G)
  BY <1>2, <1>4, <1>5, <1>7, <1>9 DEF IsFiles
<1>11. \A j \in DOMAIN G : j < k + 1
  BY <1>2, <1>3, <1>4, <1>5, <1>7 DEF IsFiles, Id
<1>12. PICK E : E = st.entries
  OBVIOUS
<1>13. PICK L : L = Insert(E, name, k)
  OBVIOUS
<1>14. IsEntries(L) /\ Linked(L) \subseteq Linked(E) \cup {k}
  <2>1. name \in Name \cup Dir /\ k \in (IF name \in Dir THEN {Directory} ELSE Id) /\ IsEntries(E)
    BY <1>2, <1>4, <1>12, RollbackAssumption
  <2> QED
    BY <1>13, <2>1, EntriesInsert
<1>15. /\ IsRecord(y, SessionFields) /\ y.com = st.com /\ y.slot = st.slot /\ y.used = st.used /\ y.next = k + 1
       /\ y.entries = L /\ y.handles = st.handles \cup {k} /\ y.files = G
  BY <1>1, <1>3, <1>5, <1>6, <1>12, <1>13 DEF Created, IsRecord, SessionFields, IsMap
<1>16. Under(y, disk)
  BY <1>2, <1>5, <1>7, <1>12, <1>14, <1>15, <1>8, <1>9, <1>4, <1>10, <1>11, NamesUnder
<1> QED
  BY <1>3, <1>5, <1>6, <1>12, <1>13, <1>15, <1>16

(* The outcomes of a creation. *)
CreateEnds(q, name, o) ==
    \/ ~q.ok /\ o = q
    \/ q.ok /\ o = Refuse(q.s, q.d)
    \/ q.ok /\ o = Ok(Created(q.s, name), q.d)

(* Backing::open. *)
LEMMA OpenFileKeeps ==
    ASSUME RInv, NEW name \in Name, OpenFile(name)
    PROVE  RInv'
<1>1. Up /\ Under(s, d) /\ IsSession(s) /\ IsEntries(s.entries) /\ Linked(s.entries) \subseteq DOMAIN s.files /\ s.handles \subseteq DOMAIN s.files
  BY UpState DEF OpenFile, IsSession
<1>2. CASE name \in DOMAIN s.entries
  <2>1. PICK E : E = s.entries
    OBVIOUS
  <2>2. PICK H : H = s.handles \cup {s.entries[name]}
    OBVIOUS
  <2>3. PICK y : y = PutNames(s, E, H)
    OBVIOUS
  <2>4. PICK o : (o = Ok(y, d) \/ o = Stop(d)) /\ StepTo(o)
    <3>1. y = [s EXCEPT !.handles = @ \cup {s.entries[name]}]
      BY <1>1, <2>1, <2>2, <2>3 DEF PutNames, IsSession, IsRecord, IsMap
    <3> QED
      BY <1>2, <3>1 DEF OpenFile, Finish, StepTo
  <2>5. s.entries[name] \in DOMAIN s.files
    BY <1>1, <1>2, RollbackAssumption, LinkedAre DEF IsEntries, Id, Directory
  <2>6. Under(y, d)
    BY <1>1, <2>1, <2>2, <2>3, <2>5, NamesPut
  <2>7. Good(o)
    BY <1>1, <2>4, <2>6, PlainOutcomes, StopGood
  <2> QED
    BY <1>1, <2>4, <2>7, GoodStep
<1>3. CASE name \notin DOMAIN s.entries
  <2>1. s.next <= MaxId
    BY <1>3 DEF OpenFile
  <2>2. PICK o : /\ \/ o = Refuse(s, d) \/ o = Stop(d)
                    \/ \E q \in ReclaimClosedFiles(s, d) \cup {Ok(s, d)} : CreateEnds(q, name, o)
                 /\ StepTo(o)
    BY <1>3 DEF OpenFile, Finish, StepTo, Then, CreateEnds, Created
  <2>3. CASE o = Refuse(s, d) \/ o = Stop(d)
    BY <1>1, <2>3, PlainOutcomes, StopGood, <2>2, GoodStep
  <2>4. ASSUME NEW q \in ReclaimClosedFiles(s, d) \cup {Ok(s, d)}, CreateEnds(q, name, o)
        PROVE  Good(o)
    <3>1. Good(q) /\ (q.ok => q.s.next = s.next)
      BY <1>1, PlainOutcomes, ReclaimGood, <2>4 DEF Keeps
    <3>2. CASE ~q.ok /\ o = q
      BY <3>1, <3>2
    <3>3. PICK t, e : t = q.s /\ e = q.d
      OBVIOUS
    <3>4. q.ok => Under(t, e) /\ t.next <= MaxId
      BY <2>1, <3>1, <3>3 DEF Good
    <3>5. CASE q.ok /\ o = Refuse(q.s, q.d)
      BY <3>3, <3>4, <3>5, PlainOutcomes
    <3>6. CASE q.ok /\ o = Ok(Created(q.s, name), q.d)
      BY <3>4, <3>6, CreatedUnder, <3>3, PlainOutcomes
    <3> QED
      BY <2>4, <3>2, <3>5, <3>6 DEF CreateEnds
  <2> QED
    BY <1>1, <2>2, <2>3, <2>4, GoodStep
<1> QED
  BY <1>2, <1>3

(* What sync_dir hands to commit: the names of dir as the session has them *)
(* and those of other directories as committed. *)
Here(E, dir) == {p \in DOMAIN E : Parent[p] = dir}

Elsewhere(E, dir) == {p \in DOMAIN E : Parent[p] # dir}

DirEntries(st, dir) ==
    Extend(Restrict(st.entries, Here(st.entries, dir)),
           Extend(Restrict(st.com.entries, Elsewhere(st.com.entries, dir)), [p \in {dir} \ {Root} |-> Directory]))

DirFresh(st, dir) == Linked(Restrict(st.entries, Here(st.entries, dir))) \ DOMAIN st.com.files

DirFiles(st, dir) == Extend(st.com.files, [id \in DirFresh(st, dir) |-> EmptyNode])

DirCandidate(st, dir) == [st.com EXCEPT !.entries = DirEntries(st, dir), !.files = DirFiles(st, dir)]

(* The names it hands over. *)
DirShape(st, dir, E) ==
    /\ IsMap(E) /\ DOMAIN E = Here(st.entries, dir) \cup Elsewhere(st.com.entries, dir) \cup ({dir} \ {Root})
    /\ \A p \in Here(st.entries, dir) : E[p] = st.entries[p]
    /\ \A p \in Elsewhere(st.com.entries, dir) \ Here(st.entries, dir) : E[p] = st.com.entries[p]
    /\ \A p \in ({dir} \ {Root}) \ (Here(st.entries, dir) \cup Elsewhere(st.com.entries, dir)) : E[p] = Directory

(* They are so. *)
LEMMA DirEntriesAre ==
    ASSUME NEW st, NEW dir, NEW E, E = DirEntries(st, dir)
    PROVE  DirShape(st, dir, E)
  BY RestrictIs DEF Extend, DirEntries, IsMap, DirShape

(* The files that it hands over for the first time. *)
LEMMA DirFreshAre ==
    ASSUME NEW st, IsSession(st), NEW dir, NEW id
    PROVE  id \in DirFresh(st, dir) <=> /\ id \notin DOMAIN st.com.files /\ id # Directory
                                       /\ \E p \in Here(st.entries, dir) : st.entries[p] = id
  BY RestrictIs, LinkedAre DEF DirFresh

(* It is a candidate. *)
LEMMA DirCandidateIs ==
    ASSUME NEW st, IsSession(st), NEW dir \in Dir \cup {Root}, NEW c, c = DirCandidate(st, dir)
    PROVE  /\ Candidate(st, c) /\ c.entries = DirEntries(st, dir)
           /\ DOMAIN c.files = DOMAIN st.com.files \cup DirFresh(st, dir)
           /\ \A id \in DOMAIN st.com.files : c.files[id] = st.com.files[id]
           /\ \A id \in DirFresh(st, dir) : c.files[id] = EmptyNode
<1>1. /\ IsManifest(st.com) /\ IsFiles(st.files) /\ IsEntries(st.entries) /\ DOMAIN st.com.files \subseteq DOMAIN st.files
      /\ Linked(st.entries) \subseteq DOMAIN st.files
  BY DEF IsSession
<1>2. IsRecord(st.com, {"entries", "files", "gen", "next"}) /\ IsEntries(st.com.entries) /\ IsFiles(st.com.files)
  BY <1>1 DEF IsManifest
<1>3. PICK E : E = DirEntries(st, dir)
  OBVIOUS
<1>4. PICK G : G = DirFiles(st, dir)
  OBVIOUS
<1>5. PICK fresh : fresh = DirFresh(st, dir)
  OBVIOUS
<1>6. PICK N : N = [id \in fresh |-> EmptyNode]
  OBVIOUS
<1>7. PICK F : F = st.com.files
  OBVIOUS
<1>8. G = Extend(F, N)
  BY <1>4, <1>5, <1>6, <1>7 DEF DirFiles
<1>9. IsMap(G) /\ DOMAIN G = DOMAIN F \cup DOMAIN N /\ (\A id \in DOMAIN F : G[id] = F[id]) /\ \A id \in DOMAIN N \ DOMAIN F : G[id] = N[id]
  BY <1>8 DEF Extend, IsMap
<1>10. \A id \in fresh : id \notin DOMAIN F /\ id \in DOMAIN st.files
  <2>1. SUFFICES ASSUME NEW id \in fresh
                 PROVE  id \notin DOMAIN F /\ id \in DOMAIN st.files
    OBVIOUS
  <2>2. /\ id \notin DOMAIN st.com.files /\ id # Directory
        /\ \E p \in Here(st.entries, dir) : st.entries[p] = id
    BY <1>5, DirFreshAre
  <2>3. \E p \in DOMAIN st.entries : st.entries[p] = id
    BY <2>2 DEF Here
  <2>4. id \in Linked(st.entries)
    BY <1>1, <2>2, <2>3, LinkedAre DEF IsEntries
  <2> QED
    BY <1>1, <1>7, <2>2, <2>4
<1>11. DOMAIN G = DOMAIN F \cup fresh /\ (\A id \in DOMAIN F : G[id] = F[id]) /\ \A id \in fresh : G[id] = EmptyNode
  BY <1>6, <1>9, <1>10
<1>12. IsNode(EmptyNode) /\ DOMAIN EmptyNode.pages = {}
  <2>1. PICK Z : Z = [id \in {} |-> EmptyNode]
    OBVIOUS
  <2>2. IsFiles(Z) /\ DOMAIN Z = {}
    BY <2>1 DEF IsFiles, IsMap
  <2>3. IsNode(NodeOf(Z, 0)) /\ DOMAIN NodeOf(Z, 0).pages = {}
    BY <2>2, NodeOfIs
  <2> QED
    BY <2>2, <2>3 DEF NodeOf
<1>13. IsFiles(G)
  BY <1>1, <1>2, <1>7, <1>9, <1>10, <1>11, <1>12 DEF IsFiles
<1>14. From(G, st)
  BY <1>7, <1>11, <1>12 DEF From, HasPage
<1>15. IsEntries(E)
  <2>0. DirShape(st, dir, E)
    BY <1>3, DirEntriesAre
  <2>1. /\ IsMap(E) /\ DOMAIN E = Here(st.entries, dir) \cup Elsewhere(st.com.entries, dir) \cup ({dir} \ {Root})
        /\ \A p \in Here(st.entries, dir) : E[p] = st.entries[p]
        /\ \A p \in Elsewhere(st.com.entries, dir) \ Here(st.entries, dir) : E[p] = st.com.entries[p]
        /\ \A p \in ({dir} \ {Root}) \ (Here(st.entries, dir) \cup Elsewhere(st.com.entries, dir)) : E[p] = Directory
    BY <2>0 DEF DirShape
  <2>2. Here(st.entries, dir) \subseteq DOMAIN st.entries /\ Elsewhere(st.com.entries, dir) \subseteq DOMAIN st.com.entries
    BY DEF Here, Elsewhere
  <2>3. DOMAIN E \subseteq Name \cup Dir
    BY <1>1, <1>2, <2>1, <2>2 DEF IsEntries
  <2>4. ASSUME NEW p \in DOMAIN E
        PROVE  E[p] \in IF p \in Dir THEN {Directory} ELSE Id
    BY <1>1, <2>1, <2>2, <1>2 DEF IsEntries
  <2> QED
    BY <2>1, <2>3, <2>4 DEF IsEntries
<1>16. IsRecord(c, {"entries", "files", "gen", "next"}) /\ c.entries = E /\ c.files = G
  BY <1>2, <1>3, <1>4 DEF DirCandidate, IsRecord, IsMap
<1>17. Candidate(st, c)
  BY <1>1, <1>7, <1>10, <1>11, <1>13, <1>14, <1>15, <1>16 DEF Candidate
<1> QED
  BY <1>3, <1>5, <1>7, <1>11, <1>16, <1>17

(* Backing::sync_dir. *)
LEMMA SyncDirKeeps ==
    ASSUME RInv, NEW dir \in Dir \cup {Root}, SyncDir(dir)
    PROVE  RInv'
<1>1. Up /\ Under(s, d) /\ IsSession(s)
  BY UpState DEF SyncDir
<1>2. PICK c : c = DirCandidate(s, dir)
  OBVIOUS
<1>3. PICK o : (o \in Commit(s, d, c) \/ o = Stop(d)) /\ StepTo(o)
  BY <1>1, <1>2 DEF IsSession, IsManifest, SyncDir, Finish, StepTo, DirCandidate, DirEntries, DirFiles,
     DirFresh, Here, Elsewhere, IsRecord
<1>4. Candidate(s, c)
  BY <1>1, <1>2, DirCandidateIs
<1>5. Good(o)
  BY <1>1, <1>3, <1>4, CommitGood, StopGood
<1> QED
  BY <1>1, <1>3, <1>5, GoodStep

-----------------------------------------------------------------------------
(* Opening. *)

(* What a step of an open does to the directories: what they show and what *)
(* is certain stay, and the witness may select nothing else. *)
Calm(a, b) ==
    /\ IsDisk(b) /\ b.anchor.may \cup {b.anchor.now} \subseteq a.anchor.may \cup {a.anchor.now}
    /\ (Flags(a) => Flags(b)) /\ PagesKept(a, b, Slot) /\ (\A m : FileKept(a, b, m))
    /\ (\A x \in Slot : b.page[x].now = a.page[x].now) /\ \A k \in {0, 1} : b.man[k].now = a.man[k].now

(* Such steps one after the other. *)
LEMMA CalmTrans ==
    ASSUME NEW a, NEW b, NEW e, Calm(a, b), Calm(b, e)
    PROVE  Calm(a, e)
  BY DEF Calm, PagesKept, FileKept

(* They leave the directories safe. *)
LEMMA CalmSafe ==
    ASSUME NEW a, NEW b, Calm(a, b), Safe(a)
    PROVE  Safe(b)
<1>1. ASSUME NEW m \in b.anchor.may \cup {b.anchor.now}, m # NoManifest
      PROVE  CertainOn(b, m)
  <2>1. m \in a.anchor.may \cup {a.anchor.now} /\ Manifest(m)
    BY <1>1 DEF Calm, IsDisk
  <2>2. CertainOn(a, m)
    BY <1>1, <2>1 DEF Safe
  <2>3. PICK j \in {0, 1} : CertainAt(a, m, j)
    BY <2>2 DEF CertainOn
  <2>4. Flags(b) /\ FileIs(b, m, j)
    BY <2>3 DEF CertainAt, Calm, FileKept
  <2>5. PagesKept(a, b, SlotsOf(m.files))
    BY <1>1, <2>1, SlotsInArena DEF Manifest, IsManifest, Calm, PagesKept
  <2>6. CertainAt(b, m, j)
    BY <2>3, <2>4, <2>5, CertainKept
  <2> QED
    BY <2>6 DEF CertainOn
<1> QED
  BY <1>1 DEF Safe, Calm

(* A sync of the arena. *)
LEMMA CalmArena ==
    ASSUME NEW a, IsDisk(a), NEW e, e \in {ArenaSynced(a), ArenaSyncFailed(a)}
    PROVE  Calm(a, e)
<1>1. IsDisk(e) /\ e.man = a.man /\ e.anchor = a.anchor /\ (Flags(a) => Flags(e)) /\ PagesKept(a, e, Slot)
  BY ArenaSyncs, ArenaKeeps
<1>2. \A m : FileKept(a, e, m)
  BY <1>1 DEF FileKept, FileIs
<1>3. \A x \in Slot : e.page[x].now = a.page[x].now
  <2>1. SUFFICES ASSUME NEW x \in Slot
                 PROVE  e.page[x].now = a.page[x].now
    OBVIOUS
  <2>2. IsRecord(a.page[x], {"dirty", "may", "now"})
    BY DEF IsDisk, IsCell
  <2>3. Flushed(a.page[x]).now = a.page[x].now /\ Unflushed(a.page[x]).now = a.page[x].now
    BY <2>2 DEF Flushed, Unflushed, Cell, IsRecord
  <2>4. e.page[x] = Flushed(a.page[x]) \/ e.page[x] = Unflushed(a.page[x])
    BY ArenaSyncs
  <2> QED
    BY <2>3, <2>4
<1> QED
  BY <1>1, <1>2, <1>3 DEF Calm

(* The directories after a change of the length, of the marker or of pages. *)
PutLen(disk, c) == [disk EXCEPT !.len = c]

PutMarker(disk, c) == [disk EXCEPT !.marker = c]

(* The length and the marker stay set when they are certain. *)
LEMMA CalmFlag ==
    ASSUME NEW a, IsDisk(a), NEW e,
           \/ e = PutLen(a, Wrote(a.len, TRUE, FALSE))
           \/ e = PutMarker(a, Wrote(a.marker, TRUE, FALSE))
           \/ e = PutMarker(a, Flushed(a.marker))
           \/ e = PutMarker(a, Unflushed(a.marker))
    PROVE  /\ Calm(a, e) /\ e.page = a.page /\ e.man = a.man /\ e.anchor = a.anchor
           /\ e = PutLen(a, Wrote(a.len, TRUE, FALSE)) => e.len = Wrote(a.len, TRUE, FALSE)
           /\ e = PutMarker(a, Wrote(a.marker, TRUE, FALSE)) => e.marker = Wrote(a.marker, TRUE, FALSE) /\ e.len = a.len
           /\ e = PutMarker(a, Flushed(a.marker)) => e.marker = Flushed(a.marker) /\ e.len = a.len
<1>1. IsRecord(a, {"anchor", "len", "man", "marker", "page"}) /\ IsCell(a.len, BOOLEAN) /\ IsCell(a.marker, BOOLEAN)
  BY DEF IsDisk
<1>2. TRUE \in BOOLEAN /\ FALSE \in BOOLEAN
  OBVIOUS
<1>3. /\ IsCell(Wrote(a.len, TRUE, FALSE), BOOLEAN) /\ IsCell(Wrote(a.marker, TRUE, FALSE), BOOLEAN)
      /\ IsCell(Flushed(a.marker), BOOLEAN) /\ IsCell(Unflushed(a.marker), BOOLEAN)
  BY <1>1, <1>2, CellsStay
<1>4. /\ a.len.may = {TRUE} => Wrote(a.len, TRUE, FALSE).may = {TRUE}
      /\ a.marker.may = {TRUE} => /\ Wrote(a.marker, TRUE, FALSE).may = {TRUE}
                                  /\ Flushed(a.marker).may = {TRUE} /\ Unflushed(a.marker).may = {TRUE}
  BY <1>1, FlagStays
<1>5. ASSUME NEW c, IsCell(c, BOOLEAN), (a.len.may = {TRUE}) => (c.may = {TRUE}), e = PutLen(a, c)
      PROVE  Calm(a, e) /\ e.page = a.page /\ e.man = a.man /\ e.anchor = a.anchor /\ e.len = c
  <2>1. /\ IsRecord(e, {"anchor", "len", "man", "marker", "page"}) /\ e.len = c
        /\ e.page = a.page /\ e.man = a.man /\ e.anchor = a.anchor /\ e.marker = a.marker
    BY <1>1, <1>5 DEF PutLen, IsRecord, IsMap
  <2>2. IsDisk(e)
    BY <1>5, <2>1 DEF IsDisk
  <2>3. (Flags(a) => Flags(e)) /\ PagesKept(a, e, Slot) /\ \A m : FileKept(a, e, m)
    BY <1>5, <2>1 DEF Flags, PagesKept, FileKept, FileIs
  <2> QED
    BY <2>1, <2>2, <2>3 DEF Calm
<1>6. ASSUME NEW c, IsCell(c, BOOLEAN), (a.marker.may = {TRUE}) => (c.may = {TRUE}), e = PutMarker(a, c)
      PROVE  Calm(a, e) /\ e.page = a.page /\ e.man = a.man /\ e.anchor = a.anchor /\ e.marker = c /\ e.len = a.len
  <2>1. /\ IsRecord(e, {"anchor", "len", "man", "marker", "page"}) /\ e.marker = c
        /\ e.page = a.page /\ e.man = a.man /\ e.anchor = a.anchor /\ e.len = a.len
    BY <1>1, <1>6 DEF PutMarker, IsRecord, IsMap
  <2>2. IsDisk(e)
    BY <1>6, <2>1 DEF IsDisk
  <2>3. (Flags(a) => Flags(e)) /\ PagesKept(a, e, Slot) /\ \A m : FileKept(a, e, m)
    BY <1>6, <2>1 DEF Flags, PagesKept, FileKept, FileIs
  <2> QED
    BY <2>1, <2>2, <2>3 DEF Calm
<1>7. CASE e = PutLen(a, Wrote(a.len, TRUE, FALSE))
  BY <1>3, <1>4, <1>5, <1>7, <1>6
<1>8. CASE \/ e = PutMarker(a, Wrote(a.marker, TRUE, FALSE))
           \/ e = PutMarker(a, Flushed(a.marker)) \/ e = PutMarker(a, Unflushed(a.marker))
  BY <1>3, <1>4, <1>8, <1>6, <1>5
<1> QED
  BY <1>7, <1>8

(* A manifest file that is synced, or written as it was read. *)
LEMMA CalmManifest ==
    ASSUME NEW a, IsDisk(a), NEW k \in {0, 1}, NEW c,
           c \in {Flushed(a.man[k]), Unflushed(a.man[k]), Wrote(a.man[k], a.man[k].now, NoManifest)},
           NEW e, e = PutManifest(a, k, c)
    PROVE  /\ Calm(a, e) /\ e.page = a.page /\ e.len = a.len /\ e.marker = a.marker /\ e.anchor = a.anchor
           /\ e.man[k] = c /\ e.man[1 - k] = a.man[1 - k]
<1>1. IsManifestCell(a.man[k]) /\ Manifest(a.man[k].now) /\ Manifest(NoManifest) /\ IsRecord(a.man[k], {"dirty", "may", "now"})
  BY DEF IsDisk, IsManifestCell, Manifest
<1>2. IsManifestCell(c)
  BY <1>1, ManifestCellsStay
<1>3. /\ IsDisk(e) /\ e.page = a.page /\ e.len = a.len /\ e.marker = a.marker /\ e.anchor = a.anchor
      /\ e.man[k] = c /\ e.man[1 - k] = a.man[1 - k]
  BY <1>2, ManifestPut
<1>4. c.now = a.man[k].now
  BY <1>1 DEF Flushed, Unflushed, Wrote, Cell, IsRecord
<1>5. \A j \in {0, 1} : j = k \/ j = 1 - k
  OBVIOUS
<1>6. \A m : FileKept(a, e, m)
  <2>1. SUFFICES ASSUME NEW m, NEW j \in {0, 1}, FileIs(a, m, j)
                 PROVE  FileIs(e, m, j)
    BY DEF FileKept
  <2>2. CASE j = k
    <3>1. a.man[k].may = {m} /\ a.man[k].now = m
      BY <2>1, <2>2 DEF FileIs
    <3>2. c.may = {m} /\ c.now = m
      BY <1>1, <3>1, CertainStays, SMTT(30)
    <3> QED
      BY <1>3, <2>2, <3>2 DEF FileIs
  <2>3. CASE j = 1 - k
    BY <1>3, <2>1, <2>3 DEF FileIs
  <2> QED
    BY <1>5, <2>2, <2>3
<1>7. (Flags(a) => Flags(e)) /\ PagesKept(a, e, Slot)
  BY <1>3 DEF Flags, PagesKept
<1>8. \A j \in {0, 1} : e.man[j].now = a.man[j].now
  BY <1>3, <1>4, <1>5
<1> QED
  BY <1>3, <1>6, <1>7, <1>8 DEF Calm

(* The anchor is published again. *)
LEMMA CalmAnchor ==
    ASSUME NEW a, IsDisk(a), NEW x, x \in {Renamed(a.anchor, a.anchor.now), Stored(a.anchor, a.anchor.now)},
           NEW e, e = PutAnchor(a, x)
    PROVE  /\ Calm(a, e) /\ e.page = a.page /\ e.len = a.len /\ e.marker = a.marker /\ e.man = a.man /\ e.anchor = x
           /\ e.anchor.now = a.anchor.now /\ (x = Stored(a.anchor, a.anchor.now) => e.anchor.may = {a.anchor.now})
<1>1. Manifest(a.anchor.now) /\ \A m \in a.anchor.may : Manifest(m)
  BY DEF IsDisk
<1>2. IsRecord(x, {"may", "now"}) /\ x.now = a.anchor.now /\ x.may \subseteq a.anchor.may \cup {a.anchor.now}
  BY DEF Renamed, Stored, IsRecord, IsMap
<1>3. Manifest(x.now) /\ \A m \in x.may : Manifest(m)
  BY <1>1, <1>2
<1>4. IsDisk(e) /\ e.page = a.page /\ e.len = a.len /\ e.marker = a.marker /\ e.man = a.man /\ e.anchor = x
  BY <1>2, <1>3, AnchorPut
<1>5. (Flags(a) => Flags(e)) /\ PagesKept(a, e, Slot) /\ \A m : FileKept(a, e, m)
  BY <1>4 DEF Flags, PagesKept, FileKept, FileIs
<1>6. x = Stored(a.anchor, a.anchor.now) => x.may = {a.anchor.now}
  BY DEF Stored
<1> QED
  BY <1>2, <1>4, <1>5, <1>6 DEF Calm

(* The pages of a manifest are written as they were read. *)
LEMMA CalmRedirty ==
    ASSUME NEW a, IsDisk(a), NEW m, NEW e, e = RedirtyPages(a, m)
    PROVE  /\ Calm(a, e) /\ e.len = a.len /\ e.marker = a.marker /\ e.man = a.man /\ e.anchor = a.anchor
           /\ \A x \in Slot \cap SlotsOf(m.files) : e.page[x].now = a.page[x].now /\ e.page[x].dirty
<1>1. /\ IsRecord(a, {"anchor", "len", "man", "marker", "page"}) /\ IsMap(a.page) /\ DOMAIN a.page = Slot
      /\ \A x \in Slot : IsCell(a.page[x], PageValue)
  BY DEF IsDisk
<1>2. PICK P : P = [x \in Slot |-> IF x \in SlotsOf(m.files) THEN Wrote(a.page[x], a.page[x].now, Torn) ELSE a.page[x]]
  OBVIOUS
<1>3. e = [a EXCEPT !.page = P]
  BY <1>2 DEF RedirtyPages
<1>4. /\ IsRecord(e, {"anchor", "len", "man", "marker", "page"}) /\ e.page = P /\ e.len = a.len /\ e.marker = a.marker
      /\ e.man = a.man /\ e.anchor = a.anchor
  BY <1>1, <1>3 DEF IsRecord, IsMap
<1>5. ASSUME NEW x \in Slot
      PROVE  /\ IsCell(P[x], PageValue) /\ P[x].now = a.page[x].now
             /\ \A v : a.page[x].may = {v} /\ a.page[x].now = v => P[x].may = {v}
             /\ x \in SlotsOf(m.files) => P[x].dirty
  <2>1. IsCell(a.page[x], PageValue) /\ IsRecord(a.page[x], {"dirty", "may", "now"}) /\ a.page[x].now \in PageValue /\ Torn \in PageValue
    BY <1>1 DEF IsCell, PageValue
  <2>2. PICK w : w = Wrote(a.page[x], a.page[x].now, Torn)
    OBVIOUS
  <2>3. IsCell(w, PageValue) /\ w.now = a.page[x].now /\ w.dirty /\ \A v : a.page[x].may = {v} /\ a.page[x].now = v => w.may = {v}
    BY <2>1, <2>2, CellsStay DEF Wrote
  <2>4. P[x] = IF x \in SlotsOf(m.files) THEN w ELSE a.page[x]
    BY <1>2, <2>2
  <2> QED
    BY <2>1, <2>3, <2>4
<1>6. IsMap(P) /\ DOMAIN P = Slot
  BY <1>2 DEF IsMap
<1>7. IsDisk(e)
  BY <1>4, <1>5, <1>6 DEF IsDisk
<1>8. PagesKept(a, e, Slot)
  BY <1>4, <1>5 DEF PagesKept
<1>9. (Flags(a) => Flags(e)) /\ \A n : FileKept(a, e, n)
  BY <1>4 DEF Flags, FileKept, FileIs
<1>10. Calm(a, e)
  BY <1>4, <1>5, <1>7, <1>8, <1>9 DEF Calm
<1> QED
  BY <1>4, <1>5, <1>10

(* A step of an open that ended with o. *)
CalmEnd(a, o) == Calm(a, o.d) /\ o.ok \in BOOLEAN /\ o.fault \in BOOLEAN

(* The ends of such a step. *)
LEMMA EndsAre ==
    ASSUME NEW a, NEW e
    PROVE  /\ Done(e).d = e /\ Done(e).ok /\ Failed(e).d = e /\ ~Failed(e).ok /\ Mismatch(e).d = e /\ ~Mismatch(e).ok
           /\ Calm(a, e) => CalmEnd(a, Done(e)) /\ CalmEnd(a, Failed(e)) /\ CalmEnd(a, Mismatch(e))
  BY DEF Done, Failed, Mismatch, CalmEnd

(* A sync of the arena. *)
LEMMA SyncArenaEnds ==
    ASSUME NEW a, IsDisk(a), NEW o \in SyncArena(a)
    PROVE  /\ CalmEnd(a, o) /\ o.d.man = a.man /\ o.d.marker = a.marker /\ o.d.anchor = a.anchor
           /\ o.ok => o.d.len = Flushed(a.len) /\ \A x \in Slot : o.d.page[x] = Flushed(a.page[x])
  BY CalmArena, ArenaSyncs, EndsAre DEF SyncArena

(* A sync of a manifest file. *)
LEMMA SyncManifestEnds ==
    ASSUME NEW a, IsDisk(a), NEW k \in {0, 1}, NEW o \in SyncManifest(a, k)
    PROVE  /\ CalmEnd(a, o) /\ o.d.page = a.page /\ o.d.len = a.len /\ o.d.marker = a.marker /\ o.d.anchor = a.anchor
           /\ o.d.man[1 - k] = a.man[1 - k] /\ (o.ok => o.d.man[k] = Flushed(a.man[k]))
<1>1. PICK v, w : v = Flushed(a.man[k]) /\ w = Unflushed(a.man[k])
  OBVIOUS
<1>2. PICK e : e = PutManifest(a, k, v)
  OBVIOUS
<1>3. PICK f : f = PutManifest(a, k, w)
  OBVIOUS
<1>4. /\ Calm(a, e) /\ e.page = a.page /\ e.len = a.len /\ e.marker = a.marker /\ e.anchor = a.anchor
      /\ e.man[k] = v /\ e.man[1 - k] = a.man[1 - k]
  BY <1>1, <1>2, CalmManifest
<1>5. /\ Calm(a, f) /\ f.page = a.page /\ f.len = a.len /\ f.marker = a.marker /\ f.anchor = a.anchor
      /\ f.man[1 - k] = a.man[1 - k]
  BY <1>1, <1>3, CalmManifest
<1>6. o = Done(e) \/ o = Failed(f)
  BY <1>1, <1>2, <1>3 DEF SyncManifest, PutManifest
<1>7. CASE o = Done(e)
  BY <1>1, <1>4, <1>7, EndsAre
<1>8. CASE o = Failed(f)
  BY <1>5, <1>8, EndsAre
<1> QED
  BY <1>6, <1>7, <1>8

(* What was written and then synced is certain. *)
LEMMA FlushedWrote ==
    ASSUME NEW c, NEW v, NEW t, NEW w, w = Flushed(Wrote(c, v, t))
    PROVE  w.may = {v} /\ w.now = v
  BY DEF Flushed, Wrote, Cell

(* reserve_storage. *)
LEMMA ReserveStorageEnds ==
    ASSUME NEW a, IsDisk(a), NEW o \in ReserveStorage(a)
    PROVE  CalmEnd(a, o) /\ o.d.anchor = a.anchor /\ (o.ok => o.d.len.may = {TRUE})
<1>1. PICK z : z = PutLen(a, Wrote(a.len, TRUE, FALSE))
  OBVIOUS
<1>2. Calm(a, z) /\ z.anchor = a.anchor /\ z.len = Wrote(a.len, TRUE, FALSE) /\ IsDisk(z)
  BY <1>1, CalmFlag DEF Calm
<1>3. o \in Then(SyncArena(z), LAMBDA p : Then(SyncManifest(p.d, 0), LAMBDA q : SyncManifest(q.d, 1)))
  BY <1>1 DEF ReserveStorage, PutLen
<1>4. PICK p \in SyncArena(z) : o \in IF p.ok THEN Then(SyncManifest(p.d, 0), LAMBDA q : SyncManifest(q.d, 1)) ELSE {p}
  BY <1>3 DEF Then
<1>5. /\ CalmEnd(z, p) /\ p.d.anchor = z.anchor /\ IsDisk(p.d) /\ (p.ok => p.d.len = Flushed(z.len))
  BY <1>2, SyncArenaEnds DEF CalmEnd, Calm
<1>6. p.ok => p.d.len.may = {TRUE}
  <2>1. PICK v : v = TRUE
    OBVIOUS
  <2>2. p.ok => p.d.len = Flushed(Wrote(a.len, v, FALSE))
    BY <1>2, <1>5, <2>1
  <2>3. PICK c, t : c = a.len /\ t = FALSE
    OBVIOUS
  <2>4. PICK w : w = Flushed(Wrote(c, v, t))
    OBVIOUS
  <2>5. w.may = {v}
    BY <2>4, FlushedWrote
  <2>6. p.ok => p.d.len = w
    BY <2>2, <2>3, <2>4
  <2> QED
    BY <2>1, <2>5, <2>6
<1>7. CASE ~p.ok
  BY <1>4, <1>7, <1>2, <1>5, CalmTrans DEF CalmEnd
<1>8. CASE p.ok
  <2>1. o \in Then(SyncManifest(p.d, 0), LAMBDA q : SyncManifest(q.d, 1))
    BY <1>4, <1>8
  <2>2. PICK q \in SyncManifest(p.d, 0) : o \in IF q.ok THEN SyncManifest(q.d, 1) ELSE {q}
    BY <2>1 DEF Then
  <2>3. PICK b : b = p.d
    OBVIOUS
  <2>4. q \in SyncManifest(b, 0) /\ 0 \in {0, 1} /\ IsDisk(b)
    BY <1>5, <2>2, <2>3
  <2>5. CalmEnd(b, q) /\ q.d.anchor = b.anchor /\ q.d.len = b.len
    BY <2>4, SyncManifestEnds
  <2>6. Calm(a, b)
    BY <1>2, <1>5, <2>3, CalmTrans DEF CalmEnd
  <2>7. Calm(a, q.d) /\ IsDisk(q.d)
    BY <2>5, <2>6, CalmTrans DEF CalmEnd, Calm
  <2>8. CASE ~q.ok
    BY <1>2, <1>5, <2>2, <2>3, <2>5, <2>7, <2>8 DEF CalmEnd
  <2>9. CASE q.ok
    <3>1. PICK e : e = q.d
      OBVIOUS
    <3>2. o \in SyncManifest(e, 1) /\ 1 \in {0, 1} /\ IsDisk(e)
      BY <2>2, <2>7, <2>9, <3>1
    <3>3. CalmEnd(e, o) /\ o.d.anchor = e.anchor /\ o.d.len = e.len
      BY <3>2, SyncManifestEnds
    <3>4. Calm(a, o.d)
      BY <2>7, <3>1, <3>3, CalmTrans DEF CalmEnd
    <3> QED
      BY <1>2, <1>5, <1>6, <1>8, <2>3, <2>5, <3>1, <3>3, <3>4 DEF CalmEnd
  <2> QED
    BY <2>8, <2>9
<1> QED
  BY <1>7, <1>8

(* The phases of open_backing after the evidence was read: the marker, the *)
(* selected manifest j, its pages, and the storage of all. *)
MarkEnds(e) ==
    LET marked == PutMarker(e, Wrote(e.marker, TRUE, FALSE))
    IN  {Failed(PutMarker(marked, Unflushed(marked.marker))), Failed(PutMarker(marked, Flushed(marked.marker))),
         Done(PutMarker(marked, Flushed(marked.marker)))}

KeepManifest(b, j, m) ==
    Then(SyncManifest(PutManifest(b, j, Wrote(b.man[j], m, NoManifest)), j), LAMBDA c : MarkEnds(c.d))

KeepPages(a, j, m) == Then(SyncArena(RedirtyPages(a, m)), LAMBDA b : KeepManifest(b.d, j, m))

KeepAll(e, j, m) == Then(ReserveStorage(e), LAMBDA a : KeepPages(a.d, j, m))

(* The marker is certain after it. *)
LEMMA MarkEndsAre ==
    ASSUME NEW e, IsDisk(e), NEW o \in MarkEnds(e)
    PROVE  /\ CalmEnd(e, o) /\ o.d.page = e.page /\ o.d.len = e.len /\ o.d.man = e.man /\ o.d.anchor = e.anchor
           /\ o.ok => o.d.marker.may = {TRUE}
<1>1. PICK f : f = PutMarker(e, Wrote(e.marker, TRUE, FALSE))
  OBVIOUS
<1>2. /\ Calm(e, f) /\ f.page = e.page /\ f.man = e.man /\ f.anchor = e.anchor /\ f.marker = Wrote(e.marker, TRUE, FALSE)
      /\ f.len = e.len /\ IsDisk(f)
  BY <1>1, CalmFlag DEF Calm
<1>3. PICK g : g = PutMarker(f, Flushed(f.marker))
  OBVIOUS
<1>4. PICK h : h = PutMarker(f, Unflushed(f.marker))
  OBVIOUS
<1>5. /\ Calm(f, g) /\ g.page = f.page /\ g.man = f.man /\ g.anchor = f.anchor /\ g.marker = Flushed(f.marker)
      /\ g.len = f.len
  BY <1>2, <1>3, CalmFlag
<1>6. Calm(f, h) /\ h.page = f.page /\ h.man = f.man /\ h.anchor = f.anchor /\ h.len = f.len
  BY <1>2, <1>4, CalmFlag DEF IsDisk, PutMarker, IsRecord
<1>7. Calm(e, g) /\ Calm(e, h)
  BY <1>2, <1>5, <1>6, CalmTrans
<1>8. g.marker.may = {TRUE}
  <2>1. PICK c, v, t : c = e.marker /\ v = TRUE /\ t = FALSE
    OBVIOUS
  <2>2. PICK w : w = Flushed(Wrote(c, v, t))
    OBVIOUS
  <2>3. w.may = {v}
    BY <2>2, FlushedWrote
  <2>4. g.marker = w
    BY <1>2, <1>5, <2>1, <2>2
  <2> QED
    BY <2>1, <2>3, <2>4
<1>9. o \in {Failed(h), Failed(g), Done(g)}
  BY <1>1, <1>3, <1>4 DEF MarkEnds
<1>10. CASE o = Failed(h)
  BY <1>2, <1>6, <1>7, <1>10, EndsAre
<1>11. CASE o = Failed(g)
  BY <1>2, <1>5, <1>7, <1>11, EndsAre
<1>12. CASE o = Done(g)
  BY <1>2, <1>5, <1>7, <1>8, <1>12, EndsAre
<1> QED
  BY <1>9, <1>10, <1>11, <1>12

(* So is the selected manifest. *)
ManifestKept(b, o, m, j) ==
    /\ CalmEnd(b, o) /\ o.d.anchor = b.anchor
    /\ o.ok => o.d.page = b.page /\ o.d.len = b.len /\ FileIs(o.d, m, j) /\ o.d.marker.may = {TRUE}

(* After its phase the selected manifest is certain. *)
LEMMA KeepManifestEnds ==
    ASSUME NEW b, IsDisk(b), NEW j \in {0, 1}, NEW m, b.man[j].now = m, NEW o \in KeepManifest(b, j, m)
    PROVE  ManifestKept(b, o, m, j)
<1>1. PICK w : w = Wrote(b.man[j], m, NoManifest)
  OBVIOUS
<1>2. PICK e : e = PutManifest(b, j, w)
  OBVIOUS
<1>3. /\ Calm(b, e) /\ e.page = b.page /\ e.len = b.len /\ e.marker = b.marker /\ e.anchor = b.anchor /\ e.man[j] = w /\ IsDisk(e)
  BY <1>1, <1>2, CalmManifest DEF Calm
<1>4. o \in Then(SyncManifest(e, j), LAMBDA c : MarkEnds(c.d))
  BY <1>1, <1>2 DEF KeepManifest
<1>5. PICK c \in SyncManifest(e, j) : o \in IF c.ok THEN MarkEnds(c.d) ELSE {c}
  BY <1>4 DEF Then
<1>6. /\ CalmEnd(e, c) /\ c.d.page = e.page /\ c.d.len = e.len /\ c.d.anchor = e.anchor
      /\ c.ok => c.d.man[j] = Flushed(e.man[j])
  BY <1>3, SyncManifestEnds
<1>7. Calm(b, c.d) /\ IsDisk(c.d)
  BY <1>3, <1>6, CalmTrans DEF CalmEnd, Calm
<1>8. CASE ~c.ok
  BY <1>3, <1>5, <1>6, <1>7, <1>8 DEF CalmEnd, ManifestKept
<1>9. CASE c.ok
  <2>1. PICK g : g = c.d
    OBVIOUS
  <2>2. o \in MarkEnds(g) /\ IsDisk(g)
    BY <1>5, <1>7, <1>9, <2>1
  <2>3. /\ CalmEnd(g, o) /\ o.d.page = g.page /\ o.d.len = g.len /\ o.d.man = g.man /\ o.d.anchor = g.anchor
        /\ o.ok => o.d.marker.may = {TRUE}
    BY <2>2, MarkEndsAre
  <2>4. Calm(b, o.d)
    BY <1>7, <2>1, <2>3, CalmTrans DEF CalmEnd
  <2>5. g.man[j] = Flushed(w)
    BY <1>3, <1>6, <1>9, <2>1
  <2>6. FileIs(o.d, m, j)
    BY <1>1, <2>5, <2>3 DEF Flushed, Wrote, Cell, FileIs
  <2> QED
    BY <1>3, <1>6, <2>1, <2>3, <2>4, <2>6 DEF CalmEnd, ManifestKept
<1> QED
  BY <1>8, <1>9

(* So are the pages of the selected manifest. *)
PagesShown(a, e, F) == \A x \in SlotsOf(F) : e.page[x].may = {a.page[x].now} /\ e.page[x].now = a.page[x].now

AllKept(a, o, m, j) ==
    /\ CalmEnd(a, o) /\ o.d.anchor = a.anchor
    /\ o.ok => /\ FileIs(o.d, m, j) /\ o.d.marker.may = {TRUE} /\ (a.len.may = {TRUE} => o.d.len.may = {TRUE})
               /\ PagesShown(a, o.d, m.files)

(* After their phase the pages are certain. *)
LEMMA KeepPagesEnds ==
    ASSUME NEW a, IsDisk(a), NEW j \in {0, 1}, NEW m, a.man[j].now = m, IsFiles(m.files), NEW o \in KeepPages(a, j, m)
    PROVE  AllKept(a, o, m, j)
<1>1. PICK e : e = RedirtyPages(a, m)
  OBVIOUS
<1>2. /\ Calm(a, e) /\ e.len = a.len /\ e.man = a.man /\ e.anchor = a.anchor
      /\ \A x \in Slot \cap SlotsOf(m.files) : e.page[x].now = a.page[x].now /\ e.page[x].dirty
  BY <1>1, CalmRedirty
<1>0. IsDisk(e)
  BY <1>2 DEF Calm
<1>3. o \in Then(SyncArena(e), LAMBDA b : KeepManifest(b.d, j, m))
  BY <1>1 DEF KeepPages
<1>4. PICK b \in SyncArena(e) : o \in IF b.ok THEN KeepManifest(b.d, j, m) ELSE {b}
  BY <1>3 DEF Then
<1>5. /\ CalmEnd(e, b) /\ b.d.man = e.man /\ b.d.anchor = e.anchor
      /\ b.ok => b.d.len = Flushed(e.len) /\ \A x \in Slot : b.d.page[x] = Flushed(e.page[x])
  BY <1>0, SyncArenaEnds
<1>9. Calm(e, b.d)
  BY <1>5 DEF CalmEnd
<1>6. Calm(a, b.d) /\ IsDisk(b.d)
  BY <1>2, <1>9, CalmTrans DEF Calm
<1>7. CASE ~b.ok
  BY <1>2, <1>4, <1>5, <1>6, <1>7 DEF CalmEnd, AllKept
<1>8. CASE b.ok
  <2>1. PICK g : g = b.d
    OBVIOUS
  <2>2. o \in KeepManifest(g, j, m) /\ IsDisk(g) /\ g.man[j].now = m
    BY <1>2, <1>4, <1>5, <1>6, <1>8, <2>1
  <2>3. ManifestKept(g, o, m, j)
    BY <2>2, KeepManifestEnds
  <2>7. /\ Calm(g, o.d) /\ o.d.anchor = g.anchor /\ o.ok \in BOOLEAN /\ o.fault \in BOOLEAN
        /\ o.ok => o.d.page = g.page /\ o.d.len = g.len /\ FileIs(o.d, m, j) /\ o.d.marker.may = {TRUE}
    BY <2>3 DEF ManifestKept, CalmEnd
  <2>4. Calm(a, o.d)
    BY <1>6, <2>1, <2>7, CalmTrans
  <2>5. a.len.may = {TRUE} => g.len.may = {TRUE}
    <3>1. PICK c : c = a.len
      OBVIOUS
    <3>2. IsCell(c, BOOLEAN) /\ g.len = Flushed(c)
      BY <1>2, <1>5, <1>8, <2>1, <3>1 DEF IsDisk
    <3> QED
      BY <3>1, <3>2, FlagStays
  <2>6. ASSUME NEW x \in SlotsOf(m.files)
        PROVE  g.page[x].may = {a.page[x].now} /\ g.page[x].now = a.page[x].now
    <3>1. x \in Slot
      BY SlotsInArena
    <3>2. e.page[x].now = a.page[x].now /\ e.page[x].dirty /\ g.page[x] = Flushed(e.page[x])
      BY <1>2, <1>5, <1>8, <2>1, <3>1
    <3> QED
      BY <3>2 DEF Flushed, Cell
  <2>8. PagesShown(a, g, m.files)
    BY <2>6 DEF PagesShown
  <2>9. o.ok => PagesShown(a, o.d, m.files)
    BY <2>7, <2>8 DEF PagesShown
  <2>10. g.anchor = a.anchor
    BY <1>2, <1>5, <2>1
  <2> QED
    BY <2>7, <2>4, <2>5, <2>9, <2>10 DEF CalmEnd, AllKept
<1> QED
  BY <1>7, <1>8

(* All of them. *)
Reopens(e, o, m, j) == CalmEnd(e, o) /\ o.d.anchor = e.anchor /\ (o.ok => CertainAt(o.d, m, j))

(* A successful end of the phases leaves the selected manifest certain. *)
LEMMA KeepAllEnds ==
    ASSUME NEW e, IsDisk(e), NEW j \in {0, 1}, NEW m, e.man[j].now = m, IsFiles(m.files), Authentic(e, m),
           NEW o \in KeepAll(e, j, m)
    PROVE  Reopens(e, o, m, j)
<1>1. o \in Then(ReserveStorage(e), LAMBDA a : KeepPages(a.d, j, m))
  BY DEF KeepAll
<1>2. PICK a \in ReserveStorage(e) : o \in IF a.ok THEN KeepPages(a.d, j, m) ELSE {a}
  BY <1>1 DEF Then
<1>3. CalmEnd(e, a) /\ a.d.anchor = e.anchor /\ (a.ok => a.d.len.may = {TRUE})
  BY ReserveStorageEnds
<1>4. CASE ~a.ok
  BY <1>2, <1>3, <1>4 DEF Reopens
<1>5. CASE a.ok
  <2>1. PICK g : g = a.d
    OBVIOUS
  <2>2. o \in KeepPages(g, j, m) /\ Calm(e, g) /\ g.anchor = e.anchor /\ g.len.may = {TRUE}
    BY <1>2, <1>3, <1>5, <2>1 DEF CalmEnd
  <2>3. IsDisk(g) /\ g.man[j].now = m /\ \A x \in Slot : g.page[x].now = e.page[x].now
    BY <2>2 DEF Calm
  <2>4. AllKept(g, o, m, j)
    BY <2>2, <2>3, KeepPagesEnds
  <2>5. /\ Calm(g, o.d) /\ o.d.anchor = g.anchor /\ o.ok \in BOOLEAN /\ o.fault \in BOOLEAN
        /\ o.ok => FileIs(o.d, m, j) /\ Flags(o.d) /\ PagesShown(g, o.d, m.files)
    BY <2>2, <2>4 DEF AllKept, CalmEnd, Flags
  <2>6. Calm(e, o.d)
    BY <2>2, <2>5, CalmTrans
  <2>7. ASSUME PagesShown(g, o.d, m.files)
        PROVE  CertainFiles(o.d, m.files)
    <3>1. SUFFICES ASSUME NEW id \in DOMAIN m.files, NEW i \in DOMAIN m.files[id].pages
                   PROVE  CertainPage(o.d, m.files[id].pages[i])
      BY DEF CertainFiles
    <3>2. PICK p : p = m.files[id].pages[i]
      OBVIOUS
    <3>3. <<id, i>> \in Refs(m.files)
      BY RefsAre
    <3>4. e.page[p.slot].now = p.val
      BY <3>2, <3>3 DEF Authentic
    <3>5. p.slot \in SlotsOf(m.files)
      BY <3>2, SlotsAre
    <3>6. p.slot \in Slot
      BY <3>5, SlotsInArena
    <3>7. g.page[p.slot].now = p.val
      BY <2>3, <3>4, <3>6
    <3>8. o.d.page[p.slot].may = {p.val} /\ o.d.page[p.slot].now = p.val
      BY <2>7, <3>5, <3>7 DEF PagesShown
    <3> QED
      BY <3>2, <3>8 DEF CertainPage
  <2> QED
    BY <2>2, <2>5, <2>6, <2>7 DEF Reopens, CalmEnd, CertainAt
<1> QED
  BY <1>4, <1>5

(* FileWitness::open. *)
LEMMA OpenWitnessEnds ==
    ASSUME NEW a, IsDisk(a), NEW o \in OpenWitness(a)
    PROVE  /\ CalmEnd(a, o) /\ o.d.anchor.now = a.anchor.now
           /\ o.ok => o.d.anchor.may = {a.anchor.now} /\ a.anchor.now # NoManifest
<1>1. PICK x, y : x = Renamed(a.anchor, a.anchor.now) /\ y = Stored(a.anchor, a.anchor.now)
  OBVIOUS
<1>2. PICK f, g : f = PutAnchor(a, x) /\ g = PutAnchor(a, y)
  OBVIOUS
<1>3. Calm(a, f) /\ f.anchor.now = a.anchor.now
  BY <1>1, <1>2, CalmAnchor
<1>4. Calm(a, g) /\ g.anchor.now = a.anchor.now /\ g.anchor.may = {a.anchor.now}
  BY <1>1, <1>2, CalmAnchor
<1>5. Calm(a, a)
  BY DEF Calm, PagesKept, FileKept
<1>6. CASE a.anchor.now = NoManifest
  BY <1>6, <1>5, EndsAre DEF OpenWitness
<1>7. CASE a.anchor.now # NoManifest
  <2>1. o = Failed(a) \/ o = Failed(f) \/ o = Done(g)
    BY <1>1, <1>2, <1>7 DEF OpenWitness, PutAnchor
  <2>2. CASE o = Failed(a)
    BY <1>5, <2>2, EndsAre
  <2>3. CASE o = Failed(f)
    BY <1>3, <2>3, EndsAre
  <2>4. CASE o = Done(g)
    BY <1>4, <1>7, <2>4, EndsAre
  <2> QED
    BY <2>1, <2>2, <2>3, <2>4
<1> QED
  BY <1>6, <1>7

(* The manifest an open selects is the anchor's. *)
LEMMA WitnessedIs ==
    ASSUME NEW a, Witnessed(a) # {}
    PROVE  Min(Witnessed(a)) \in {0, 1} /\ a.man[Min(Witnessed(a))].now = a.anchor.now
  BY MinIs DEF Witnessed

(* It stays so. *)
LEMMA WitnessedSame ==
    ASSUME NEW a, NEW b, Calm(a, b), b.anchor.now = a.anchor.now
    PROVE  Witnessed(b) = Witnessed(a)
  BY DEF Witnessed, Calm

(* open_backing, the witness opened. *)
SelectEnds(e, o) ==
    \/ o = Mismatch(e)
    \/ /\ Witnessed(e) # {} /\ Authentic(e, e.man[Min(Witnessed(e))].now)
       /\ o \in KeepAll(e, Min(Witnessed(e)), e.man[Min(Witnessed(e))].now)

(* The ends of open_backing are those of its two parts. *)
LEMMA OpenBackingEnds ==
    ASSUME NEW a, NEW o \in OpenBacking(a)
    PROVE  \/ o = Mismatch(a)
           \/ \E q \in OpenWitness(a) : IF q.ok THEN SelectEnds(q.d, o) ELSE o = q
  BY DEF OpenBacking, Then, SelectEnds, KeepAll, KeepPages, KeepManifest, MarkEnds, PutManifest, PutMarker

(* The session of a manifest: assemble_witness. *)
LEMMA AssembledIs ==
    ASSUME NEW m, IsManifest(m), NEW j \in {0, 1}, NEW y, y = Assembled(m, j)
    PROVE  /\ IsSession(y) /\ y.com = m /\ y.slot = j /\ y.entries = m.entries /\ y.files = m.files /\ y.next = m.next
           /\ y.handles = {} /\ y.used = {}
  BY DEF Assembled, IsRecord, IsMap, IsManifest, IsSession

(* It lies over directories where the manifest is certain and witnessed. *)
LEMMA AssembledUnder ==
    ASSUME NEW m, IsManifest(m), NEW j \in {0, 1}, NEW e, IsDisk(e), e.anchor.now = m, e.anchor.may = {m},
           CertainAt(e, m, j), NEW y, y = Assembled(m, j)
    PROVE  Under(y, e)
<1>1. IsSession(y) /\ y.com = m /\ y.slot = j /\ y.files = m.files
  BY AssembledIs
<1>2. DirtyFiles(e, m.files)
  BY DEF CertainAt, CertainFiles, CertainPage, DirtyFiles, DirtyPage
<1> QED
  BY <1>1, <1>2 DEF Under

(* What open_backing does to the directories, and what a successful one *)
(* shows. *)
OpenedTo(e) ==
    /\ Witnessed(e) # {} /\ IsManifest(e.anchor.now) /\ e.anchor.may = {e.anchor.now}
    /\ CertainAt(e, e.anchor.now, Min(Witnessed(e)))

(* A failed open changes nothing that counts, and a successful one makes *)
(* the witnessed manifest certain. *)
LEMMA OpenedIs ==
    ASSUME NEW a, IsDisk(a), NEW o \in OpenBacking(a)
    PROVE  CalmEnd(a, o) /\ (o.ok => OpenedTo(o.d))
<1>1. Calm(a, a)
  BY DEF Calm, PagesKept, FileKept
<1>2. CASE o = Mismatch(a)
  BY <1>1, <1>2, EndsAre
<1>3. CASE \E q \in OpenWitness(a) : IF q.ok THEN SelectEnds(q.d, o) ELSE o = q
  <2>1. PICK q \in OpenWitness(a) : IF q.ok THEN SelectEnds(q.d, o) ELSE o = q
    BY <1>3
  <2>2. /\ CalmEnd(a, q) /\ q.d.anchor.now = a.anchor.now
        /\ q.ok => q.d.anchor.may = {a.anchor.now} /\ a.anchor.now # NoManifest
    BY OpenWitnessEnds
  <2>3. CASE ~q.ok
    BY <2>1, <2>2, <2>3
  <2>4. CASE q.ok
    <3>1. PICK e : e = q.d
      OBVIOUS
    <3>2. Calm(a, e) /\ SelectEnds(e, o) /\ e.anchor.now = a.anchor.now /\ e.anchor.may = {a.anchor.now} /\ a.anchor.now # NoManifest
      BY <2>1, <2>2, <2>4, <3>1 DEF CalmEnd
    <3>3. IsDisk(e)
      BY <3>2 DEF Calm
    <3>4. CASE o = Mismatch(e)
      BY <3>2, <3>4, EndsAre
    <3>5. CASE o # Mismatch(e)
      <4>1. PICK j : j = Min(Witnessed(e))
        OBVIOUS
      <4>2. PICK m : m = e.man[j].now
        OBVIOUS
      <4>3. Witnessed(e) # {} /\ Authentic(e, m) /\ o \in KeepAll(e, j, m)
        BY <3>2, <3>5, <4>1, <4>2 DEF SelectEnds
      <4>4. j \in {0, 1} /\ m = e.anchor.now
        BY <4>1, <4>2, <4>3, WitnessedIs
      <4>5. IsManifest(m) /\ IsFiles(m.files)
        BY <3>2, <3>3, <4>4 DEF IsDisk, Manifest, IsManifest
      <4>6. Reopens(e, o, m, j)
        BY <3>3, <4>2, <4>3, <4>4, <4>5, KeepAllEnds
      <4>7. Calm(e, o.d) /\ o.d.anchor = e.anchor /\ o.ok \in BOOLEAN /\ o.fault \in BOOLEAN /\ (o.ok => CertainAt(o.d, m, j))
        BY <4>6 DEF Reopens, CalmEnd
      <4>8. PICK h : h = o.d
        OBVIOUS
      <4>9. Calm(a, h)
        BY <3>2, <4>7, <4>8, CalmTrans
      <4>10. Witnessed(h) = Witnessed(e)
        BY <4>7, <4>8, WitnessedSame
      <4>11. o.ok => OpenedTo(h)
        BY <3>2, <4>1, <4>3, <4>4, <4>5, <4>7, <4>8, <4>10 DEF OpenedTo
      <4> QED
        BY <4>7, <4>8, <4>9, <4>11 DEF CalmEnd
    <3> QED
      BY <3>4, <3>5
  <2> QED
    BY <2>3, <2>4
<1> QED
  BY <1>2, <1>3, OpenBackingEnds

(* RollbackBacking::open. *)
LEMMA OpenKeeps ==
    ASSUME RInv, Open
    PROVE  RInv'
<1>1. IsDisk(d) /\ s = NoSession /\ pc = "down" /\ restored \in BOOLEAN /\ faults \in 0..MaxFaults /\ (~restored => Safe(d))
  BY DEF RInv, Open
<1>2. PICK o \in OpenBacking(d) :
           /\ d' = o.d
           /\ IF o.ok
              THEN /\ pc' = "up" /\ s' = Assembled(o.d.man[Min(Witnessed(o.d))].now, Min(Witnessed(o.d)))
                   /\ restored' = FALSE /\ faults' = faults
              ELSE (IF o.fault THEN Fault ELSE UNCHANGED faults) /\ UNCHANGED <<pc, s, owed, restored>>
  BY DEF Open
<1>3. out' = "ok"
  BY DEF Open
<1>4. CalmEnd(d, o) /\ (o.ok => OpenedTo(o.d))
  BY <1>1, OpenedIs
<1>5. CASE o.ok
  <2>1. PICK e : e = o.d
    OBVIOUS
  <2>2. PICK j : j = Min(Witnessed(e))
    OBVIOUS
  <2>3. PICK m : m = e.man[j].now
    OBVIOUS
  <2>4. OpenedTo(e) /\ IsDisk(e)
    BY <1>4, <1>5, <2>1 DEF CalmEnd, Calm
  <2>5. j \in {0, 1} /\ m = e.anchor.now
    BY <2>2, <2>3, <2>4, WitnessedIs DEF OpenedTo
  <2>6. IsManifest(m) /\ e.anchor.may = {m} /\ CertainAt(e, m, j)
    BY <2>2, <2>4, <2>5 DEF OpenedTo
  <2>7. PICK y : y = Assembled(m, j)
    OBVIOUS
  <2>8. Under(y, e)
    BY <2>4, <2>5, <2>6, <2>7, AssembledUnder
  <2>9. Safe(e)
    BY <2>8, UnderSafe
  <2>10. s' = y /\ d' = e /\ pc' = "up" /\ restored' = FALSE /\ faults' = faults
    BY <1>2, <1>5, <2>1, <2>2, <2>3, <2>7
  <2>11. Under(s', d') /\ Safe(d') /\ IsDisk(d')
    BY <2>4, <2>8, <2>9, <2>10
  <2> QED
    BY <1>1, <1>3, <2>10, <2>11 DEF RInv
<1>6. CASE ~o.ok
  BY <1>1, <1>2, <1>6, RollbackAssumption, <1>4, CalmSafe, <1>3 DEF Fault, CalmEnd, Calm, RInv
<1> QED
  BY <1>4, <1>5, <1>6 DEF CalmEnd

(* The process ends. *)
LEMMA CloseKeeps ==
    ASSUME RInv, Close
    PROVE  RInv'
  BY UpState, RollbackAssumption DEF Close, RInv, Up, Fault

-----------------------------------------------------------------------------
(* Enrollment, power loss and restores. *)

(* The directories put together. *)
DiskOf(P, L, K, M, A) == [page |-> P, len |-> L, marker |-> K, man |-> M, anchor |-> A]

(* They have their type when their parts have. *)
LEMMA DiskOfIs ==
    ASSUME NEW P, IsMap(P), DOMAIN P = Slot, \A x \in Slot : IsCell(P[x], PageValue),
           NEW L, IsCell(L, BOOLEAN), NEW K, IsCell(K, BOOLEAN),
           NEW M, IsMap(M), DOMAIN M = {0, 1}, \A j \in {0, 1} : IsManifestCell(M[j]),
           NEW A, IsRecord(A, {"may", "now"}), Manifest(A.now), \A m \in A.may : Manifest(m),
           NEW e, e = DiskOf(P, L, K, M, A)
    PROVE  IsDisk(e) /\ e.page = P /\ e.len = L /\ e.marker = K /\ e.man = M /\ e.anchor = A
  BY DEF DiskOf, IsRecord, IsMap, IsDisk

(* A cell whose value is certain. *)
LEMMA CellIs ==
    ASSUME NEW v, NEW c, c = Cell(v)
    PROVE  /\ c.now = v /\ c.may = {v} /\ IsRecord(c, {"dirty", "may", "now"})
           /\ (\A V : v \in V => IsCell(c, V)) /\ (Manifest(v) => IsManifestCell(c))
  BY DEF Cell, IsRecord, IsMap, IsCell, IsManifestCell

(* An anchor that is certain. *)
LEMMA StoredIs ==
    ASSUME NEW r, NEW v, NEW A, A = Stored(r, v)
    PROVE  IsRecord(A, {"may", "now"}) /\ A.now = v /\ A.may = {v}
  BY DEF Stored, IsRecord, IsMap

(* Manifest::empty. *)
LEMMA EmptyIs == IsManifest(EmptyManifest) /\ DOMAIN EmptyManifest.files = {} /\ DOMAIN EmptyManifest.entries = {}
<1>1. PICK z : z = << >>
  OBVIOUS
<1>2. IsMap(z) /\ DOMAIN z = {}
  BY <1>1 DEF IsMap
<1>3. /\ IsRecord(EmptyManifest, {"entries", "files", "gen", "next"}) /\ EmptyManifest.gen = 0 /\ EmptyManifest.next = 1
      /\ EmptyManifest.entries = z /\ EmptyManifest.files = z
  BY <1>1 DEF EmptyManifest, IsRecord, IsMap
<1>4. IsEntries(z) /\ IsFiles(z) /\ Apart(z, z)
  BY <1>2 DEF IsEntries, IsFiles, Apart
<1>5. Linked(z) = {}
  BY <1>2, LinkedAre
<1>6. 1 \in 1..(MaxId + 1)
  BY RollbackAssumption
<1> QED
  BY <1>2, <1>3, <1>4, <1>5, <1>6 DEF IsManifest

(* Fresh directories: nothing is witnessed. *)
LEMMA FreshIs ==
    /\ IsDisk(Fresh) /\ Safe(Fresh) /\ Fresh.anchor.now = NoManifest /\ Fresh.anchor.may = {NoManifest}
    /\ \A j \in {0, 1} : Fresh.man[j] = Cell(NoManifest)
    /\ \A x \in Slot : Fresh.page[x] = Cell(Zero)
<1>1. PICK P : P = [x \in Slot |-> Cell(Zero)]
  OBVIOUS
<1>2. PICK L : L = Cell(FALSE)
  OBVIOUS
<1>3. PICK M : M = [j \in {0, 1} |-> Cell(NoManifest)]
  OBVIOUS
<1>4. PICK A : A = [now |-> NoManifest, may |-> {NoManifest}]
  OBVIOUS
<1>5. PICK z, n, f : z = Zero /\ n = NoManifest /\ f = FALSE
  OBVIOUS
<1>6. PICK cz, cn : cz = Cell(z) /\ cn = Cell(n)
  OBVIOUS
<1>7. z \in PageValue /\ Manifest(n) /\ f \in BOOLEAN /\ L = Cell(f)
  BY <1>2, <1>5 DEF PageValue, Manifest
<1>8. IsCell(cz, PageValue) /\ IsManifestCell(cn) /\ IsCell(L, BOOLEAN)
  BY <1>6, <1>7, CellIs
<1>9. IsMap(P) /\ DOMAIN P = Slot /\ \A x \in Slot : P[x] = cz
  BY <1>1, <1>5, <1>6 DEF IsMap
<1>10. IsMap(M) /\ DOMAIN M = {0, 1} /\ \A j \in {0, 1} : M[j] = cn
  BY <1>3, <1>5, <1>6 DEF IsMap
<1>11. IsRecord(A, {"may", "now"}) /\ A.now = n /\ A.may = {n}
  BY <1>4, <1>5 DEF IsRecord, IsMap
<1>12. PICK e : e = Fresh
  OBVIOUS
<1>13. e = DiskOf(P, L, L, M, A)
  BY <1>1, <1>2, <1>3, <1>4, <1>12 DEF Fresh, DiskOf
<1>14. IsDisk(e) /\ e.page = P /\ e.man = M /\ e.anchor = A
  BY <1>7, <1>8, <1>9, <1>10, <1>11, <1>13, DiskOfIs
<1>15. Safe(e)
  BY <1>5, <1>11, <1>14 DEF Safe
<1> QED
  BY <1>5, <1>6, <1>9, <1>10, <1>11, <1>12, <1>14, <1>15

(* The directories after enrollment. *)
Enrolled(a, A) == [a EXCEPT !.len = Cell(TRUE), !.marker = Cell(TRUE), !.man[0] = Cell(EmptyManifest), !.anchor = A]

(* The empty manifest is certain on them. *)
LEMMA EnrolledIs ==
    ASSUME NEW a, IsDisk(a), a = Fresh, NEW A, IsRecord(A, {"may", "now"}), A.now = EmptyManifest,
           A.may \subseteq {NoManifest, EmptyManifest},
           NEW e, e = Enrolled(a, A)
    PROVE  IsDisk(e) /\ e.anchor = A /\ CertainAt(e, EmptyManifest, 0) /\ Safe(e)
<1>1. PICK m, t : m = EmptyManifest /\ t = TRUE
  OBVIOUS
<1>2. PICK c, L : c = Cell(m) /\ L = Cell(t)
  OBVIOUS
<1>3. IsManifest(m) /\ Manifest(m) /\ Manifest(NoManifest) /\ t \in BOOLEAN
  BY <1>1, EmptyIs DEF Manifest
<1>4. IsManifestCell(c) /\ c.now = m /\ c.may = {m} /\ IsCell(L, BOOLEAN) /\ L.may = {t}
  BY <1>2, <1>3, CellIs
<1>5. /\ IsRecord(a, {"anchor", "len", "man", "marker", "page"}) /\ IsMap(a.man) /\ DOMAIN a.man = {0, 1}
      /\ IsMap(a.page) /\ DOMAIN a.page = Slot /\ (\A x \in Slot : IsCell(a.page[x], PageValue))
      /\ \A j \in {0, 1} : IsManifestCell(a.man[j])
  BY DEF IsDisk
<1>6. PICK M : M = [a.man EXCEPT ![0] = c]
  OBVIOUS
<1>7. IsMap(M) /\ DOMAIN M = {0, 1} /\ M[0] = c /\ M[1] = a.man[1]
  BY <1>5, <1>6 DEF IsMap
<1>8. \A j \in {0, 1} : IsManifestCell(M[j])
  BY <1>4, <1>5, <1>7
<1>9. /\ IsRecord(e, {"anchor", "len", "man", "marker", "page"}) /\ e.page = a.page /\ e.len = L /\ e.marker = L
      /\ e.man = M /\ e.anchor = A
  BY <1>1, <1>2, <1>5, <1>6 DEF Enrolled, IsRecord, IsMap
<1>10. Manifest(A.now) /\ \A n \in A.may : Manifest(n)
  BY <1>1, <1>3
<1>11. IsDisk(e)
  BY <1>4, <1>5, <1>7, <1>8, <1>9, <1>10 DEF IsDisk
<1>12. DOMAIN m.files = {}
  BY <1>1, EmptyIs
<1>13. CertainAt(e, m, 0)
  BY <1>1, <1>4, <1>7, <1>9, <1>12 DEF CertainAt, Flags, FileIs, CertainFiles
<1>14. CertainOn(e, m)
  BY <1>13 DEF CertainOn
<1>15. Safe(e)
  BY <1>1, <1>9, <1>11, <1>14 DEF Safe
<1> QED
  BY <1>1, <1>9, <1>11, <1>13, <1>15

(* RollbackBacking::create. *)
LEMMA CreateKeeps ==
    ASSUME RInv, Create
    PROVE  RInv'
<1>1. pc = "none" /\ d = Fresh /\ ~restored /\ IsDisk(d) /\ faults \in 0..MaxFaults /\ restored \in BOOLEAN /\ out \in {"ok", "invalid"}
  BY DEF RInv, Create
<1>2. PICK done \in BOOLEAN :
           /\ d' = Enrolled(d, IF done THEN Stored(d.anchor, EmptyManifest) ELSE Renamed(d.anchor, EmptyManifest))
           /\ pc' = (IF done THEN "up" ELSE "down")
           /\ s' = (IF done THEN Assembled(EmptyManifest, 0) ELSE NoSession)
           /\ (IF done THEN UNCHANGED faults ELSE Fault)
  BY DEF Create, Enrolled
<1>3. out' = out /\ restored' = restored
  BY DEF Create
<1>12. PICK A : A = IF done THEN Stored(d.anchor, EmptyManifest) ELSE Renamed(d.anchor, EmptyManifest)
  OBVIOUS
<1>4. PICK e : e = Enrolled(d, A)
  OBVIOUS
<1>5. d.anchor.now = NoManifest /\ d.anchor.may = {NoManifest}
  BY <1>1, FreshIs
<1>6. IsRecord(A, {"may", "now"}) /\ A.now = EmptyManifest /\ A.may \subseteq {NoManifest, EmptyManifest} /\ (done => A.may = {EmptyManifest})
  BY <1>12, <1>5 DEF Stored, Renamed, IsRecord, IsMap
<1>7. IsDisk(e) /\ e.anchor = A /\ CertainAt(e, EmptyManifest, 0) /\ Safe(e)
  BY <1>1, <1>4, <1>6, EnrolledIs
<1>8. d' = e
  BY <1>2, <1>4, <1>12
<1>9. faults' \in 0..MaxFaults
  BY <1>1, <1>2, RollbackAssumption DEF Fault
<1>10. CASE done
  BY <1>6, <1>7, <1>10, EmptyIs, AssembledUnder, <1>2, <1>8, <1>1, <1>3, <1>9 DEF RInv
<1>11. CASE ~done
  BY <1>2, <1>11, <1>7, <1>8, <1>1, <1>3, <1>9 DEF RInv
<1> QED
  BY <1>10, <1>11

(* What a power loss leaves is one of what each part may be. *)
LEMMA CrashedIs ==
    ASSUME NEW a, IsDisk(a), NEW f, \A x \in Slot : f[x] \in a.page[x].may,
           NEW m0 \in a.man[0].may, NEW m1 \in a.man[1].may, NEW l \in a.len.may, NEW k \in a.marker.may,
           NEW w \in a.anchor.may,
           NEW P, P = [x \in Slot |-> Cell(f[x])], NEW M, M = [j \in {0, 1} |-> Cell(IF j = 0 THEN m0 ELSE m1)],
           NEW e, e = DiskOf(P, Cell(l), Cell(k), M, Stored(a.anchor, w))
    PROVE  IsDisk(e) /\ (Safe(a) => Safe(e)) /\ e.anchor.now = w
<1>1. PICK L, K, A : L = Cell(l) /\ K = Cell(k) /\ A = Stored(a.anchor, w)
  OBVIOUS
<1>2. l \in BOOLEAN /\ k \in BOOLEAN /\ Manifest(w) /\ Manifest(m0) /\ Manifest(m1) /\ \A x \in Slot : f[x] \in PageValue
  BY DEF IsDisk, IsCell, IsManifestCell
<1>3. IsCell(L, BOOLEAN) /\ IsCell(K, BOOLEAN) /\ L.may = {l} /\ K.may = {k}
  BY <1>1, <1>2, CellIs
<1>4. IsRecord(A, {"may", "now"}) /\ A.now = w /\ A.may = {w}
  BY <1>1, StoredIs
<1>5. ASSUME NEW x \in Slot
      PROVE  IsCell(P[x], PageValue) /\ P[x].may = {f[x]} /\ P[x].now = f[x]
  BY <1>2, CellIs
<1>6. ASSUME NEW j \in {0, 1}
      PROVE  IsManifestCell(M[j]) /\ M[j].may = {M[j].now} /\ M[j].now \in a.man[j].may
  BY <1>2, CellIs
<1>7. IsMap(P) /\ DOMAIN P = Slot /\ IsMap(M) /\ DOMAIN M = {0, 1}
  BY DEF IsMap
<1>8. e = DiskOf(P, L, K, M, A) /\ Manifest(A.now) /\ \A m \in A.may : Manifest(m)
  BY <1>1, <1>2, <1>4
<1>9. IsDisk(e) /\ e.page = P /\ e.len = L /\ e.marker = K /\ e.man = M /\ e.anchor = A
  BY <1>3, <1>4, <1>5, <1>6, <1>7, <1>8, DiskOfIs
<1>10. ASSUME Safe(a), w # NoManifest
       PROVE  CertainOn(e, w)
  <2>1. PICK j \in {0, 1} : CertainAt(a, w, j)
    BY <1>10 DEF Safe, CertainOn
  <2>2. Flags(e)
    BY <1>3, <1>9, <2>1 DEF CertainAt, Flags
  <2>3. FileIs(e, w, j)
    BY <1>6, <1>9, <2>1 DEF CertainAt, FileIs
  <2>4. PagesKept(a, e, SlotsOf(w.files))
    <3>1. SlotsOf(w.files) \subseteq Slot
      BY <1>2, <1>10, SlotsInArena DEF Manifest, IsManifest
    <3>2. SUFFICES ASSUME NEW x \in SlotsOf(w.files), NEW v, a.page[x].may = {v}, a.page[x].now = v
                   PROVE  e.page[x].may = {v} /\ e.page[x].now = v
      BY DEF PagesKept
    <3>3. x \in Slot
      BY <3>1
    <3>4. f[x] = v
      BY <3>2, <3>3
    <3>5. P[x].may = {f[x]} /\ P[x].now = f[x]
      BY <1>5, <3>3
    <3> QED
      BY <1>9, <3>4, <3>5
  <2>5. CertainAt(e, w, j)
    BY <2>1, <2>2, <2>3, <2>4, CertainKept
  <2> QED
    BY <2>5 DEF CertainOn
<1>11. Safe(a) => Safe(e)
  BY <1>4, <1>9, <1>10 DEF Safe
<1> QED
  BY <1>4, <1>9, <1>11

(* Power loss. *)
LEMMA CrashKeeps ==
    ASSUME RInv, Crash
    PROVE  RInv'
<1>1. IsDisk(d) /\ pc # "none" /\ restored \in BOOLEAN /\ (~restored => Safe(d)) /\ faults \in 0..MaxFaults
  BY DEF RInv, Crash
<1>2. pc' = "down" /\ s' = NoSession /\ out' = "ok" /\ restored' = restored /\ faults' = faults + 1 /\ faults < MaxFaults
  BY DEF Crash, Fault
<1>3. faults' \in 0..MaxFaults
  BY <1>1, <1>2, RollbackAssumption
<1>4. PICK f \in {g \in [Slot -> UNION {d.page[x].may : x \in Slot}] : \A x \in Slot : g[x] \in d.page[x].may},
           m0 \in d.man[0].may, m1 \in d.man[1].may, l \in d.len.may, k \in d.marker.may, w \in d.anchor.may :
           d' = DiskOf([x \in Slot |-> Cell(f[x])], Cell(l), Cell(k),
                       [j \in {0, 1} |-> Cell(IF j = 0 THEN m0 ELSE m1)], Stored(d.anchor, w))
  BY DEF Crash, DiskOf
<1>5. PICK a : a = d
  OBVIOUS
<1>6. PICK P, M : P = [x \in Slot |-> Cell(f[x])] /\ M = [j \in {0, 1} |-> Cell(IF j = 0 THEN m0 ELSE m1)]
  OBVIOUS
<1>7. PICK e : e = DiskOf(P, Cell(l), Cell(k), M, Stored(a.anchor, w))
  OBVIOUS
<1>8. /\ IsDisk(a) /\ \A x \in Slot : f[x] \in a.page[x].may
      /\ m0 \in a.man[0].may /\ m1 \in a.man[1].may /\ l \in a.len.may /\ k \in a.marker.may /\ w \in a.anchor.may
  BY <1>1, <1>5
<1>9. IsDisk(e) /\ (Safe(a) => Safe(e))
  BY <1>6, <1>7, <1>8, CrashedIs
<1>10. d' = e
  BY <1>4, <1>5, <1>6, <1>7
<1>11. IsDisk(d') /\ (~restored' => Safe(d'))
  BY <1>1, <1>2, <1>5, <1>9, <1>10
<1> QED
  BY <1>1, <1>2, <1>3, <1>11 DEF RInv

(* What a copy of the arena that shows manifest m has in slot x. *)
Copied(m, x) ==
    IF x \in SlotsOf(m.files)
    THEN (CHOOSE p \in {m.files[r[1]].pages[r[2]] : r \in Refs(m.files)} : p.slot = x).val
    ELSE Zero

(* It is a page. *)
LEMMA CopiedIs ==
    ASSUME NEW m, IsFiles(m.files), NEW x
    PROVE  Copied(m, x) \in PageValue
  BY RefsAre DEF Copied, PageValue, SlotsOf, IsFiles, IsNode, IsPages, PageRef

(* The directories after a restore. *)
RestoredTo(a, P, M, L) == [a EXCEPT !.man = M, !.page = P, !.len = L, !.marker = L]

(* They have their type, and the witness is as it was. *)
LEMMA RestoredIs ==
    ASSUME NEW a, IsDisk(a), NEW P, IsMap(P), DOMAIN P = Slot, \A x \in Slot : IsCell(P[x], PageValue),
           NEW M, IsMap(M), DOMAIN M = {0, 1}, \A j \in {0, 1} : IsManifestCell(M[j]),
           NEW L, IsCell(L, BOOLEAN), NEW e, e = RestoredTo(a, P, M, L)
    PROVE  IsDisk(e) /\ e.anchor = a.anchor
<1>1. IsRecord(a, {"anchor", "len", "man", "marker", "page"})
  BY DEF IsDisk
<1>2. /\ IsRecord(e, {"anchor", "len", "man", "marker", "page"}) /\ e.page = P /\ e.len = L /\ e.marker = L
      /\ e.man = M /\ e.anchor = a.anchor
  BY <1>1 DEF RestoredTo, IsRecord, IsMap
<1> QED
  BY <1>2 DEF IsDisk

(* An administrator puts back a copy. *)
LEMMA RestoreBackupKeeps ==
    ASSUME RInv, NEW j \in {0, 1}, RestoreBackup(j)
    PROVE  RInv' /\ d'.anchor = d.anchor
<1>1. IsDisk(d) /\ pc = "down" /\ s = NoSession /\ faults \in 0..MaxFaults /\ d.man[j].now # NoManifest
  BY DEF RInv, RestoreBackup
<1>2. /\ pc' = "down" /\ s' = NoSession /\ out' = "ok" /\ restored' = TRUE /\ faults' = faults + 1 /\ faults < MaxFaults
  BY <1>1 DEF RestoreBackup, Fault
<1>3. faults' \in 0..MaxFaults
  BY <1>1, <1>2, RollbackAssumption
<1>4. PICK m : m = d.man[j].now
  OBVIOUS
<1>5. PICK M : M = [k \in {0, 1} |-> IF k = j THEN Wrote(d.man[k], m, NoManifest) ELSE Wrote(d.man[k], NoManifest, NoManifest)]
  OBVIOUS
<1>6. PICK P : P = [x \in Slot |-> Wrote(d.page[x], Copied(m, x), Torn)]
  OBVIOUS
<1>7. PICK L : L = [now |-> TRUE, may |-> {TRUE, FALSE}, dirty |-> TRUE]
  OBVIOUS
<1>8. d' = RestoredTo(d, P, M, L)
  <2>1. d' = [d EXCEPT !.man = [k \in {0, 1} |-> IF k = j THEN Wrote(d.man[k], d.man[j].now, NoManifest)
                                                 ELSE Wrote(d.man[k], NoManifest, NoManifest)],
                       !.page = [x \in Slot |-> Wrote(d.page[x], Copied(d.man[j].now, x), Torn)],
                       !.len = [now |-> TRUE, may |-> {TRUE, FALSE}, dirty |-> TRUE],
                       !.marker = [now |-> TRUE, may |-> {TRUE, FALSE}, dirty |-> TRUE]]
    BY Zenon DEF RestoreBackup, Copied
  <2> QED
    BY <1>4, <1>5, <1>6, <1>7, <2>1 DEF RestoredTo
<1>9. IsManifest(m) /\ IsFiles(m.files) /\ Manifest(m) /\ Manifest(NoManifest)
  BY <1>1, <1>4 DEF IsDisk, IsManifestCell, Manifest, IsManifest
<1>10. ASSUME NEW x \in Slot
       PROVE  IsCell(P[x], PageValue)
  BY <1>1, <1>9, CopiedIs, CellsStay, <1>6 DEF IsDisk, PageValue
<1>11. ASSUME NEW k \in {0, 1}
       PROVE  IsManifestCell(M[k])
  BY <1>1, <1>9, ManifestCellsStay, <1>5 DEF IsDisk
<1>12. IsCell(L, BOOLEAN)
  BY <1>7 DEF IsRecord, IsMap, IsCell
<1>13. IsMap(P) /\ DOMAIN P = Slot /\ IsMap(M) /\ DOMAIN M = {0, 1}
  BY <1>5, <1>6 DEF IsMap
<1>14. PICK e : e = RestoredTo(d, P, M, L)
  OBVIOUS
<1>15. IsDisk(e) /\ e.anchor = d.anchor
  BY <1>1, <1>10, <1>11, <1>12, <1>13, <1>14, RestoredIs
<1>16. IsDisk(d') /\ d'.anchor = d.anchor
  BY <1>8, <1>14, <1>15
<1>17. RInv'
  BY <1>2, <1>3, <1>16 DEF RInv
<1> QED
  BY <1>16, <1>17

(* The parts of a used volume. *)
OneNode(v) == [len |-> 1, pages |-> [i \in {1} |-> [slot |-> 0, val |-> v]], res |-> {1}]

OneFile(v) == [id \in {1} |-> OneNode(v)]

(* Its file. *)
LEMMA OneFileIs ==
    ASSUME NEW v \in Val, NEW F, F = OneFile(v)
    PROVE  /\ IsFiles(F) /\ Apart(F, F) /\ DOMAIN F = {1} /\ F[1] = OneNode(v) /\ DOMAIN F[1].pages = {1}
           /\ F[1].len = 1 /\ F[1].res = {1}
           /\ F[1].pages[1].slot = 0 /\ F[1].pages[1].val = v
<1>1. PICK n, P, p : n = OneNode(v) /\ P = [i \in {1} |-> [slot |-> 0, val |-> v]] /\ p = [slot |-> 0, val |-> v]
  OBVIOUS
<1>2. 0 \in Slot /\ 1 \in 0..MaxPages /\ 1 \in Id /\ {1} \subseteq 1..1
  BY RollbackAssumption DEF Slot, Id
<1>3. p \in PageRef /\ p.slot = 0 /\ p.val = v
  BY <1>1, <1>2 DEF PageRef
<1>4. IsMap(P) /\ DOMAIN P = {1} /\ P[1] = p
  BY <1>1 DEF IsMap
<1>5. IsRecord(n, {"len", "pages", "res"}) /\ n.len = 1 /\ n.pages = P /\ n.res = {1}
  BY <1>1 DEF OneNode, IsRecord, IsMap
<1>6. IsPages(P)
  BY <1>3, <1>4 DEF IsPages
<1>7. IsNode(n)
  BY <1>2, <1>4, <1>5, <1>6 DEF IsNode
<1>8. IsMap(F) /\ DOMAIN F = {1} /\ F[1] = n
  BY <1>1 DEF OneFile, IsMap
<1>9. IsFiles(F)
  BY <1>2, <1>7, <1>8 DEF IsFiles
<1>10. Apart(F, F)
  BY <1>4, <1>5, <1>8 DEF Apart
<1> QED
  BY <1>1, <1>3, <1>4, <1>5, <1>8, <1>9, <1>10

(* Its manifests. *)
OneManifest(g, E, v) == [gen |-> g, next |-> 2, entries |-> E, files |-> OneFile(v)]

(* They have their type. *)
LEMMA OneManifestIs ==
    ASSUME NEW v \in Val, NEW g \in Nat, NEW E, IsEntries(E), \A p \in DOMAIN E : E[p] = 1,
           NEW m, m = OneManifest(g, E, v)
    PROVE  IsManifest(m) /\ m.files = OneFile(v) /\ m.entries = E /\ m.gen = g /\ m.next = 2
  BY OneFileIs, RollbackAssumption, LinkedAre DEF OneManifest, IsRecord, IsMap, IsEntries, IsManifest

(* A volume that was used: its witnessed manifest is certain. *)
LEMMA UsedVolumeIs ==
    ASSUME NEW name \in Name, NEW v \in Val, NEW e, e = UsedVolume(name, v)
    PROVE  /\ IsDisk(e) /\ Safe(e)
           /\ e.anchor.now = OneManifest(3, [p \in {name} |-> 1], v) /\ e.anchor.may = {e.anchor.now}
<1>1. PICK z, E : z = << >> /\ E = [p \in {name} |-> 1]
  OBVIOUS
<1>2. PICK a, b, f : a = OneManifest(2, z, v) /\ b = OneManifest(3, E, v) /\ f = OneFile(v)
  OBVIOUS
<1>3. IsEntries(z) /\ DOMAIN z = {} /\ IsEntries(E) /\ \A p \in DOMAIN E : E[p] = 1
  BY <1>1, RollbackAssumption DEF IsMap, Id, IsEntries
<1>4. PICK two, three : two = 2 /\ three = 3
  OBVIOUS
<1>5. two \in Nat /\ three \in Nat /\ a = OneManifest(two, z, v) /\ b = OneManifest(three, E, v)
  BY <1>2, <1>4
<1>6. IsManifest(a) /\ IsManifest(b) /\ b.files = f
  BY <1>2, <1>3, <1>5, OneManifestIs
<1>7. PICK P, M, L : /\ P = [y \in Slot |-> Cell(IF y = 0 THEN v ELSE Zero)] /\ L = Cell(TRUE)
                     /\ M = [j \in {0, 1} |-> Cell(IF j = 0 THEN a ELSE b)]
  OBVIOUS
<1>8. PICK A : A = Stored(Fresh.anchor, b)
  OBVIOUS
<1>9. e = DiskOf(P, L, L, M, A)
  <2>1. PICK data : data = [gen |-> 2, next |-> 2, entries |-> << >>, files |-> [id \in {1} |-> OneNode(v)]]
    OBVIOUS
  <2>2. data = a
    BY <1>1, <1>2, <2>1 DEF OneManifest, OneFile
  <2>3. [data EXCEPT !.gen = 3, !.entries = [p \in {name} |-> 1]] = b
    <3>1. data = [gen |-> 2, next |-> 2, entries |-> z, files |-> f]
      BY <1>1, <1>2, <2>1 DEF OneFile
    <3>2. [data EXCEPT !.gen = 3, !.entries = E] = [gen |-> 3, next |-> 2, entries |-> E, files |-> f]
      <4>1. PICK h, k : h = [data EXCEPT !.gen = 3, !.entries = E] /\ k = [gen |-> 3, next |-> 2, entries |-> E, files |-> f]
        OBVIOUS
      <4>2. IsRecord(data, {"entries", "files", "gen", "next"}) /\ data.next = 2 /\ data.files = f
        BY <3>1 DEF IsRecord, IsMap
      <4>3. IsRecord(h, {"entries", "files", "gen", "next"}) /\ h.gen = 3 /\ h.next = 2 /\ h.entries = E /\ h.files = f
        BY <4>1, <4>2 DEF IsRecord, IsMap
      <4>4. IsRecord(k, {"entries", "files", "gen", "next"}) /\ k.gen = 3 /\ k.next = 2 /\ k.entries = E /\ k.files = f
        BY <4>1 DEF IsRecord, IsMap
      <4>5. \A x \in {"entries", "files", "gen", "next"} : h[x] = k[x]
        BY <4>3, <4>4
      <4>6. h = k
        BY <4>3, <4>4, <4>5 DEF IsRecord, IsMap
      <4> QED
        BY <4>1, <4>6
    <3> QED
      BY <1>1, <1>2, <3>2 DEF OneManifest
  <2>4. e = [page |-> [y \in Slot |-> Cell(IF y = 0 THEN v ELSE Zero)], len |-> Cell(TRUE), marker |-> Cell(TRUE),
             man |-> [j \in {0, 1} |-> Cell(IF j = 0 THEN data ELSE [data EXCEPT !.gen = 3, !.entries = [p \in {name} |-> 1]])],
             anchor |-> Stored(Fresh.anchor, [data EXCEPT !.gen = 3, !.entries = [p \in {name} |-> 1]])]
    BY <2>1 DEF UsedVolume, OneNode
  <2> QED
    BY <1>7, <1>8, <2>2, <2>3, <2>4 DEF DiskOf
<1>10. IsRecord(A, {"may", "now"}) /\ A.now = b /\ A.may = {b}
  BY <1>8, StoredIs
<1>11. Manifest(A.now) /\ \A m \in A.may : Manifest(m)
  BY <1>6, <1>10 DEF Manifest
<1>12. ASSUME NEW x \in Slot
       PROVE  IsCell(P[x], PageValue) /\ (x = 0 => P[x].may = {v} /\ P[x].now = v)
  BY <1>7, CellIs DEF PageValue
<1>13. ASSUME NEW j \in {0, 1}
       PROVE  IsManifestCell(M[j]) /\ (j = 1 => M[j].may = {b} /\ M[j].now = b)
  BY <1>6, <1>7, CellIs DEF Manifest
<1>14. IsCell(L, BOOLEAN) /\ L.may = {TRUE}
  BY <1>7, CellIs
<1>15. IsMap(P) /\ DOMAIN P = Slot /\ IsMap(M) /\ DOMAIN M = {0, 1}
  BY <1>7 DEF IsMap
<1>16. IsDisk(e) /\ e.page = P /\ e.len = L /\ e.marker = L /\ e.man = M /\ e.anchor = A
  BY <1>9, <1>10, <1>11, <1>12, <1>13, <1>14, <1>15, DiskOfIs
<1>17. 0 \in Slot
  BY RollbackAssumption DEF Slot
<1>18. CertainFiles(e, f)
  BY <1>2, OneFileIs, <1>12, <1>16, <1>17 DEF CertainFiles, CertainPage
<1>19. CertainAt(e, b, 1)
  BY <1>6, <1>13, <1>14, <1>16, <1>18 DEF CertainAt, Flags, FileIs
<1>20. CertainOn(e, b)
  BY <1>19 DEF CertainOn
<1>21. Safe(e)
  BY <1>10, <1>16, <1>20 DEF Safe
<1> QED
  BY <1>1, <1>2, <1>10, <1>16, <1>21

(* The initial states. *)
LEMMA InitKeeps ==
    ASSUME Init
    PROVE  RInv
<1>1. s = NoSession /\ out = "ok" /\ restored = FALSE /\ faults = 0
  BY DEF Init
<1>2. 0 \in 0..MaxFaults
  BY RollbackAssumption
<1>3. CASE pc = "none" /\ d = Fresh /\ owed = {NothingOwed}
  BY <1>1, <1>2, <1>3, FreshIs DEF RInv
<1>4. CASE pc = "down" /\ \E name \in Name, v \in Val : d = UsedVolume(name, v)
  BY <1>4, UsedVolumeIs, <1>1, <1>2 DEF RInv
<1> QED
  BY <1>3, <1>4 DEF Init

(* Every step keeps the invariant. *)
LEMMA NextKeeps ==
    ASSUME RInv, [Next]_vars
    PROVE  RInv'
<1>1. CASE UNCHANGED vars
  BY <1>1 DEF vars, RInv
<1>2. ASSUME NEW id \in Id, NEW i \in Page, ReadAt(id, i) \/ \E v \in Val : WriteAt(id, i, v)
      PROVE  RInv'
  BY <1>2, ReadAtKeeps, WriteAtKeeps
<1>3. ASSUME NEW id \in Id, NEW n \in 0..MaxPages, NEW cut \in BOOLEAN, SetLen(id, n, cut)
      PROVE  RInv'
  BY <1>3, SetLenKeeps
<1>4. ASSUME NEW id \in Id, NEW lo \in Page, NEW hi \in lo..MaxPages, AllocateRange(id, lo..hi)
      PROVE  RInv'
  BY <1>4, AllocateRangeKeeps
<1>5. ASSUME NEW id \in Id, NEW i \in Page, NEW part \in BOOLEAN, PunchHole(id, i, part)
      PROVE  RInv'
  BY <1>5, PunchHoleKeeps
<1>6. ASSUME NEW id \in Id, SyncData(id) \/ CloseFile(id)
      PROVE  RInv'
  BY <1>6, SyncDataKeeps, CloseFileKeeps
<1>7. ASSUME NEW name \in Name, OpenFile(name) \/ RemoveFile(name) \/ \E to \in Name : Rename(name, to)
      PROVE  RInv'
  BY <1>7, OpenFileKeeps, RemoveFileKeeps, RenameKeeps
<1>8. ASSUME NEW dir \in Dir, CreateDirAll(dir)
      PROVE  RInv'
  BY <1>8, CreateDirAllKeeps
<1>9. ASSUME NEW dir \in Dir \cup {Root}, SyncDir(dir)
      PROVE  RInv'
  BY <1>9, SyncDirKeeps
<1>10. CASE FreeBytes
  BY <1>10, FreeBytesKeeps
<1>11. CASE Create \/ Open \/ Close \/ Crash \/ \E j \in {0, 1} : RestoreBackup(j)
  BY <1>11, CreateKeeps, OpenKeeps, CloseKeeps, CrashKeeps, RestoreBackupKeeps
<1> QED
  BY <1>1, <1>2, <1>3, <1>4, <1>5, <1>6, <1>7, <1>8, <1>9, <1>10, <1>11 DEF Next

(* The invariant implies what is promised of the witnessed manifests. *)
LEMMA WitnessedFromInv ==
    ASSUME RInv
    PROVE  WitnessedKept
<1>1. IsDisk(d) /\ (~restored => Safe(d)) /\ restored \in BOOLEAN
  BY DEF RInv
<1>2. ASSUME NEW m, CertainOn(d, m)
      PROVE  Certain(m)
  <2>1. PICK j \in {0, 1} : CertainAt(d, m, j)
    BY <1>2 DEF CertainOn
  <2>2. \A r \in Refs(m.files) : CertainPage(d, m.files[r[1]].pages[r[2]])
    BY <2>1, RefsAre DEF CertainAt, CertainFiles
  <2> QED
    BY <2>1, <2>2 DEF Certain, CertainAt, Flags, FileIs, CertainPage
<1>3. ~restored => \A m \in (d.anchor.may \cup {d.anchor.now}) \ {NoManifest} : Certain(m)
  BY <1>1, <1>2 DEF Safe
<1>4. \A x \in Slot : d.page[x].may \subseteq Val \cup {Zero, Torn}
  BY <1>1 DEF IsDisk, IsCell, PageValue
<1>5. CASE pc # "up"
  BY <1>3, <1>4, <1>5 DEF RInv, TypeOK, WitnessedKept
<1>6. CASE pc = "up"
  BY <1>6, <1>1, <1>4, <1>3 DEF RInv, Under, IsDisk, IsRecord, IsMap, IsSession, NoSession, TypeOK,
     WitnessedKept
<1> QED
  BY <1>5, <1>6

(* Whatever a power loss leaves of the witness, the manifest it selects *)
(* and all its pages are durable, after every commit, every failed call *)
(* and every open of rollback.rs; a restore of an older copy of the *)
(* backing is the one thing that can take them away, and no session opens *)
(* on such a copy. *)
THEOREM WitnessedKeptCorrect == Spec => []WitnessedKept
<1>1. Init => RInv
  BY InitKeeps
<1>2. RInv /\ [Next]_vars => RInv'
  BY NextKeeps
<1>3. RInv => WitnessedKept
  BY WitnessedFromInv
<1> QED
  BY <1>1, <1>2, <1>3, PTL DEF Spec

-----------------------------------------------------------------------------
(* What a session reads. *)

(* The pages of files in the arena are finitely many. *)
LEMMA RefsFinite ==
    ASSUME NEW F, IsFiles(F)
    PROVE  /\ Refs(F) \subseteq Id \X Page /\ Reserved(F) \subseteq Id \X Page /\ Refs(F) \subseteq Reserved(F)
           /\ IsFiniteSet(Refs(F)) /\ IsFiniteSet(Reserved(F))
<1>1. IsFiniteSet(Id) /\ IsFiniteSet(Page)
  BY FS_Interval, RollbackAssumption DEF Id, Page
<1>2. IsFiniteSet(Id \X Page)
  BY <1>1, FS_Product
<1>3. ASSUME NEW id \in DOMAIN F
      PROVE  id \in Id /\ F[id].res \subseteq Page /\ DOMAIN F[id].pages \subseteq F[id].res
  BY RollbackAssumption DEF IsFiles, IsNode, Page
<1>4. Reserved(F) \subseteq Id \X Page
  BY <1>3 DEF Reserved
<1>5. Refs(F) \subseteq Reserved(F)
  BY <1>3 DEF Reserved, Refs
<1>6. IsFiniteSet(Reserved(F)) /\ IsFiniteSet(Refs(F))
  BY <1>2, <1>4, <1>5, FS_Subset
<1> QED
  BY <1>4, <1>5, <1>6

(* Files that share no slot have as many slots as pages. *)
LEMMA SlotsCounted ==
    ASSUME NEW F, IsFiles(F), Apart(F, F)
    PROVE  /\ Cardinality(SlotsOf(F)) = Cardinality(Refs(F)) /\ IsFiniteSet(SlotsOf(F))
<1>1. PICK S, T : S = Refs(F) /\ T = SlotsOf(F)
  OBVIOUS
<1>2. PICK f : f = [r \in S |-> F[r[1]].pages[r[2]].slot]
  OBVIOUS
<1>3. IsFiniteSet(S)
  BY <1>1, RefsFinite
<1>4. f \in Surjection(S, T)
  BY <1>1, <1>2 DEF SlotsOf, Surjection
<1>5. f \in Injection(S, T)
  <2>1. f \in [S -> T]
    BY <1>4 DEF Surjection
  <2>2. ASSUME NEW a \in S, NEW b \in S, f[a] = f[b]
        PROVE  a = b
    BY <1>1, RefsAre, <1>2, <2>2 DEF Apart
  <2> QED
    BY <2>1, <2>2 DEF Injection, IsInjective
<1>6. IsFiniteSet(T) /\ Cardinality(T) = Cardinality(S)
  BY <1>3, <1>4, <1>5, FS_Surjection
<1> QED
  BY <1>1, <1>6

(* The invariant implies what is promised of reads. *)
LEMMA ReadBackFromInv ==
    ASSUME RInv
    PROVE  ReadBack
<1>1. SUFFICES ASSUME pc = "up"
               PROVE  /\ \A r \in Refs(s.files) : d.page[s.files[r[1]].pages[r[2]].slot].now = s.files[r[1]].pages[r[2]].val
                      /\ Cardinality(SlotsOf(s.files)) = Cardinality(Refs(s.files))
                      /\ \A u \in s.used : u.slots = CommittedSlots(s) \cup SlotsOf(s.files)
  BY DEF ReadBack
<1>2. IsSession(s) /\ DirtyFiles(d, s.files)
  BY <1>1 DEF RInv, Under
<1>3. \A r \in Refs(s.files) : d.page[s.files[r[1]].pages[r[2]].slot].now = s.files[r[1]].pages[r[2]].val
  BY <1>2, RefsAre DEF DirtyFiles, DirtyPage
<1>4. PICK F : F = s.files
  OBVIOUS
<1>5. IsFiles(F) /\ Apart(F, F)
  BY <1>2, <1>4 DEF IsSession
<1>6. Cardinality(SlotsOf(F)) = Cardinality(Refs(F))
  BY <1>5, SlotsCounted
<1>7. \A u \in s.used : u.slots = CommittedSlots(s) \cup SlotsOf(s.files)
  BY <1>2 DEF IsSession
<1> QED
  BY <1>3, <1>4, <1>6, <1>7

(* A session reads what was last written, whatever write_page, set_len, *)
(* punch_hole, commit and reclaim_closed_files did meanwhile, and the *)
(* cached set of slots in use is exact. *)
THEOREM ReadBackCorrect == Spec => []ReadBack
<1>1. Init => RInv
  BY InitKeeps
<1>2. RInv /\ [Next]_vars => RInv'
  BY NextKeeps
<1>3. RInv => ReadBack
  BY ReadBackFromInv
<1> QED
  BY <1>1, <1>2, <1>3, PTL DEF Spec
=============================================================================
