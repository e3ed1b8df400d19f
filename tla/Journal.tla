------------------------------ MODULE Journal ------------------------------
(***************************************************************************)
(* The ciphertext journal of a Maki volume: JournalWriter (maki-core       *)
(* journal.rs), the recovery scan (recovery_scan.rs) and the repair and    *)
(* adoption steps of attach (recovery.rs), over files that power loss may  *)
(* tear (CrashFS).                                                         *)
(*                                                                         *)
(* A handler runs under the volume lock, so it is one action; each of its  *)
(* system calls may fail, and `Then` below is Rust's `?`: a handler is the *)
(* set of its outcomes.  A crash in the middle of a handler is one of its  *)
(* error outcomes followed by Crash.  Attach is a chain of steps.          *)
(*                                                                         *)
(* Abstractions.  A segment file is a cell for its header and one or two   *)
(* cells per record: a record header, and the payload unless the record is *)
(* a discard tombstone, which has none.  CRC checks are equality with what *)
(* was written.  The two-copy registers durable-proof.{a,b} and            *)
(* checkpoint-state.{a,b} are HorizonRegisters: a value that a load        *)
(* returns now, and the values a power loss may leave (DurableProof proves *)
(* that this is what the pairs of files implement).  Replay into the slot  *)
(* store succeeds or fails as a whole here.                                *)
(***************************************************************************)
EXTENDS CrashFS, FiniteSetsExt, SequencesExt

CONSTANTS
    Payload,      \* ciphertexts
    Tombstone,    \* the empty payload
    SegmentSize,  \* effective_segment_size, in cells
    MaxSeq,       \* u64::MAX of the sequence counter
    MaxIdx,       \* u64::MAX of the segment index
    MaxFaults     \* bound on failed handlers, kills, evictions and power losses

ASSUME JournalAssumption ==
    /\ Tombstone \notin Payload
    /\ SegmentSize \in 3..MaxLen /\ MaxSeq \in Nat \ {0} /\ MaxIdx \in Nat \ {0}
    /\ MaxFaults \in Nat

VARIABLES
    pc,      \* "down", a step of attach, or "up"
    w,       \* the JournalWriter, while pc = "up"
    d,       \* the journal directory, the proof and the checkpoint state
    scan,    \* the JournalScan that attach is acting on
    log,     \* history: the payloads of the accepted records, in sequence order
    acked,   \* history: the highest sequence a caller was told is durable
    faults   \* the faults so far

vars == <<pc, w, d, scan, log, acked, faults>>

None == -1

Idx == 0..(MaxIdx - 1)

-----------------------------------------------------------------------------
(* Records and segments. *)

Header(base) == [k |-> "header", base |-> base]

\* encode_record: the cells of a record.
Encoded(n, v) == IF v = Tombstone THEN <<[k |-> "record", n |-> n, v |-> v]>>
                 ELSE <<[k |-> "record", n |-> n, v |-> v], [k |-> "payload", n |-> n, v |-> v]>>

\* What a write of cells that fails half way may leave in their place.
Partial(cells) ==
    {[j \in DOMAIN cells |-> IF j < k THEN cells[j] ELSE IF j = k THEN c ELSE Zero] :
        k \in DOMAIN cells, c \in {Zero, Torn}}

\* SegmentInfo::last_sequence.
LastSequence(s) == s.base + s.count - 1

NoActive == [index |-> None]

NoMark == [index |-> None, size |-> 0]

\* The files after a step on one of them.
OnFile(disk, i, f) == [disk EXCEPT !.file[i] = f]

\* sync_dir(JOURNAL_DIR)
DirSync(disk) == [disk EXCEPT !.file = [i \in Idx |-> DirSynced(disk.file[i])]]

-----------------------------------------------------------------------------
(* Outcomes of a handler and their sequencing. *)

Ok(wr, disk) == [ok |-> TRUE, w |-> wr, d |-> disk]
Err(wr, disk) == [ok |-> FALSE, w |-> wr, d |-> disk]

\* DurableProof::follows, with the location of the record's end.
Follows(new, old) ==
    \/ new = old
    \/ new.seq > old.seq /\ (new.index > old.index \/ (new.index = old.index /\ new.size > old.size))

\* The durable mark is one small file that exists from the creation of the
\* volume; a power loss may tear a write to it (NoMark).
MarkWritten(mark, m) == [now |-> m, may |-> mark.may \cup {m, NoMark}]

MarkSynced(mark) == [mark EXCEPT !.may = {mark.now}]

\* write_mark: best effort and never synced.
Marked(disk, m) == {disk, [disk EXCEPT !.mark = MarkWritten(@, m)]}

-----------------------------------------------------------------------------
(* The writer. *)

Appended(wr) == wr.next - 1

CleanupFailedCreation(wr, disk) ==
    IF wr.cleanup = None THEN {Ok(wr, disk)}
    ELSE LET gone == OnFile(disk, wr.cleanup, Removed(disk.file[wr.cleanup]))
         IN  {Err(wr, disk), Err(wr, gone), Ok([wr EXCEPT !.cleanup = None], DirSync(gone))}

\* The records appended since the last barrier are durable and published.
Barriered(wr, disk, proof) ==
    {Ok([wr EXCEPT !.active.unsynced = FALSE, !.active.tail = FALSE, !.active.redirty = FALSE,
                   !.active.pending = << >>, !.active.synced = wr.active.size,
                   !.durable = Appended(wr), !.proof = proof], m) :
        m \in Marked(disk, [index |-> wr.active.index, size |-> wr.active.size])}

\* Mutant: a failed sync is retried without writing the range again.
SyncActiveByRetry(wr, disk) ==
    LET a == wr.active
        f0 == disk.file[a.index]
        f1 == IF a.tail \/ a.redirty THEN SetLen(f0, a.size) ELSE f0
        range == SubSeq(f1.data, a.synced + 1, a.size)
        f2 == f1
        failed == [wr EXCEPT !.active.redirty = TRUE]
        done == OnFile(disk, a.index, Synced(f2))
        cand == [seq |-> Appended(wr), index |-> a.index, size |-> a.size]
    IN  IF a = NoActive THEN {Ok(wr, disk)}
        ELSE IF ~a.unsynced /\ ~a.tail THEN {Ok(wr, disk)}
        ELSE {Err(wr, disk)} \cup (IF a.redirty THEN {Err(wr, OnFile(disk, a.index, f1))} ELSE {}) \cup
             IF a.redirty /\ range # a.pending
             THEN {Err(wr, OnFile(disk, a.index, f2))}
             ELSE {Err(failed, OnFile(disk, a.index, SyncFailed(f2)))} \cup
                  IF Appended(wr) > wr.proof.seq /\ a.count > 0
                  THEN IF Follows(cand, disk.proof.now)
                       THEN {Err(failed, [done EXCEPT !.proof = p]) : p \in HalfStored(disk.proof, cand)}
                            \cup Barriered(wr, [done EXCEPT !.proof = Stored(@, cand)], cand)
                       ELSE {Err(failed, done)}
                  ELSE Barriered(wr, done, wr.proof)

SyncActive(wr, disk) ==
    LET a == wr.active
        f0 == disk.file[a.index]
        f1 == IF a.tail \/ a.redirty THEN SetLen(f0, a.size) ELSE f0
        range == SubSeq(f1.data, a.synced + 1, a.size)
        f2 == IF a.redirty THEN WriteAt(f1, a.synced, range) ELSE f1
        failed == [wr EXCEPT !.active.redirty = TRUE]
        done == OnFile(disk, a.index, Synced(f2))
        cand == [seq |-> Appended(wr), index |-> a.index, size |-> a.size]
    IN  IF a = NoActive THEN {Ok(wr, disk)}
        ELSE IF ~a.unsynced /\ ~a.tail THEN {Ok(wr, disk)}
        ELSE {Err(wr, disk)} \cup (IF a.redirty THEN {Err(wr, OnFile(disk, a.index, f1))} ELSE {}) \cup
             IF a.redirty /\ range # a.pending
             THEN {Err(wr, OnFile(disk, a.index, f2))}
             ELSE {Err(failed, OnFile(disk, a.index, SyncFailed(f2)))} \cup
                  IF Appended(wr) > wr.proof.seq /\ a.count > 0
                  THEN IF Follows(cand, disk.proof.now)
                       THEN {Err(failed, [done EXCEPT !.proof = p]) : p \in HalfStored(disk.proof, cand)}
                            \cup Barriered(wr, [done EXCEPT !.proof = Stored(@, cand)], cand)
                       ELSE {Err(failed, done)}
                  ELSE Barriered(wr, done, wr.proof)

SegmentInfo(a) == [index |-> a.index, base |-> a.base, count |-> a.count, size |-> a.size]

SealActive(wr, disk) ==
    Then(SyncActive(wr, disk), LAMBDA o :
      {IF o.w.active = NoActive THEN o
       ELSE Ok([o.w EXCEPT !.sealed = @ \cup {SegmentInfo(o.w.active)}, !.active = NoActive], o.d)})

\* The creation of segment wr.nextIdx: open, set_len, allocate, write header,
\* sync, sync the directory; and what each failure of that chain leaves, a
\* part of the header in its place included.
Allocated(wr, disk) == SetLen(SetLen(Created(disk.file[wr.nextIdx]), 0), 1)

HeaderWritten(wr, disk) == WriteAt(Allocated(wr, disk), 0, <<Header(wr.next)>>)

HalfCreated(wr, disk) ==
    LET f == Allocated(wr, disk)
        h == HeaderWritten(wr, disk)
        written == {WriteAt(f, 0, p) : p \in Partial(<<Header(wr.next)>>)}
    IN  {disk} \cup {OnFile(disk, wr.nextIdx, g) :
                       g \in {SetLen(f, 0), f, h, SyncFailed(h), Synced(h)} \cup written}

CreateSegment(wr, disk) ==
    LET i == wr.nextIdx
        opened == [index |-> i, base |-> wr.next, count |-> 0, size |-> 1, synced |-> 1,
                   unsynced |-> FALSE, tail |-> FALSE, redirty |-> FALSE, pending |-> << >>]
        created == DirSync(OnFile(disk, i, Synced(HeaderWritten(wr, disk))))
    IN  {Ok([wr EXCEPT !.nextIdx = i + 1, !.active = opened], m) :
            m \in Marked(created, [index |-> i, size |-> 1])}
        \cup
        UNION {{Err(o.w, o.d) : o \in CleanupFailedCreation([wr EXCEPT !.cleanup = i], h)} :
                 h \in HalfCreated(wr, disk)}

Roll(wr, disk) ==
    IF wr.nextIdx + 1 > MaxIdx THEN {Err(wr, disk)}
    ELSE Then(CleanupFailedCreation(wr, disk), LAMBDA o :
           Then(SealActive(o.w, o.d), LAMBDA q : CreateSegment(q.w, q.d)))

\* check_append
NeedsRoll(wr, v) ==
    \/ wr.active = NoActive
    \/ wr.active.count > 0 /\ wr.active.size + Len(Encoded(wr.next, v)) > SegmentSize

\* Mutant: the tail of a failed write is not cut off before the next one.
WriteRecordOverTail(wr, disk, v) ==
    LET a == wr.active
        cells == Encoded(wr.next, v)
        f0 == disk.file[a.index]
        f2 == SetLen(f0, Max({Len(f0.data), a.size + Len(cells)}))
        armed == [wr EXCEPT !.active.tail = TRUE]
    IN  {Err(armed, OnFile(disk, a.index, WriteAt(f2, a.size, p))) : p \in Partial(cells)} \cup
        {Ok([wr EXCEPT !.active.pending = @ \o cells, !.active.size = @ + Len(cells),
                       !.active.count = @ + 1, !.active.unsynced = TRUE, !.active.tail = FALSE,
                       !.next = @ + 1],
            OnFile(disk, a.index, WriteAt(f2, a.size, cells)))}

WriteRecord(wr, disk, v) ==
    LET a == wr.active
        cells == Encoded(wr.next, v)
        f0 == disk.file[a.index]
        f1 == IF a.tail THEN SetLen(f0, a.size) ELSE f0
        f2 == SetLen(f1, a.size + Len(cells))
        armed == [wr EXCEPT !.active.tail = TRUE]
    IN  (IF a.tail THEN {Err(wr, disk)} ELSE {}) \cup
        {Err(armed, OnFile(disk, a.index, f1))} \cup
        {Err(armed, OnFile(disk, a.index, WriteAt(f2, a.size, p))) : p \in Partial(cells)} \cup
        {Ok([wr EXCEPT !.active.pending = @ \o cells, !.active.size = @ + Len(cells),
                       !.active.count = @ + 1, !.active.unsynced = TRUE, !.active.tail = FALSE,
                       !.next = @ + 1],
            OnFile(disk, a.index, WriteAt(f2, a.size, cells)))}

AppendRecord(wr, disk, v) ==
    IF wr.next + 1 > MaxSeq \/ (NeedsRoll(wr, v) /\ wr.nextIdx = MaxIdx)
    THEN {Err(wr, disk)}
    ELSE Then(IF NeedsRoll(wr, v) THEN Roll(wr, disk) ELSE {Ok(wr, disk)},
              LAMBDA o : WriteRecord(o.w, o.d, v))

SyncAll(wr, disk) ==
    Then(CleanupFailedCreation(wr, disk), LAMBDA o :
      Then(SyncActive(o.w, o.d), LAMBDA q : {Ok([q.w EXCEPT !.durable = Appended(q.w)], q.d)}))

\* delete_covered: the covered segments go in order until one removal fails.
RemoveCovered(wr, disk, ck) ==
    LET covered == {s \in wr.sealed : LastSequence(s) <= ck}
        upTo(i) == {s \in covered : s.index < i}
        without(gone) ==
            [disk EXCEPT !.file = [i \in Idx |-> IF \E s \in gone : s.index = i
                                                THEN Removed(disk.file[i]) ELSE disk.file[i]]]
    IN  {Err([wr EXCEPT !.sealed = @ \ upTo(s.index)], without(upTo(s.index))) : s \in covered}
        \cup {Ok([wr EXCEPT !.sealed = @ \ covered], without(covered))}

DeleteCovered(wr, disk, ck) ==
    Then(CleanupFailedCreation(wr, disk), LAMBDA o : RemoveCovered(o.w, o.d, ck))

DirSyncOutcomes(wr, disk) == {Err(wr, disk), Ok(wr, DirSync(disk))}

\* The journal's share of Volume::finish_checkpoint for a plan with this
\* horizon: publish the checkpoint state, then reclaim what it covers; with
\* nothing new to publish, only reclaim.
Reclaim(wr, disk, ck) ==
    Then(DeleteCovered(wr, disk, ck), LAMBDA o : DirSyncOutcomes(o.w, o.d))

FinishCheckpoint(wr, disk, horizon) ==
    IF horizon <= wr.ck
    THEN Then(DeleteCovered(wr, disk, wr.ck), LAMBDA o :
           IF o.w.sealed = wr.sealed THEN {o} ELSE DirSyncOutcomes(o.w, o.d))
    ELSE {Err(wr, [disk EXCEPT !.ck = r]) : r \in HalfStored(disk.ck, horizon) \cup {Stored(disk.ck, horizon)}}
         \cup Reclaim([wr EXCEPT !.ck = horizon], [disk EXCEPT !.ck = Stored(@, horizon)], horizon)

-----------------------------------------------------------------------------
(* The recovery scan. *)

\* SegmentScanner::scan: the valid records of a segment, where they end, and
\* how the scan stopped.  Damage before `durable` (a file size) is corruption.
ScanBody(cells, durable) ==
    LET n == Len(cells)
        stop(p, outcome) == [records |-> << >>, size |-> p - 1, outcome |-> outcome]
        hard(p) == p <= durable
        go[p \in 2..(n + 1), q \in cells[1].base..(cells[1].base + n)] ==
            IF p > n THEN stop(p, "clean")
            ELSE IF cells[p].k # "record"
            THEN stop(p, IF hard(p) THEN "corrupt"
                         ELSE IF \A j \in p..n : cells[j] = Zero THEN "clean" ELSE "torn")
            ELSE IF cells[p].n # q THEN stop(p, "corrupt")
            ELSE LET enc == Encoded(q, cells[p].v)
                     next == p + Len(enc)
                 IN  IF next - 1 > n \/ SubSeq(cells, p, next - 1) # enc
                     THEN stop(p, IF hard(p) THEN "corrupt" ELSE "torn")
                     ELSE LET rest == go[next, q + 1]
                          IN  [rest EXCEPT !.records = <<[n |-> q, v |-> cells[p].v, size |-> next - 1]>> \o @]
    IN  go[2, cells[1].base]

\* Mutant: the mark is no evidence.
NextIndexNoMark(kept, mark, proof) ==
    1 + Max({None} \cup kept \cup (IF proof.seq > 0 THEN {proof.index} ELSE {}))

\* Segments are numbered above every index still held in evidence.
NextIndex(kept, mark, proof) ==
    1 + Max({None} \cup kept \cup {mark.index} \cup (IF proof.seq > 0 THEN {proof.index} ELSE {}))

\* scan_journal_with_proof.  `refused` is any of its Corrupt errors.
ScanJournal(disk) ==
    LET ck == disk.ck.now
        proof == disk.proof.now
        mark == disk.mark.now
        names == {i \in Idx : disk.file[i].name}
        cells(i) == disk.file[i].data
        isLast(i) == \A j \in names : j <= i
        required == proof.seq > ck
        marks(i) == (IF mark.index = i THEN {mark.size} ELSE {}) \cup
                    (IF proof.seq > 0 /\ proof.index = i THEN {proof.size} ELSE {})
        \* a final segment that never got its header
        unborn(i) == /\ isLast(i) /\ marks(i) = {}
                     /\ \A j \in DOMAIN cells(i) : cells(i)[j] = Zero
        hasHeader(i) == cells(i) # << >> /\ cells(i)[1].k = "header"
        kept == {i \in names : hasHeader(i)}
        body == [i \in kept |->
                   ScanBody(cells(i), IF isLast(i) THEN Max({0} \cup marks(i)) ELSE Len(cells(i)))]
        info(i) == [index |-> i, base |-> cells(i)[1].base, count |-> Len(body[i].records),
                    size |-> body[i].size]
        segs == {info(i) : i \in kept}
        before(s) == {r \in segs : r.index < s.index}
        boundary(i) == \E k \in DOMAIN body[i].records :
                          body[i].records[k].n = proof.seq /\ body[i].records[k].size = proof.size
        refused ==
            \/ \E i \in names : \E m \in marks(i) : m > Len(cells(i))
            \/ \E i \in names \ kept : ~unborn(i)
            \/ \E i \in kept : \/ body[i].outcome = "corrupt"
                               \/ body[i].outcome = "torn" /\ ~isLast(i)
                               \/ required /\ proof.index = i /\ ~boundary(i)
            \/ required /\ proof.index \notin kept
            \/ \E s \in segs :
                 IF before(s) = {} THEN s.base > ck + 1
                 ELSE LET prev == LastSequence(CHOOSE r \in before(s) :
                                                 \A t \in before(s) : t.index <= r.index)
                      IN  s.base # prev + 1 /\ ~(prev <= ck /\ s.base <= ck + 1)
    IN  [refused |-> refused,
         segments |-> segs,
         durable |-> Max({ck} \cup {LastSequence(s) : s \in segs}),
         nextIdx |-> NextIndex(kept, mark, proof),
         discard |-> names \ kept,
         truncate |-> {i \in kept : body[i].size < Len(cells(i))},
         prefix |-> [i \in kept |-> SubSeq(cells(i), 1, body[i].size)],
         replay |-> UNION {{[n |-> r.n, v |-> r.v] : r \in ToSet(body[i].records)} : i \in kept},
         ck |-> ck]

-----------------------------------------------------------------------------
(* Attach: recover_bounded, step by step. *)

NoWriter == [next |-> None]
NoScan == [refused |-> FALSE]

\* Something goes wrong, or nothing does.
Fault == faults < MaxFaults /\ faults' = faults + 1
NoFault == UNCHANGED faults

\* The process ends, by an error of attach or by itself.
Down == pc' = "down" /\ w' = NoWriter /\ scan' = NoScan

\* The scan accepts; the checkpoint state it was read against is stored again
\* before anything is reclaimed on its strength.
Attach ==
    LET s == ScanJournal(d)
    IN  /\ pc = "down" /\ ~s.refused
        /\ d' = [d EXCEPT !.ck = Stored(@, s.ck)]
        /\ scan' = s
        /\ pc' = "repair"
        /\ UNCHANGED <<w, log, acked, faults>>

\* The scan refuses: recover_bounded fails with Corrupt and touches nothing.
AttachRefused == pc = "down" /\ ScanJournal(d).refused /\ UNCHANGED vars

\* The scan's repairs: at most one, of the final segment.
Repair ==
    /\ pc = "repair"
    /\ \/ /\ scan.discard = {} /\ scan.truncate = {}
          /\ pc' = "rewrite" /\ NoFault /\ UNCHANGED <<d, w, scan>>
       \/ \E i \in scan.discard :
            LET gone == OnFile(d, i, Removed(d.file[i]))
            IN  \/ d' = DirSync(gone) /\ pc' = "rewrite" /\ NoFault /\ UNCHANGED <<w, scan>>
                \/ d' = gone /\ Fault /\ Down
       \/ \E i \in scan.truncate :
            LET f == SetLen(d.file[i], Len(scan.prefix[i]))
            IN  \/ d' = OnFile(d, i, Synced(f)) /\ pc' = "rewrite" /\ NoFault /\ UNCHANGED <<w, scan>>
                \/ d' = OnFile(d, i, SyncFailed(f)) /\ Fault /\ Down
    /\ UNCHANGED <<log, acked>>

\* Each accepted prefix, in order: reassert its length, rewrite its bytes if
\* they are still the scanned ones, sync.
Rewrite ==
    /\ pc = "rewrite" /\ DOMAIN scan.prefix # {}
    /\ LET i == Min(DOMAIN scan.prefix)
           f == SetLen(d.file[i], Len(scan.prefix[i]))
           g == WriteAt(f, 0, f.data)
       IN  \/ /\ f.data = scan.prefix[i]
              /\ d' = OnFile(d, i, Synced(g))
              /\ scan' = [scan EXCEPT !.prefix = [j \in DOMAIN @ \ {i} |-> @[j]]]
              /\ NoFault /\ UNCHANGED <<pc, w>>
           \/ f.data = scan.prefix[i] /\ d' = OnFile(d, i, SyncFailed(g)) /\ Fault /\ Down
           \/ f.data # scan.prefix[i] /\ d' = OnFile(d, i, g) /\ NoFault /\ Down
    /\ UNCHANGED <<log, acked>>

NoBoundary == [seq |-> None, index |-> None, size |-> 0]

\* The horizon attach adopts: the end of the record that carries it, or the
\* published one when the checkpoint covers everything.
Adopted(s, proof) ==
    LET ends == {r \in s.segments : r.count > 0 /\ LastSequence(r) = s.durable}
    IN  IF s.durable <= proof.seq THEN proof
        ELSE IF ends # {}
        THEN LET r == CHOOSE r \in ends : \A t \in ends : t.index <= r.index
             IN  [seq |-> s.durable, index |-> r.index, size |-> r.size]
        ELSE IF s.durable > s.ck THEN NoBoundary ELSE proof

\* sync_dir, the mark (synced, for once) and the proof, which is refused if it
\* does not follow the published one.
Publish ==
    /\ pc = "rewrite" /\ DOMAIN scan.prefix = {}
    /\ LET final == CHOOSE r \in scan.segments : \A t \in scan.segments : t.index <= r.index
           m == [index |-> final.index, size |-> final.size]
           dir == IF scan.segments = {} THEN d ELSE DirSync(d)
           marked == IF scan.segments = {} THEN d
                     ELSE [dir EXCEPT !.mark = MarkSynced(MarkWritten(@, m))]
           cand == Adopted(scan, d.proof.now)
           admitted == Follows(cand, d.proof.now)
       IN  \/ /\ d' = IF admitted THEN [marked EXCEPT !.proof = Stored(@, cand)] ELSE marked
              /\ IF admitted THEN pc' = "replay" /\ UNCHANGED <<w, scan>> ELSE Down
              /\ NoFault
           \/ /\ admitted
              /\ \E p \in HalfStored(d.proof, cand) : d' = [marked EXCEPT !.proof = p]
              /\ Fault /\ Down
           \/ /\ scan.segments # {}
              /\ d' = [dir EXCEPT !.mark = MarkWritten(@, m)]
              /\ Fault /\ Down
    /\ UNCHANGED <<log, acked>>

\* JournalWriter::resume, with allow_covered_holes_below.
Resume(segments, ck) ==
    /\ pc' = "up" /\ scan' = NoScan /\ NoFault
    /\ w' = [next |-> scan.durable + 1, durable |-> scan.durable, sealed |-> segments,
             active |-> NoActive, nextIdx |-> scan.nextIdx, cleanup |-> None,
             proof |-> d.proof.now, ck |-> ck, holes |-> ck]
    /\ log' = SubSeq(log, 1, scan.durable)
    /\ acked' = scan.durable

\* checkpoint_validated_replay: the slots hold every record up to the adopted
\* horizon and the checkpoint state says so; nothing to do when it already did.
Replay ==
    /\ pc = "replay"
    /\ \/ /\ scan.durable > scan.ck
          /\ d' = [d EXCEPT !.ck = Stored(@, scan.durable)]
          /\ pc' = "prune" /\ NoFault /\ UNCHANGED <<w, scan, log, acked>>
       \/ /\ scan.durable > scan.ck
          /\ \E r \in HalfStored(d.ck, scan.durable) : d' = [d EXCEPT !.ck = r]
          /\ Fault /\ Down /\ UNCHANGED <<log, acked>>
       \/ /\ scan.durable <= scan.ck
          /\ Resume(scan.segments, scan.ck) /\ UNCHANGED d

\* The replayed segments are removed in order and the directory is synced.
Prune ==
    /\ pc = "prune"
    /\ LET without(gone) == [d EXCEPT !.file = [i \in Idx |-> IF \E s \in gone : s.index = i
                                                 THEN Removed(d.file[i]) ELSE d.file[i]]]
       IN  \/ \E s \in scan.segments :
                /\ d' = without({r \in scan.segments : r.index <= s.index})
                /\ Fault /\ Down /\ UNCHANGED <<log, acked>>
           \/ d' = DirSync(without(scan.segments)) /\ Resume({}, scan.durable)

-----------------------------------------------------------------------------
(* The running volume and its faults. *)

Report(o) ==
    /\ w' = o.w /\ d' = o.d
    /\ acked' = Max({acked, o.w.durable})
    /\ IF o.ok THEN NoFault ELSE Fault
    /\ UNCHANGED <<pc, scan>>

Write(v) ==
    /\ pc = "up"
    /\ \E o \in AppendRecord(w, d, v) :
         Report(o) /\ log' = IF o.ok THEN Append(log, v) ELSE log

Flush ==
    /\ pc = "up"
    /\ \E o \in SyncAll(w, d) : Report(o)
    /\ UNCHANGED log

Checkpoint(horizon) ==
    /\ pc = "up" /\ horizon <= w.durable
    /\ \E o \in FinishCheckpoint(w, d, horizon) : Report(o)
    /\ UNCHANGED log

\* The process ends, killed or by a failure of attach that leaves no trace in
\* the files; the page cache stays.
Kill ==
    /\ pc # "down"
    /\ Fault /\ Down
    /\ UNCHANGED <<d, log, acked>>

\* Memory pressure drops clean pages.
Evict(i) ==
    /\ Stale(d.file[i]) # {}
    /\ \E f \in Evicted(d.file[i]) : d' = OnFile(d, i, f)
    /\ Fault /\ UNCHANGED <<pc, w, scan, log, acked>>

Directories ==
    LET go[i \in -1..(MaxIdx - 1)] ==
            IF i = -1 THEN {<< >>}
            ELSE {[j \in 0..i |-> IF j = i THEN f ELSE g[j]] : f \in Survivors(d.file[i]), g \in go[i - 1]}
    IN  go[MaxIdx - 1]

\* Power loss.
Crash ==
    /\ \E files \in Directories, m \in d.mark.may, p \in d.proof.may, c \in d.ck.may :
         d' = [file |-> files, mark |-> [now |-> m, may |-> {m}],
               proof |-> Stored(d.proof, p), ck |-> Stored(d.ck, c)]
    /\ Fault /\ Down
    /\ UNCHANGED <<log, acked>>

\* create_volume leaves an empty journal, proof and checkpoint.
Init ==
    /\ pc = "down" /\ w = NoWriter /\ scan = NoScan
    /\ d = [file |-> [i \in Idx |-> NoFile],
            mark |-> [now |-> NoMark, may |-> {NoMark}],
            proof |-> Stored(0, [seq |-> 0, index |-> 0, size |-> 0]),
            ck |-> Stored(0, 0)]
    /\ log = << >> /\ acked = 0 /\ faults = 0

Next ==
    \/ Attach \/ AttachRefused \/ Repair \/ Rewrite \/ Publish \/ Replay \/ Prune
    \/ \E v \in Payload \cup {Tombstone} : Write(v)
    \/ Flush
    \/ \E h \in 0..(MaxSeq - 1) : Checkpoint(h)
    \/ Kill \/ Crash
    \/ \E i \in Idx : Evict(i)

Spec == Init /\ [][Next]_vars

-----------------------------------------------------------------------------
(* Properties. *)

\* Counters, history and attach step have their types, and no counter passes
\* the largest value the code can represent.
TypeOK ==
    /\ pc \in {"down", "repair", "rewrite", "replay", "prune", "up"}
    /\ log \in Seq(Payload \cup {Tombstone}) /\ Len(log) < MaxSeq
    /\ acked \in 0..Len(log)
    /\ pc = "up" => w.next \in 1..MaxSeq /\ w.nextIdx \in 0..MaxIdx

\* Attach recovers a prefix of the accepted records that contains every
\* acknowledged one, each with the payload that was accepted.
RecoversAcked ==
    pc = "down" =>
      LET s == ScanJournal(d)
      IN  /\ acked <= s.durable /\ s.durable <= Len(log)
          /\ {r \in s.replay : r.n > s.ck} = {[n |-> k, v |-> log[k]] : k \in (s.ck + 1)..s.durable}

\* JournalWriter::check_invariants.
WriterSane ==
    pc = "up" =>
      LET a == w.active
          all == w.sealed \cup (IF a = NoActive THEN {} ELSE {SegmentInfo(a)})
      IN  /\ w.cleanup # None => a = NoActive /\ w.cleanup = w.nextIdx
          /\ w.durable <= Appended(w) /\ w.ck <= w.durable
          /\ \A s \in all : s.index < w.nextIdx /\ s.size >= 1
          /\ \A s \in w.sealed : s.count > 0 => LastSequence(s) <= w.durable
          /\ \A r, s \in all :
               (r.index < s.index /\ ~\E t \in all : r.index < t.index /\ t.index < s.index) =>
                  \/ s.base = r.base + r.count
                  \/ r.base + r.count <= w.holes + 1 /\ s.base <= w.holes + 1
          /\ IF a = NoActive THEN w.durable = Appended(w)
             ELSE /\ a.base + a.count = w.next
                  /\ a.synced <= a.size
                  /\ ~a.tail => Len(d.file[a.index].data) = a.size
                  /\ IF a.unsynced THEN a.synced < a.size
                     ELSE a.synced = a.size /\ w.durable = Appended(w)

\* A barrier is never wedged: whatever an earlier failed publication left in
\* the proof files, the horizon of the pending records follows it.
BarrierAdmissible ==
    (pc = "up" /\ w.active # NoActive /\ Appended(w) > w.proof.seq) =>
      Follows([seq |-> Appended(w), index |-> w.active.index, size |-> w.active.size], d.proof.now)

\* What is accepted can be adopted: its horizon follows the published one.
AdoptionAdmissible ==
    (pc = "rewrite" /\ DOMAIN scan.prefix = {}) => Follows(Adopted(scan, d.proof.now), d.proof.now)

\* The files that a creation left without its header and that the scan takes
\* for damage: a part of a header, and an empty file that is not the last.
Unfinished(disk) ==
    LET names == {i \in Idx : disk.file[i].name}
    IN  {i \in names : disk.file[i].data
                         \in {<<Torn>>} \cup (IF i = Max(names) THEN {} ELSE {<< >>, <<Zero>>})}

\* Whatever mixture of power loss, kill, eviction, failed and torn writes and
\* failed syncs came before, the scan refuses the journal only for a file that
\* a creation left unfinished, as it must (it fails closed on a header that is
\* not whole): without it the scan accepts.  Damage to anything that was ever
\* complete is never caused by the system itself.  What is accepted can be
\* adopted; while the writer is up, its own invariants hold and no barrier is
\* wedged.
AttachAccepts ==
    /\ TypeOK /\ WriterSane /\ BarrierAdmissible /\ AdoptionAdmissible
    /\ pc = "down" =>
         LET rest == [d EXCEPT !.file = [i \in Idx |-> IF i \in Unfinished(d) THEN NoFile ELSE @[i]]]
         IN  ~ScanJournal(rest).refused

\* A segment index is never given to a new segment while a mark or a proof of
\* an older segment with that index may still surface and be held against it.
FreshIndex ==
    [][(pc = "up" /\ pc' = "up" /\ w'.nextIdx > w.nextIdx) =>
         /\ \A m \in d.mark.may \cup {d.mark.now} : m.index < w.nextIdx
         /\ \A p \in d.proof.may \cup {d.proof.now} : p.seq > 0 => p.index < w.nextIdx]_vars
=============================================================================
