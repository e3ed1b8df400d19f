--------------------------- MODULE EngineReclaim ----------------------------
(***************************************************************************)
(* How the engine keeps its journal and overlay bounded (maki-core         *)
(* engine.rs): journal admission with inline reclaim rounds, the           *)
(* checkpoint gate, and the background checkpoint worker with its          *)
(* triggers, backoff, wake-ups and shutdown.                               *)
(*                                                                         *)
(* Work under the volume lock is one action.  A checkpoint is three: it is *)
(* prepared and published under the lock and applied without it; its owner *)
(* holds the gate throughout.  A record counts 1 byte, and so does the     *)
(* header of a segment; every record is of a unit of its own, the worst    *)
(* case for the overlay.  The clock is abstracted to the two questions the *)
(* worker asks of it: whether the interval since the last checkpoint has   *)
(* elapsed, and whether the backoff after a failure is over.               *)
(***************************************************************************)
EXTENDS Integers, Sequences, FiniteSetsExt, SequencesExt

CONSTANTS
    Writer,       \* publication tasks that run at the same time
    Settings      \* the configurations an engine may be started with

\* A configuration: the writers at work and their requests, each <<records,
\* fua, trim>>, largest of which counts the records; segment (the bytes of a
\* journal segment), rounds (MAX_RECLAIM_ROUNDS), journal (journal_max_bytes),
\* high (journal_high_watermark_bytes), overlay (max_overlay_entries), pending
\* (max_pending_bytes); and bounds on the records that are asked for, the
\* storage calls that fail and the changes of the free space.
\* validate_journal_bounds: what an inline reclaim leaves, the active segment,
\* and the largest request fit under the limits.
ASSUME ReclaimAssumption ==
    /\ Writer \cap {"worker", "admin"} = {}
    /\ \A s \in Settings :
           /\ s.writers \subseteq Writer
           /\ {s.largest, s.rounds, s.journal, s.high, s.pending, s.records} \subseteq Nat \ {0}
           /\ s.faults \in Nat /\ s.space \in Nat
           /\ s.segment \in Nat /\ s.segment >= 2
           /\ s.journal >= 2 * s.segment + s.largest
           /\ s.journal >= s.segment + s.largest + (s.largest + s.segment - 2) \div (s.segment - 1)
           /\ s.overlay \in Nat /\ s.overlay >= s.largest
           /\ s.requests \subseteq (0..s.largest) \X BOOLEAN \X BOOLEAN
           /\ \A r \in s.requests : r[1] > 0 \/ r[3]

VARIABLES
    cfg,      \* the configuration
    vol,      \* the journal and the volume's view of it, see ReclaimInit
    wr,       \* the publication of each writer
    ck,       \* the checkpoint in flight
    wk,       \* the worker
    sig,      \* what wakes it: permit, space_refused, stop, due, backoff
    free,     \* backing free space, a member of FreeLevel
    early,    \* history: a write was refused for room before the last round
    returned, \* stop_checkpoint_worker has returned
    clean,    \* history: the last checkpoint succeeded
    spent     \* the records asked for, faults and space changes so far

reclaimVars == <<cfg, vol, wr, ck, wk, sig, free, early, returned, clean, spent>>

Appended == vol.appended

SegmentSize == cfg.segment

\* JournalWriter::total_bytes, the active segment being the last one.
TotalBytes(v) ==
    LET bytes[i \in 0..Len(v.segments)] == IF i = 0 THEN 0 ELSE bytes[i - 1] + 1 + v.segments[i].count
    IN  bytes[Len(v.segments)]

OverlayLen(v) == v.appended - v.retired

\* The sealed segments that the checkpoint covers but that are still there.
IsCovered(v, i) == i < Len(v.segments) /\ v.segments[i].last <= v.ckpt

CoveredCount(v) == Cardinality({i \in 1..Len(v.segments) : IsCovered(v, i)})

\* Room for records in the active segment: its first one always fits.
Fitting(v) == IF v.segments = <<>> THEN 0
              ELSE Max({SegmentSize - 1 - Last(v.segments).count, IF Last(v.segments).count = 0 THEN 1 ELSE 0})

\* Mutant: the headers of the segments that a roll creates are not counted.
FootprintOfRecords(v, n) == n

\* checked_append_footprint: the records and the headers of new segments.
Footprint(v, n) ==
    LET rest == n - Min({n, Fitting(v)})
        perSegment == SegmentSize - 1
    IN  n + (rest + perSegment - 1) \div perSegment

\* JournalWriter::sync
Synced(v) == [v EXCEPT !.durable = v.appended]

\* JournalWriter::append: a full segment is sealed, and with it synced.
AppendOne(v) ==
    LET rolls == Fitting(v) = 0
        rolled == IF rolls THEN [Synced(v) EXCEPT !.segments = Append(@, [last |-> v.appended, count |-> 0])]
                  ELSE v
        n == Len(rolled.segments)
    IN  [rolled EXCEPT !.appended = @ + 1, !.segments[n] = [last |-> v.appended + 1, count |-> @.count + 1]]

\* journal_request: a record that would exceed the pending bytes syncs first.
AppendPending(v) == AppendOne(IF v.appended - v.durable + 1 > cfg.pending THEN Synced(v) ELSE v)

AppendAll(v, n) ==
    LET after[i \in 0..n] == IF i = 0 THEN v ELSE AppendPending(after[i - 1])
    IN  after[n]

\* delete_covered, the first k of the covered segments.
Drop(v, k) == [v EXCEPT !.segments = SubSeq(@, k + 1, Len(@))]

Deleted(v) == Drop(v, CoveredCount(v))

-----------------------------------------------------------------------------
NoCheckpoint == [stage |-> "none"]
Asleep == [stage |-> "sleep"]
NoWrite == [stage |-> "idle"]

\* Free space by what it still admits: everything; discards only ("short");
\* the same below low_space_checkpoint_bytes ("low"); nothing ("out").
FreeLevel == {"ample", "short", "low", "out"}

Fault == spent.faults < cfg.faults /\ spent' = [spent EXCEPT !.faults = @ + 1]

ReclaimInit ==
    /\ cfg \in Settings
    /\ vol = [segments |-> <<>>, appended |-> 0, durable |-> 0, ckpt |-> 0, retired |-> 0, punch |-> FALSE]
    /\ wr = [w \in Writer |-> NoWrite]
    /\ ck = NoCheckpoint
    /\ wk = Asleep
    /\ sig = [permit |-> FALSE, refused |-> FALSE, stop |-> FALSE, due |-> FALSE, backoff |-> FALSE]
    /\ free = "ample"
    /\ early = FALSE
    /\ returned = FALSE
    /\ clean = FALSE
    /\ spent = [records |-> 0, faults |-> 0, space |-> 0]

-----------------------------------------------------------------------------
(* Writers: publish_ciphertexts, journal_request and admit_journal. *)

\* n counts the records that journal_request keeps: a discard of units that
\* are all unwritten keeps none.
Request(w) ==
    /\ w \in cfg.writers
    /\ wr[w].stage = "idle"
    /\ \E r \in cfg.requests :
         /\ spent.records + Max({r[1], 1}) <= cfg.records
         /\ spent' = [spent EXCEPT !.records = @ + Max({r[1], 1})]
         /\ wr' = [wr EXCEPT ![w] = [stage |-> "round", round |-> 0, n |-> r[1], fua |-> r[2], trim |-> r[3]]]
    /\ UNCHANGED <<cfg, vol, ck, wk, sig, free, early, returned, clean>>

\* reclaim_unwritten: a discarded unit without data may leave a slot to punch.
Scheduled(w) == IF wr[w].trim THEN {vol, [vol EXCEPT !.punch = TRUE]} ELSE {vol}

\* The emergency reserve, and for data the headroom of a checkpoint.
NoSpace(w) == wr[w].n > 0 /\ (free = "out" \/ (free # "ample" /\ ~wr[w].trim))

\* The overlay or the journal would exceed its limit.
OverLimit(n) ==
    /\ n > 0
    /\ \/ OverlayLen(vol) + n > cfg.overlay
       \/ TotalBytes(vol) + Footprint(vol, n) > cfg.journal

\* Mutant: nothing volatile is taken for nothing to reclaim.
ExhaustedIfDurable(round) == round > 0 /\ (round = cfg.rounds \/ vol.durable >= Appended)

\* Nothing more can be reclaimed.
Exhausted(round) == round > 0 /\ (round = cfg.rounds \/ vol.ckpt >= Appended)

OverlayHigh(v) == OverlayLen(v) >= cfg.overlay \div 2

\* The write fails for space and wakes the worker, or the space is unknown.
RefuseForSpace(w) ==
    /\ wr[w].stage = "round"
    /\ \/ NoSpace(w) /\ sig' = [sig EXCEPT !.refused = TRUE, !.permit = TRUE] /\ UNCHANGED spent
       \/ wr[w].n > 0 /\ Fault /\ UNCHANGED sig
    /\ vol' \in Scheduled(w)
    /\ wr' = [wr EXCEPT ![w] = NoWrite]
    /\ UNCHANGED <<cfg, ck, wk, free, early, returned, clean>>

\* At a limit with nothing left to reclaim: the write fails.
RefuseForRoom(w) ==
    /\ wr[w].stage = "round"
    /\ ~NoSpace(w)
    /\ OverLimit(wr[w].n)
    /\ Exhausted(wr[w].round)
    /\ vol' \in Scheduled(w)
    /\ wr' = [wr EXCEPT ![w] = NoWrite]
    /\ early' = (early \/ wr[w].round < cfg.rounds)
    /\ UNCHANGED <<cfg, ck, wk, sig, free, returned, clean, spent>>

\* At a limit: the journal is synced and the writer waits for the gate.
Reclaim(w) ==
    /\ wr[w].stage = "round"
    /\ ~NoSpace(w)
    /\ OverLimit(wr[w].n)
    /\ ~Exhausted(wr[w].round)
    /\ \E v \in Scheduled(w) :
         \/ /\ vol' = Synced(v)
            /\ wr' = [wr EXCEPT ![w].stage = "gate"]
            /\ UNCHANGED spent
         \/ /\ Fault
            /\ vol' = v
            /\ wr' = [wr EXCEPT ![w] = NoWrite]
    /\ UNCHANGED <<cfg, ck, wk, sig, free, early, returned, clean>>

\* The records are appended, and synced for FUA, and the worker is woken at a
\* watermark; a failure leaves the records before it.
PublishCiphertexts(w) ==
    /\ wr[w].stage = "round"
    /\ ~NoSpace(w)
    /\ ~OverLimit(wr[w].n)
    /\ \E v \in Scheduled(w) :
         \/ /\ vol' = IF wr[w].fua THEN Synced(AppendAll(v, wr[w].n)) ELSE AppendAll(v, wr[w].n)
            /\ sig' = [sig EXCEPT !.permit = @ \/ TotalBytes(vol') >= cfg.high \/ OverlayHigh(vol') \/ vol'.punch]
            /\ UNCHANGED spent
         \/ /\ Fault
            /\ \E k \in 0..wr[w].n :
                 /\ k = wr[w].n => wr[w].fua
                 /\ vol' \in {AppendAll(v, k), Synced(AppendAll(v, k))}
            /\ UNCHANGED sig
    /\ wr' = [wr EXCEPT ![w] = NoWrite]
    /\ UNCHANGED <<cfg, ck, wk, free, early, returned, clean>>

\* FLUSH
Flush ==
    /\ vol.durable < Appended
    /\ vol' = Synced(vol)
    /\ UNCHANGED <<cfg, wr, ck, wk, sig, free, early, returned, clean, spent>>

-----------------------------------------------------------------------------
(* Checkpoints: EngineInner::checkpoint. *)

Worker == "worker"
Admin == "admin"

WriterEnters(w) ==
    /\ wr[w].stage = "gate"
    /\ ck = NoCheckpoint
    /\ ck' = [stage |-> "prepare", by |-> w]
    /\ wr' = [wr EXCEPT ![w].stage = "wait"]
    /\ UNCHANGED <<cfg, vol, wk, sig, free, early, returned, clean, spent>>

WorkerEnters ==
    /\ wk.stage = "gate"
    /\ ck = NoCheckpoint
    /\ ck' = [stage |-> "prepare", by |-> Worker]
    /\ wk' = [wk EXCEPT !.stage = "wait"]
    /\ UNCHANGED <<cfg, vol, wr, sig, free, early, returned, clean, spent>>

\* Engine::checkpoint for a drain or a detach.
AdminEnters ==
    /\ ck = NoCheckpoint
    /\ ck' = [stage |-> "prepare", by |-> Admin]
    /\ UNCHANGED <<cfg, vol, wr, wk, sig, free, early, returned, clean, spent>>

\* prepare_checkpoint under the lock captures the durable horizon.
Prepare ==
    /\ ck.stage = "prepare"
    /\ ck' = [stage |-> "execute", by |-> ck.by, horizon |-> vol.durable]
    /\ UNCHANGED <<cfg, vol, wr, wk, sig, free, early, returned, clean, spent>>

\* PreparedCheckpoint::execute without the lock.
Execute ==
    /\ ck.stage = "execute"
    /\ \E ok \in BOOLEAN :
         /\ ck' = [stage |-> "finish", by |-> ck.by, horizon |-> ck.horizon, ok |-> ok]
         /\ IF ok THEN UNCHANGED spent ELSE Fault
    /\ UNCHANGED <<cfg, vol, wr, wk, sig, free, early, returned, clean>>

\* Mutant: a writer whose checkpoint failed is not told.
ReportToWorker(ok) ==
    /\ ck' = NoCheckpoint
    /\ clean' = ok
    /\ wk' = IF ck.by = Worker THEN IF ok THEN [wk EXCEPT !.stage = "after"] ELSE Asleep ELSE wk
    /\ wr' = [w \in Writer |-> IF ck.by = w /\ ok THEN [wr[w] EXCEPT !.stage = "round", !.round = @ + 1]
                             ELSE wr[w]]

\* The caller goes on with the result: the worker to its next pass, a writer
\* to its next round or to its error.
Report(ok) ==
    /\ ck' = NoCheckpoint
    /\ clean' = ok
    /\ wk' = IF ck.by = Worker THEN IF ok THEN [wk EXCEPT !.stage = "after"] ELSE Asleep ELSE wk
    /\ wr' = [w \in Writer |-> IF ck.by # w THEN wr[w]
                             ELSE IF ok THEN [wr[w] EXCEPT !.stage = "round", !.round = @ + 1]
                             ELSE NoWrite]

\* Mutant: a checkpoint with nothing new postpones the worker's deadline.
DueAfterAny(new) == FALSE

\* last_checkpoint_at moves only with the checkpoint.
DueAfter(new) == sig.due /\ ~new

\* finish_checkpoint under the lock: the state is stored, then the slots are
\* punched, the covered segments deleted, also when nothing new was applied,
\* and the overlay retired.
Finish ==
    /\ ck.stage = "finish"
    /\ LET new == ck.horizon > vol.ckpt
           stored == [vol EXCEPT !.ckpt = Max({@, ck.horizon})]
           cleaned == [Deleted(stored) EXCEPT !.retired = stored.ckpt]
           first == IF new THEN stored ELSE [vol EXCEPT !.retired = vol.ckpt]
           partial == {vol} \cup {Drop(first, k) : k \in 0..CoveredCount(first)}
       IN  \/ /\ ck.ok
              /\ \/ UNCHANGED spent /\ \E punch \in {FALSE, vol.punch} : vol' = [cleaned EXCEPT !.punch = punch]
                 \/ Fault /\ new /\ vol' = [cleaned EXCEPT !.punch = TRUE]
              /\ sig' = [sig EXCEPT !.due = DueAfter(new), !.backoff = @ /\ ck.by # Worker]
              /\ Report(TRUE)
           \/ /\ \/ ck.ok /\ Fault /\ vol' \in partial
                 \/ ~ck.ok /\ UNCHANGED <<vol, spent>>
              /\ sig' = [sig EXCEPT !.backoff = @ \/ ck.by = Worker]
              /\ Report(FALSE)
    /\ UNCHANGED <<cfg, free, early, returned>>

-----------------------------------------------------------------------------
(* The worker: spawn_checkpoint_worker and worker_pass. *)

\* The worker is notified, or has slept for the interval.
Wake ==
    /\ wk.stage = "sleep"
    /\ wk' = [stage |-> IF sig.stop THEN "done" ELSE "scan"]
    /\ sig' = [sig EXCEPT !.permit = FALSE]
    /\ UNCHANGED <<cfg, vol, wr, ck, free, early, returned, clean, spent>>

\* Nothing to apply, to delete, to punch, and no write refused for space.
IdlePass == Appended <= vol.ckpt /\ CoveredCount(vol) = 0 /\ ~vol.punch /\ ~sig.refused

\* What a pass reads under the volume read lock, and its early returns.
Scan ==
    /\ wk.stage = "scan"
    /\ wk' = IF IdlePass \/ sig.backoff
             THEN Asleep
             ELSE [stage |-> "decide", volatile |-> vol.durable < Appended,
                   overlay |-> OverlayHigh(vol), size |-> TotalBytes(vol) >= cfg.high,
                   punch |-> vol.punch]
    /\ UNCHANGED <<cfg, vol, wr, ck, sig, free, early, returned, clean, spent>>

\* The triggers that sync first, by what the pass has read.
MustSync(refused) == (sig.due \/ wk.overlay \/ refused) /\ wk.volatile

\* The triggers; a refusal is consumed by the pass that serves it.
Decide ==
    /\ wk.stage = "decide"
    /\ IF sig.stop THEN wk' = Asleep /\ UNCHANGED sig
       ELSE /\ sig' = [sig EXCEPT !.refused = FALSE]
            /\ wk' = IF \/ wk.size \/ wk.overlay \/ wk.punch \/ sig.due \/ sig.refused
                        \/ ~wk.punch /\ free \in {"low", "out"}
                     THEN [stage |-> IF MustSync(sig.refused) THEN "sync" ELSE "enter"]
                     ELSE Asleep
    /\ UNCHANGED <<cfg, vol, wr, ck, free, early, returned, clean, spent>>

\* The sync before the checkpoint; its failure defers the next attempt.
Sync ==
    /\ wk.stage = "sync"
    /\ \/ sig.stop /\ wk' = Asleep /\ UNCHANGED <<vol, sig, spent>>
       \/ ~sig.stop /\ vol' = Synced(vol) /\ wk' = [wk EXCEPT !.stage = "enter"] /\ UNCHANGED <<sig, spent>>
       \/ /\ ~sig.stop
          /\ Fault
          /\ sig' = [sig EXCEPT !.backoff = TRUE]
          /\ wk' = Asleep
          /\ UNCHANGED vol
    /\ UNCHANGED <<cfg, wr, ck, free, early, returned, clean>>

\* The last look at the stop flag before the gate.
Enter ==
    /\ wk.stage = "enter"
    /\ wk' = IF sig.stop THEN Asleep ELSE [wk EXCEPT !.stage = "gate"]
    /\ UNCHANGED <<cfg, vol, wr, ck, sig, free, early, returned, clean, spent>>

\* After a checkpoint: another batch of slots is left to punch.
After ==
    /\ wk.stage = "after"
    /\ wk' = Asleep
    /\ sig' = [sig EXCEPT !.permit = @ \/ vol.punch]
    /\ UNCHANGED <<cfg, vol, wr, ck, free, early, returned, clean, spent>>

-----------------------------------------------------------------------------
(* Time, space and shutdown. *)

\* The interval since the last checkpoint elapses, and later the backoff of a
\* failed pass, which starts no earlier and lasts as long.
Tick ==
    /\ \/ ~sig.due /\ sig' = [sig EXCEPT !.due = TRUE]
       \/ sig.due /\ sig.backoff /\ sig' = [sig EXCEPT !.backoff = FALSE]
    /\ UNCHANGED <<cfg, vol, wr, ck, wk, free, early, returned, clean, spent>>

FreeSpace ==
    /\ spent.space < cfg.space
    /\ \E f \in FreeLevel \ {free} : free' = f
    /\ spent' = [spent EXCEPT !.space = @ + 1]
    /\ UNCHANGED <<cfg, vol, wr, ck, wk, sig, early, returned, clean>>

\* stop_checkpoint_worker sets the flag and wakes the worker.
Stop ==
    /\ ~sig.stop
    /\ sig' = [sig EXCEPT !.stop = TRUE, !.permit = TRUE]
    /\ UNCHANGED <<cfg, vol, wr, ck, wk, free, early, returned, clean, spent>>

\* It returns once the worker task has ended.
Stopped ==
    /\ sig.stop /\ ~returned
    /\ wk.stage = "done"
    /\ returned' = TRUE
    /\ UNCHANGED <<cfg, vol, wr, ck, wk, sig, free, early, clean, spent>>

Write(w) == RefuseForSpace(w) \/ RefuseForRoom(w) \/ Reclaim(w) \/ PublishCiphertexts(w)
WorkerStep == Wake \/ Scan \/ Decide \/ Sync \/ Enter \/ After
CheckpointStep == Prepare \/ Execute \/ Finish

ReclaimNext ==
    \/ \E w \in Writer : Request(w) \/ Write(w) \/ WriterEnters(w)
    \/ CheckpointStep \/ WorkerStep \/ WorkerEnters \/ AdminEnters
    \/ Flush \/ Tick \/ FreeSpace \/ Stop \/ Stopped

ReclaimSpec == ReclaimInit /\ [][ReclaimNext]_reclaimVars

\* Fairness: tasks that can run do, the gate is served in the order of
\* arrival, the clock advances, and a caller that stops the worker waits.
FairSpec ==
    /\ ReclaimSpec
    /\ WF_reclaimVars(CheckpointStep) /\ WF_reclaimVars(WorkerStep) /\ WF_reclaimVars(Tick) /\ WF_reclaimVars(Stopped)
    /\ SF_reclaimVars(WorkerEnters)
    /\ \A w \in Writer : WF_reclaimVars(Write(w)) /\ SF_reclaimVars(WriterEnters(w))

-----------------------------------------------------------------------------
(* Properties. *)

ReclaimTypeOK ==
    /\ vol.ckpt <= vol.durable /\ vol.durable <= Appended /\ vol.retired <= vol.ckpt
    /\ Appended = IF vol.segments = <<>> THEN 0 ELSE Last(vol.segments).last
    /\ \A i \in 1..Len(vol.segments) : vol.segments[i].last <= Appended
    /\ vol.punch \in BOOLEAN
    /\ \A w \in Writer : wr[w].stage \in {"idle", "round", "gate", "wait"}
    /\ \A w \in Writer : wr[w].stage # "idle" => wr[w].round \in 0..cfg.rounds
    /\ ck.stage \in {"none", "prepare", "execute", "finish"}
    /\ wk.stage \in {"sleep", "scan", "decide", "sync", "enter", "gate", "wait", "after", "done"}
    /\ free \in FreeLevel
    /\ spent.records \in 0..cfg.records /\ spent.faults \in 0..cfg.faults /\ spent.space \in 0..cfg.space

\* The journal on disk with all its segment headers, the overlay in memory
\* and the unsynced tail stay within their limits, whoever appends, rolls or
\* fails when; and when the last checkpoint succeeded and covers every record,
\* the largest request fits: covered segments that an earlier failure left
\* behind never keep the journal at its limit (admit_journal, journal_request,
\* finish_checkpoint, minimum_journal_limit).
BoundsHeld ==
    /\ ReclaimTypeOK
    /\ TotalBytes(vol) <= cfg.journal
    /\ OverlayLen(vol) <= cfg.overlay
    /\ Appended - vol.durable <= cfg.pending
    /\ clean /\ vol.ckpt >= Appended => ~OverLimit(cfg.largest)

\* Without a storage failure, no write is refused for room before its last
\* round, whatever other writers append and sync meanwhile (admit_journal).
NotRefusedEarly == early => spent.faults > 0

\* Once stop_checkpoint_worker has returned, the worker is gone and none of its
\* checkpoints is in flight: nothing writes after a shutdown.
WorkerGone == returned => wk.stage = "done" /\ (ck.stage = "none" \/ ck.by # Worker)

\* Every publication returns, with its records or with an error, also when
\* the checkpoint it waits for fails; and stop_checkpoint_worker returns, but
\* not before the worker is gone and none of its checkpoints is in flight
\* (admit_journal, EngineInner::checkpoint, stop_checkpoint_worker).
CallersReturn ==
    /\ \A w \in Writer : wr[w].stage # "idle" ~> wr[w].stage = "idle"
    /\ sig.stop ~> returned
    /\ []WorkerGone

\* The worker does what it is there for until it is stopped: every appended
\* record is eventually checkpointed, also when nobody syncs and no limit is
\* near, and a write refused for space is answered by a pass, also when the
\* journal is empty or a backoff is running (worker_pass).
WorkDrained ==
    /\ vol.ckpt < Appended ~> vol.ckpt = Appended \/ sig.stop
    /\ sig.refused ~> ~sig.refused \/ sig.stop
=============================================================================
