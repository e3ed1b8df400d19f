---------------------------- MODULE DurableProof ----------------------------
(***************************************************************************)
(* The required durable proof of a Maki volume (maki-format                *)
(* durable_proof.rs) on top of the A/B dual-copy metadata protocol         *)
(* (maki-format ab.rs), on a file system with a page cache.                *)
(*                                                                         *)
(* A barrier first makes the journal data durable and then publishes the   *)
(* new horizon to BOTH copies, journal/durable-proof.a and .b, by two      *)
(* A/B stores.  Each store rewrites and syncs the copy it preserves before *)
(* it overwrites the other one.  Between any two of these steps a system   *)
(* call can fail, the process can be killed (the page cache survives) or   *)
(* the machine can lose power (only what reached the disk survives, and a  *)
(* copy being written may be torn).                                        *)
(*                                                                         *)
(* Abstractions.  A copy is a record of its generation and its horizon, or *)
(* Torn: absent, short, or failing its CRC, which the code treats alike.   *)
(* A horizon is one number: it stands for the triple (durable_sequence,    *)
(* segment_index, durable_size), whose last two components the journal     *)
(* determines from the first.  Both directory entries exist and are        *)
(* durable from initialize on, so sync_dir has no effect but its failure.  *)
(***************************************************************************)
EXTENDS Integers

CONSTANTS MaxGen,      \* largest representable generation (u64::MAX in the code)
          MaxHorizon   \* bound on the horizons offered for publication

ASSUME BoundsAssumption == MaxGen \in Nat \ {0, 1} /\ MaxHorizon \in Nat

VARIABLES
    disk,    \* disk[s]: the copy of side s that a power loss would leave, pend aside
    cache,   \* cache[s]: the copy of side s that a read returns (the page cache)
    pend,    \* pend[s]: images written to side s that no sync has settled yet
    pc,      \* the step DurableProofStore::advance has reached, "idle" or "down"
    live,    \* the running advance serves a barrier (TRUE) or recovery (FALSE)
    pass,    \* which of the two stores of advance is running
    proof,   \* JournalWriter.proof: the horizon the writer believes published
    cand,    \* the candidate advance is publishing
    acked,   \* history: the highest horizon reported published
    synced   \* history: the highest horizon whose journal data was made durable

vars == <<disk, cache, pend, pc, live, pass, proof, cand, acked, synced>>

files == <<disk, cache, pend>>

-----------------------------------------------------------------------------
(* Copies and how they are read. *)

Side == {"a", "b"}

Other(s) == IF s = "a" THEN "b" ELSE "a"

Torn == [gen |-> -1, seq |-> -1]

Record == [gen : 0..MaxGen, seq : Nat]

Copy == Record \cup {Torn}

Valid(c) == c # Torn

\* DurableProof::follows: a newer horizon never regresses.
Follows(new, old) == new.seq >= old.seq

\* DurableProofStore::load refuses a pair that contradicts itself and a pair
\* without a valid copy; one invalid copy is tolerated.
Loadable(img) ==
    /\ \E s \in Side : Valid(img[s])
    /\ \A s \in Side :
         (Valid(img["a"]) /\ Valid(img["b"]) /\ img[s].gen >= img[Other(s)].gen)
            => /\ Follows(img[s], img[Other(s)])
               /\ img[s].gen = img[Other(s)].gen => img[s] = img[Other(s)]

\* The copy load selects: the valid one of the highest generation.
Newest(img) == IF Valid(img["a"]) /\ (Valid(img["b"]) => img["a"].gen >= img["b"].gen)
               THEN img["a"] ELSE img["b"]

\* Mutant: the newer copy is overwritten.
TargetNewest(img) == IF img["a"].gen <= img["b"].gen THEN "b" ELSE "a"

\* AbStore::target_for: an invalid side first, otherwise the older one.
Target(img) == IF ~Valid(img["a"]) \/ (Valid(img["b"]) /\ img["a"].gen <= img["b"].gen)
               THEN "a" ELSE "b"

\* The generation the next stored record gets: past both sides and itself.
\* An invalid side has no generation and never raises the maximum.
NextGen(img, rec) ==
    1 + LET ab == IF img["a"].gen >= img["b"].gen THEN img["a"].gen ELSE img["b"].gen
        IN  IF ab >= rec.gen THEN ab ELSE rec.gen

-----------------------------------------------------------------------------
(* The file system.  A write shows at once and may reach the disk at any   *)
(* time; a successful sync settles it; a failed sync marks it clean without*)
(* saying what reached the disk (the Linux writeback-error behaviour that  *)
(* maki-test-support CrashableBacking reproduces).                         *)

\* What side s may hold after a power loss.  Rewriting a copy with the bytes
\* the disk already has cannot tear it.
Images(s) == {disk[s]} \cup pend[s] \cup
             (IF pend[s] \subseteq {disk[s]} THEN {} ELSE {Torn})

WriteTo(s, c) ==
    /\ cache' = [cache EXCEPT ![s] = c]
    /\ pend' = [pend EXCEPT ![s] = @ \cup {c}]
    /\ UNCHANGED disk

SyncOk(s) ==
    /\ disk' = [disk EXCEPT ![s] = IF pend[s] = {} THEN @ ELSE cache[s]]
    /\ pend' = [pend EXCEPT ![s] = {}]
    /\ UNCHANGED cache

SyncFails(s) ==
    /\ \E i \in Images(s) : disk' = [disk EXCEPT ![s] = i]
    /\ pend' = [pend EXCEPT ![s] = {}]
    /\ UNCHANGED cache

-----------------------------------------------------------------------------
\* init::create_volume has run DurableProofStore::initialize: both copies hold
\* the empty horizon and are durable; no process has the volume open.
Init ==
    /\ disk = [s \in Side |-> IF s = "a" THEN [gen |-> 1, seq |-> 0]
                                         ELSE [gen |-> 2, seq |-> 0]]
    /\ cache = disk
    /\ pend = [s \in Side |-> {}]
    /\ pc = "down" /\ live = FALSE /\ pass = 1
    /\ proof = [gen |-> 2, seq |-> 0]
    /\ cand = proof
    /\ acked = 0 /\ synced = 0

\* The checks advance makes before it touches storage.
Admissible(c) ==
    /\ Loadable(cache)
    /\ Follows(c, Newest(cache))
    /\ c.gen <= Newest(cache).gen
    /\ Newest(cache).gen + 2 <= MaxGen

\* JournalWriter::sync_active: the active segment's data is durable up to h,
\* beyond the published proof; advance starts.
BeginBarrier(h) ==
    /\ pc = "idle" /\ h > proof.seq /\ h >= synced
    /\ synced' = h
    /\ LET c == [gen |-> proof.gen, seq |-> h]
       IN  /\ cand' = c
           /\ pc' = IF Admissible(c) THEN "preserve" ELSE "idle"
    /\ live' = TRUE /\ pass' = 1
    /\ UNCHANGED <<files, proof, acked>>

\* recover_with_replay: the proof is loaded (or attach is refused), every
\* accepted journal prefix is rewritten and synced, and the adopted horizon,
\* which covers all data made durable before, is published again.
BeginRecovery(h) ==
    /\ pc = "down" /\ Loadable(cache) /\ h >= synced
    /\ LET c == [gen |-> Newest(cache).gen, seq |-> h]
       IN  /\ Admissible(c)
           /\ cand' = c
    /\ synced' = h
    /\ pc' = "preserve" /\ live' = FALSE /\ pass' = 1
    /\ UNCHANGED <<files, proof, acked>>

Working == pc \in {"preserve", "presync", "write", "tsync", "dirsync"}

\* The running advance returns an error: a live writer keeps its old proof
\* and stays up, a failed recovery refuses the attach.
Fail == pc' = IF live THEN "idle" ELSE "down"

\* A step that failed before it changed any file (open, set_len, sync_dir,
\* an exhausted generation), or the effect-free prefix of a failed write.
Abort ==
    /\ Working
    /\ Fail
    /\ UNCHANGED <<files, live, pass, proof, cand, acked, synced>>

\* Mutant: the preserved copy is synced without being rewritten.
PreserveBySyncOnly ==
    /\ pc = "preserve" /\ pc' = "presync"
    /\ UNCHANGED <<files, live, pass, proof, cand, acked, synced>>

\* AbStore::store, preserve step: rewrite the exact bytes of the valid copy
\* that is not the target.
Preserve ==
    /\ pc = "preserve"
    /\ LET p == Other(Target(cache))
       IN  WriteTo(p, cache[p])
    /\ pc' = "presync"
    /\ UNCHANGED <<live, pass, proof, cand, acked, synced>>

PreserveSync ==
    /\ pc = "presync"
    /\ LET p == Other(Target(cache))
       IN  \/ SyncOk(p) /\ pc' = "write"
           \/ SyncFails(p) /\ Fail
    /\ UNCHANGED <<live, pass, proof, cand, acked, synced>>

\* AbStore::store, replacement: the record gets the next generation and goes
\* over the target; a write may stop half way.
WriteTarget ==
    /\ pc = "write" /\ NextGen(cache, cand) <= MaxGen
    /\ LET t == Target(cache)
           rec == [gen |-> NextGen(cache, cand), seq |-> cand.seq]
       IN  \/ WriteTo(t, rec) /\ pc' = "tsync" /\ cand' = rec
           \/ WriteTo(t, Torn) /\ Fail /\ UNCHANGED cand
    /\ UNCHANGED <<live, pass, proof, acked, synced>>

\* The side that holds the record this store has just written.
Written == CHOOSE s \in Side : cache[s] = cand

TargetSync ==
    /\ pc = "tsync"
    /\ \/ SyncOk(Written) /\ pc' = "dirsync"
       \/ SyncFails(Written) /\ Fail
    /\ UNCHANGED <<live, pass, proof, cand, acked, synced>>

\* Mutant: advance reports success after a single store.
FinishAfterOneStore ==
    /\ pc = "dirsync" /\ pc' = "idle"
    /\ proof' = cand /\ acked' = cand.seq
    /\ UNCHANGED <<files, live, pass, cand, synced>>

\* The directory is synced.  After its first store advance loads the pair
\* again and stores once more; after the second it reports success.
FinishStore ==
    /\ pc = "dirsync"
    /\ \/ /\ pass = 1
          /\ IF Loadable(cache) THEN pc' = "preserve" /\ pass' = 2
                                ELSE Fail /\ UNCHANGED pass
          /\ UNCHANGED <<proof, acked>>
       \/ pass = 2 /\ pc' = "idle" /\ proof' = cand /\ acked' = cand.seq /\ UNCHANGED pass
    /\ UNCHANGED <<files, live, cand, synced>>

\* Power loss: every side keeps one of its possible images.
Crash ==
    /\ disk' \in [Side -> UNION {Images(s) : s \in Side}]
    /\ \A s \in Side : disk'[s] \in Images(s)
    /\ cache' = disk'
    /\ pend' = [s \in Side |-> {}]
    /\ pc' = "down" /\ live' = FALSE
    /\ UNCHANGED <<pass, proof, cand, acked, synced>>

\* The process ends, by a kill or a clean detach; the page cache stays.
Restart ==
    /\ pc # "down"
    /\ pc' = "down" /\ live' = FALSE
    /\ UNCHANGED <<files, pass, proof, cand, acked, synced>>

Next ==
    \/ \E h \in 0..MaxHorizon : BeginBarrier(h) \/ BeginRecovery(h)
    \/ Preserve \/ PreserveSync \/ WriteTarget \/ TargetSync \/ FinishStore
    \/ Abort \/ Crash \/ Restart

Spec == Init /\ [][Next]_vars

-----------------------------------------------------------------------------
(* Properties. *)

\* Every variable of the proof store, its two files and the running advance
\* has the type the code gives it.
TypeOK ==
    /\ disk \in [Side -> Copy] /\ cache \in [Side -> Copy]
    /\ pend \in [Side -> SUBSET Copy]
    /\ pc \in {"down", "idle", "preserve", "presync", "write", "tsync", "dirsync"}
    /\ live \in BOOLEAN /\ pass \in {1, 2}
    /\ proof \in Record /\ cand \in Record
    /\ acked \in Nat /\ synced \in Nat

\* The pairs of copies a power loss at this moment may leave.
CrashPairs == {f \in [Side -> UNION {Images(s) : s \in Side}] :
                 \A s \in Side : f[s] \in Images(s)}

\* A pair that load accepts, that covers every acknowledged barrier and that
\* claims nothing beyond the data made durable.
Sound(img) ==
    /\ Loadable(img)
    /\ acked <= Newest(img).seq
    /\ Newest(img).seq <= synced

\* At every step of DurableProofStore::advance and AbStore::store, and after
\* any history of failed syncs, retries, kills and power losses, the pair a
\* further power loss leaves can be loaded and still holds the acknowledged
\* horizon, and never one whose journal data is not durable; and so can the
\* pair in the page cache, from which a retry or a restarted process goes on.
HorizonHeld == Sound(cache) /\ \A f \in CrashPairs : Sound(f)

\* advance reports success only when BOTH copies durably attest the horizon:
\* the loss of either file afterwards cannot move it back.
AckMirrored ==
    [][proof' # proof =>
         \A s \in Side : disk'[s].seq = acked' /\ pend'[s] = {}]_vars

\* The two files, stores and retries implement the single register of
\* HorizonRegister: what a load selects only drifts between the acknowledged
\* and the offered horizon.
Register == INSTANCE HorizonRegister WITH seen <- Newest(cache).seq

ImplementsRegister == Register!Spec
=============================================================================
