-------------------------- MODULE ComponentProofs ---------------------------
(***************************************************************************)
(* Proofs about three components that share no state: DurableProof, *)
(* CircuitBreaker and Attach. *)
(* *)
(* DurableProof, for every number of generations and horizons: its types, *)
(* that no crash loses or invents a horizon, that a reported success is *)
(* mirrored, and that it implements HorizonRegister.  The safety *)
(* properties are not inductive: a copy that is valid in the page cache *)
(* may not be on the disk.  The strengthening IInv names one copy, the *)
(* anchor, whose durable image is certain, and orders every other image *)
(* that may surface against it. *)
(* *)
(* CircuitBreaker, for any number of callers, any thresholds and any *)
(* schedule of verdicts.  The inductive invariant BreakerInv says what the *)
(* generation number is for: no permit is of a later generation than the *)
(* circuit, and while the circuit is half-open the callers with a permit *)
(* of its generation are the probes admitted in this window, each holding *)
(* one counted slot. *)
(* *)
(* Attach, for any attachments, devices, sizes and number of crashes: that *)
(* no connection is left without a record, that a verb succeeds only when *)
(* what it promises holds, and that it takes apart only what is its own, *)
(* up to what a command makes that goes on when its helper was killed or *)
(* has given it up (k.late, k.loose). *)
(* The inductive invariant AInv follows the program of calls of each verb: *)
(* which calls are left, what the record must name by then, what the *)
(* helper saw and is still so unless an outsider has made it stale, and *)
(* that a proof in a record or in the helper's hands was taken of the *)
(* connection that the record is about. *)
(***************************************************************************)
EXTENDS DurableProof, CircuitBreaker, Attach, FiniteSetTheorems,
        SequenceTheorems, WellFoundedInduction, TLAPS


\* The durable image of side s is certain, valid and what a read returns.
Solid(s) == Valid(disk[s]) /\ cache[s] = disk[s] /\ pend[s] \subseteq {disk[s]}

\* Every image of side s that a load may meet now or after a power loss.
Surfacing(s) == Images(s) \cup {cache[s]}

Ordered(c, d) == \/ c.gen > d.gen /\ c.seq >= d.seq
                 \/ c.gen < d.gen /\ c.seq <= d.seq

\* Side s carries the acknowledged horizon, whatever becomes of the other.
Anchored(s) ==
    /\ Solid(s) /\ disk[s].seq >= acked
    /\ \A c \in Surfacing(Other(s)) : Valid(c) => Ordered(c, disk[s])

\* Nothing that may surface claims data that is not durable.
Bounded == \A s \in Side : \A c \in Surfacing(s) : c.seq <= synced

\* The preserve step has made the copy dirty again: the sync that follows
\* cannot be the empty success after a lost writeback.
Redirtied == pc = "presync" => cache[Other(Target(cache))] \in pend[Other(Target(cache))]

\* The preserve step has settled the side the store does not overwrite.
Preserved == pc = "write" => /\ Anchored(Other(Target(cache)))
                             /\ pend[Other(Target(cache))] = {}

\* The replacement is in place over the settled side's partner.
Replaced(s) ==
    /\ Anchored(s) /\ pend[s] = {}
    /\ cache[Other(s)] = cand /\ cand.gen > cache[s].gen
    /\ pass = 2 => cache[s].seq = cand.seq
    /\ pc = "tsync" => cand \in pend[Other(s)]
    /\ pc = "dirsync" => disk[Other(s)] = cand /\ pend[Other(s)] = {}

\* The second store starts from the durable result of the first.
FirstStored(s) == cache[s] = cand /\ Solid(s) /\ cand.gen > cache[Other(s)].gen

IInv ==
    /\ TypeOK
    /\ Bounded
    /\ \E s \in Side : Anchored(s)
    /\ Working => cand.seq = synced
    /\ Redirtied
    /\ Preserved
    /\ pc \in {"tsync", "dirsync"} => \E s \in Side : Replaced(s)
    /\ (pass = 2 /\ pc \in {"preserve", "presync", "write"}) =>
          \E s \in Side : FirstStored(s)

-----------------------------------------------------------------------------
(* Sides, copies and the choice of the target. *)

\* There are exactly two sides, each the other of its other.
LEMMA SideFacts ==
    /\ \A s \in Side : Other(s) \in Side /\ Other(s) # s /\ Other(Other(s)) = s
    /\ \A s, r \in Side : r = s \/ r = Other(s)
BY DEF Side, Other

\* An invalid copy ranks below every valid one.
LEMMA CopyFacts ==
    /\ Torn \in Copy /\ ~Valid(Torn) /\ Torn.gen = -1 /\ Torn.seq = -1
    /\ \A c \in Copy : /\ c.gen \in Int /\ c.seq \in Int
                       /\ Valid(c) => c \in Record /\ c.gen >= 0 /\ c.seq >= 0
                       /\ ~Valid(c) => c = Torn
BY BoundsAssumption DEF Copy, Record, Torn, Valid

\* AbStore::target_for never selects the only valid copy, nor the newer one.
LEMMA TargetFacts ==
    ASSUME NEW img \in [Side -> Copy], NEW s \in Side, Valid(img[s])
    PROVE  /\ Target(img) \in Side
           /\ Valid(img[Other(Target(img))])
           /\ img[Target(img)].gen <= img[Other(Target(img))].gen
  BY CopyFacts DEF Side, Target, Other

-----------------------------------------------------------------------------
(* What the file operations can bring to the surface. *)

\* A write to a copy may surface the old image, the new one or a torn one.
LEMMA WriteSurfaces ==
    ASSUME TypeOK, NEW s \in Side, NEW c \in Copy, WriteTo(s, c)
    PROVE  /\ Surfacing(s)' \subseteq Surfacing(s) \cup {c, Torn}
           /\ Surfacing(Other(s))' = Surfacing(Other(s))
           /\ cache' = [cache EXCEPT ![s] = c] /\ disk' = disk
           /\ pend'[s] = pend[s] \cup {c} /\ pend'[Other(s)] = pend[Other(s)]
BY SideFacts DEF TypeOK, WriteTo, Surfacing, Images

\* A sync of a copy, failed or not, leaves only images that could surface before.
LEMMA SyncSurfaces ==
    ASSUME TypeOK, NEW s \in Side, SyncOk(s) \/ SyncFails(s)
    PROVE  /\ Surfacing(s)' \subseteq Surfacing(s)
           /\ Surfacing(Other(s))' = Surfacing(Other(s))
           /\ disk'[s] \in Images(s) \cup {cache[s]} /\ disk'[Other(s)] = disk[Other(s)]
           /\ cache' = cache
           /\ pend'[s] = {} /\ pend'[Other(s)] = pend[Other(s)]
BY SideFacts DEF TypeOK, SyncOk, SyncFails, Surfacing, Images

\* A power loss picks, for each copy, an image that could surface.
LEMMA CrashSurfaces ==
    ASSUME TypeOK, Crash
    PROVE  \A s \in Side : /\ Surfacing(s)' \subseteq Surfacing(s)
                           /\ disk'[s] \in Images(s) /\ cache'[s] = disk'[s]
                           /\ pend'[s] = {}
BY SideFacts DEF TypeOK, Crash, Surfacing, Images

\* Every image that may surface is a copy, and a solid side has only one.
LEMMA SurfacingFacts ==
    ASSUME TypeOK, NEW s \in Side
    PROVE  /\ Surfacing(s) \subseteq Copy /\ Images(s) \subseteq Surfacing(s)
           /\ disk[s] \in Images(s) /\ cache[s] \in Surfacing(s)
           /\ Solid(s) => Surfacing(s) = {disk[s]} /\ Images(s) = {disk[s]}
BY CopyFacts DEF TypeOK, Surfacing, Images, Solid

-----------------------------------------------------------------------------
(* An anchor makes every pair that may surface sound. *)

\* While one side is anchored, each pair that may surface loads to a horizon
\* between the acknowledged and the offered one.
LEMMA AnchorSound ==
    ASSUME TypeOK, Bounded, NEW s \in Side, Anchored(s),
           NEW f \in [Side -> Copy], f[s] = disk[s], f[Other(s)] \in Surfacing(Other(s))
    PROVE  Sound(f)
  BY SideFacts, SurfacingFacts, CopyFacts DEF Anchored, Solid, Bounded, TypeOK, Newest, Other, Ordered,
     Side, Loadable, Follows, Sound

\* IInv implies the safety invariant.
LEMMA InvariantSafe == IInv => HorizonHeld
<1> SUFFICES ASSUME IInv PROVE HorizonHeld
  OBVIOUS
<1>1. TypeOK /\ Bounded
  BY DEF IInv
<1>2. PICK s \in Side : Anchored(s)
  BY DEF IInv
<1>3. \A r \in Side : Surfacing(r) \subseteq Copy /\ Images(r) \subseteq Surfacing(r)
  BY <1>1, SurfacingFacts
<1>4. ASSUME NEW f \in CrashPairs PROVE Sound(f)
  BY <1>3, <1>4, SideFacts, <1>1, <1>2, SurfacingFacts, AnchorSound DEF CrashPairs, Anchored
<1>5. Sound(cache)
  BY <1>1, <1>2, SideFacts, SurfacingFacts, AnchorSound DEF Anchored, Solid, TypeOK
<1> QED BY <1>4, <1>5 DEF HorizonHeld

-----------------------------------------------------------------------------
(* Types. *)

\* Every step of a publication, failure, kill and power loss keeps the types.
LEMMA TypeInductive == TypeOK /\ [Next]_vars => TypeOK'
<1> SUFFICES ASSUME TypeOK, [Next]_vars PROVE TypeOK'
  OBVIOUS
<1> USE DEF TypeOK
<1>1. ASSUME NEW hz \in 0..MaxHorizon, BeginBarrier(hz) PROVE TypeOK'
  BY <1>1, BoundsAssumption DEF BeginBarrier, files, Record
<1>2. ASSUME NEW hz \in 0..MaxHorizon, BeginRecovery(hz) PROVE TypeOK'
  <2>1. Newest(cache) \in Record
    BY <1>2, CopyFacts DEF Side, BeginRecovery, Loadable, Newest, Other
  <2>2. hz \in Nat /\ [gen |-> Newest(cache).gen, seq |-> hz] \in Record
    BY <2>1, BoundsAssumption DEF Record
  <2>3. cand' \in Record
    BY <1>2, <2>2 DEF BeginRecovery
  <2> QED BY <1>2, <2>2, <2>3 DEF BeginRecovery, files
<1>3. CASE Preserve
  BY SideFacts, <1>3 DEF Target, Side, Preserve, WriteTo
<1>4. CASE PreserveSync
  BY <1>4, SideFacts, CopyFacts DEF Target, Side, PreserveSync, SyncOk, SyncFails, Images, Fail
<1>5. CASE WriteTarget
  BY CopyFacts, <1>5, BoundsAssumption DEF Target, Side, Record, WriteTarget, NextGen, WriteTo, Fail, Copy
<1>6. CASE TargetSync
  <2> QED BY <1>6, CopyFacts DEF TargetSync, SyncOk, SyncFails, Images, Fail
<1>7. CASE FinishStore
  BY <1>7 DEF FinishStore, Fail, files, Record
<1>8. CASE Abort
  BY <1>8 DEF Abort, Fail, files
<1>9. CASE Crash
  BY <1>9, CopyFacts DEF Crash, Images
<1>10. CASE Restart
  BY <1>10 DEF Restart, files
<1>11. CASE UNCHANGED vars
  BY <1>11 DEF vars
<1> QED BY <1>1, <1>2, <1>3, <1>4, <1>5, <1>6, <1>7, <1>8, <1>9, <1>10, <1>11 DEF Next

\* The pair that DurableProofStore::initialize leaves is well typed.
LEMMA TypeInitial == Init => TypeOK
<1> SUFFICES ASSUME Init PROVE TypeOK
  OBVIOUS
<1>1. [gen |-> 1, seq |-> 0] \in Record /\ [gen |-> 2, seq |-> 0] \in Record
  BY BoundsAssumption DEF Record
<1>2. disk \in [Side -> Copy] /\ cache \in [Side -> Copy]
  BY <1>1 DEF Init, Copy
<1>3. pend \in [Side -> SUBSET Copy]
  BY DEF Init
<1> QED BY <1>1, <1>2, <1>3 DEF Init, TypeOK

\* Every generation stays representable and every variable well-typed in
\* every history of publications, failures, kills and power losses.
THEOREM TypeCorrect == Spec => []TypeOK
BY TypeInitial, TypeInductive, PTL DEF Spec

-----------------------------------------------------------------------------
(* The anchor survives every step. *)

\* A side keeps its anchor while its own image and its partner's stay put.
LEMMA AnchorKept ==
    ASSUME NEW s \in Side, Anchored(s), Solid(s)', disk'[s] = disk[s], acked' = acked,
           Surfacing(Other(s))' \subseteq Surfacing(Other(s)) \cup {Torn}
    PROVE  Anchored(s)'
BY CopyFacts DEF Anchored

\* Nothing new surfaces above the synced horizon.
LEMMA BoundedKept ==
    ASSUME TypeOK, Bounded, synced' >= synced, synced' \in Nat,
           \A s \in Side : Surfacing(s)' \subseteq Surfacing(s) \cup {Torn}
    PROVE  Bounded'
<1> SUFFICES ASSUME NEW s \in Side, NEW c \in Surfacing(s)' PROVE c.seq <= synced'
  BY DEF Bounded
<1>1. c \in Surfacing(s) \/ c = Torn
  OBVIOUS
<1>2. c \in Copy /\ synced \in Nat
  BY <1>1, SurfacingFacts, CopyFacts DEF TypeOK
<1> QED BY <1>1, <1>2, CopyFacts DEF Bounded, TypeOK

\* A step that leaves the files and the acknowledged horizon alone.
LEMMA FilesKept ==
    ASSUME IInv, UNCHANGED files, acked' = acked, synced' >= synced, synced' \in Nat
    PROVE  /\ Bounded'
           /\ \A s \in Side : /\ Surfacing(s)' = Surfacing(s)
                              /\ Solid(s)' = Solid(s)
                              /\ Anchored(s)' = Anchored(s)
           /\ \E s \in Side : Anchored(s)'
  BY SideFacts, BoundedKept DEF files, Surfacing, Images, Solid, Anchored, IInv

\* Every step keeps one side anchored: one step per action, and under it one
\* per part of IInv that the action can disturb.
LEMMA InvariantInductive == IInv /\ [Next]_vars => IInv'
<1> SUFFICES ASSUME IInv, [Next]_vars PROVE IInv'
  OBVIOUS
<1>0. TypeOK /\ TypeOK'
  BY TypeInductive DEF IInv
<1>1. ASSUME NEW hz \in 0..MaxHorizon, BeginBarrier(hz) PROVE IInv'
  BY <1>0, <1>1, FilesKept DEF BeginBarrier, TypeOK, IInv, Redirtied, Preserved, Working
<1>2. ASSUME NEW hz \in 0..MaxHorizon, BeginRecovery(hz) PROVE IInv'
  BY <1>0, <1>2, FilesKept DEF BeginRecovery, TypeOK, IInv, Redirtied, Preserved, Working
<1>8. CASE Abort
  BY <1>0, <1>8, FilesKept DEF Abort, Fail, TypeOK, IInv, Redirtied, Preserved, Working
<1>10. CASE Restart
  BY <1>0, <1>10, FilesKept DEF Restart, TypeOK, IInv, Redirtied, Preserved, Working
<1>9. CASE Crash
  <2>1. PICK s \in Side : Anchored(s)
    BY DEF IInv
  <2>2. disk'[s] = disk[s] /\ Solid(s)'
    BY <1>0, <1>9, <2>1, CrashSurfaces, SurfacingFacts DEF Anchored, Solid
  <2>3. /\ \A r \in Side : Surfacing(r)' \subseteq Surfacing(r) \cup {Torn}
        /\ acked' = acked /\ synced' = synced /\ synced' >= synced /\ synced' \in Nat
    <3>1. acked' = acked /\ synced' = synced /\ synced' >= synced /\ synced' \in Nat
      BY <1>0, <1>9 DEF Crash, TypeOK
    <3> QED BY <1>0, <1>9, <3>1, CrashSurfaces
  <2>4. Anchored(s)'
    BY <2>1, <2>2, <2>3, AnchorKept, SideFacts
  <2>5. Bounded'
    BY <1>0, <2>3, BoundedKept DEF IInv
  <2> QED BY <1>0, <1>9, <2>4, <2>5 DEF IInv, Crash, Redirtied, Preserved, Working
<1>11. CASE UNCHANGED vars
  BY <1>0, <1>11, FilesKept, SideFacts DEF vars, files, TypeOK, IInv, Redirtied, Preserved, Working,
     Replaced, FirstStored, Target, Side
<1>3. CASE Preserve
  <2>1. PICK s \in Side : Anchored(s)
    BY DEF IInv
  <2>p. PICK p \in Side : p = Other(Target(cache))
    BY <1>0, <2>1, TargetFacts, SideFacts DEF Anchored, Solid, TypeOK
  <2>2. p \in Side /\ cache[p] \in Copy /\ Target(cache) \in Side
    BY <1>0, <2>1, <2>p, TargetFacts, SideFacts DEF Anchored, Solid, TypeOK
  <2>3. /\ WriteTo(p, cache[p]) /\ pc' = "presync" /\ pass' = pass
        /\ acked' = acked /\ synced' = synced /\ cand' = cand /\ pc = "preserve"
    BY <1>3, <2>p DEF Preserve
  <2>4. /\ \A r \in Side : Surfacing(r)' \subseteq Surfacing(r) \cup {Torn}
        /\ cache' = cache /\ disk' = disk /\ cache[p] \in pend'[p]
        /\ \A r \in Side : pend'[r] \subseteq pend[r] \cup {cache[r]}
    BY <1>0, <2>2, <2>3, WriteSurfaces, SurfacingFacts, SideFacts DEF TypeOK
  <2>5. \A r \in Side : Solid(r) => Solid(r)'
    BY <2>4 DEF Solid
  <2>6. Anchored(s)'
    BY <2>1, <2>3, <2>4, <2>5, AnchorKept, SideFacts DEF Anchored
  <2>7. Bounded'
    BY <1>0, <2>3, <2>4, BoundedKept DEF IInv, TypeOK
  <2>8. Redirtied'
    BY <2>4, <2>p DEF Redirtied
  <2>9. pass' = 2 => \E r \in Side : FirstStored(r)'
    BY <2>3, <2>4, <2>5 DEF IInv, FirstStored
  <2> QED BY <1>0, <2>3, <2>6, <2>7, <2>8, <2>9 DEF IInv, Preserved, Working
<1>4. CASE PreserveSync
  <2>1. PICK s \in Side : Anchored(s)
    BY DEF IInv
  <2>p. PICK p \in Side : p = Other(Target(cache))
    BY <1>0, <2>1, TargetFacts, SideFacts DEF Anchored, Solid, TypeOK
  <2>2. /\ p \in Side /\ cache[p] \in Copy /\ Target(cache) \in Side
        /\ Other(p) = Target(cache) /\ Valid(cache[p]) /\ cache[Other(p)].gen <= cache[p].gen
    BY <1>0, <2>1, <2>p, TargetFacts, SideFacts DEF Anchored, Solid, TypeOK
  <2>3. /\ SyncOk(p) \/ SyncFails(p)
        /\ (SyncOk(p) /\ pc' = "write") \/ pc' \in {"idle", "down"}
        /\ pass' = pass /\ acked' = acked /\ synced' = synced /\ cand' = cand
        /\ pc = "presync" /\ synced' \in Nat /\ synced' >= synced
    BY <1>0, <1>4, <2>p DEF PreserveSync, Fail, TypeOK
  <2>4. cache[p] \in pend[p]
    BY <2>3, <2>p DEF IInv, Redirtied
  <2>5. /\ \A r \in Side : Surfacing(r)' \subseteq Surfacing(r) \cup {Torn}
        /\ cache' = cache /\ pend'[p] = {}
        /\ disk'[p] \in Surfacing(p)
        /\ disk'[Other(p)] = disk[Other(p)] /\ pend'[Other(p)] = pend[Other(p)]
    BY <1>0, <2>2, <2>3, SyncSurfaces, SurfacingFacts, SideFacts
  <2>6. \A r \in Side : Solid(r) => Solid(r)' /\ disk'[r] = disk[r]
    BY <1>0, <2>2, <2>5, SurfacingFacts, SideFacts DEF Solid
  <2>7. Anchored(s)'
    BY <2>1, <2>3, <2>5, <2>6, AnchorKept, SideFacts DEF Anchored
  <2>8. Bounded'
    BY <1>0, <2>3, <2>5, BoundedKept DEF IInv
  <2>9. ASSUME pc' = "write" PROVE Anchored(p)'
    BY <1>0, <2>2, <2>3, <2>4, <2>9, <2>5, <2>1, <2>7, SurfacingFacts, SideFacts, CopyFacts DEF SyncOk,
       TypeOK, Solid, Anchored, Surfacing, Images, Ordered
  <2>10. Preserved'
    BY <2>5, <2>9, <2>p DEF Preserved
  <2>11. (pass' = 2 /\ pc' = "write") => \E r \in Side : FirstStored(r)'
    BY <2>3, <2>5, <2>6 DEF IInv, FirstStored
  <2> QED BY <1>0, <2>3, <2>7, <2>8, <2>10, <2>11 DEF IInv, Redirtied, Preserved, Working
<1>5. CASE WriteTarget
  <2>1. PICK s \in Side : Anchored(s)
    BY DEF IInv
  <2>p. PICK p \in Side : p = Other(Target(cache))
    BY <1>0, <2>1, TargetFacts, SideFacts DEF Anchored, Solid, TypeOK
  <2>2. PICK t \in Side : t = Target(cache) /\ t = Other(p) /\ p = Other(t)
    BY <2>p, SideFacts, <1>0, <2>1, TargetFacts DEF Anchored, Solid, TypeOK
  <2>3. /\ Anchored(p) /\ pend[p] = {} /\ cand.seq = synced /\ pc = "write"
        /\ cache[t].gen <= cache[p].gen
    BY <1>0, <1>5, <2>1, <2>p, <2>2, TargetFacts
       DEF WriteTarget, IInv, Preserved, Working, Anchored, Solid, TypeOK
  <2>4. PICK new \in Record : new = [gen |-> NextGen(cache, cand), seq |-> cand.seq]
    BY <1>0, CopyFacts, <1>5, BoundsAssumption DEF Side, Record, TypeOK, WriteTarget, NextGen
  <2>5. new.seq = synced /\ new.gen > cache[p].gen
    BY <1>0, CopyFacts, <2>3, <2>4 DEF Side, Record, TypeOK, NextGen
  <2>6. PICK c \in Copy :
          /\ WriteTo(t, c)
          /\ \/ c = new /\ pc' = "tsync" /\ cand' = new
             \/ c = Torn /\ pc' \in {"idle", "down"} /\ cand' = cand
          /\ pass' = pass /\ acked' = acked /\ synced' = synced
    BY <1>5, <2>2, <2>4, CopyFacts DEF WriteTarget, Fail, Copy
  <2>7. /\ Surfacing(t)' \subseteq Surfacing(t) \cup {c, Torn}
        /\ Surfacing(p)' = Surfacing(p)
        /\ cache'[t] = c /\ cache'[p] = cache[p] /\ disk' = disk
        /\ c \in pend'[t] /\ pend'[p] = pend[p]
    BY <1>0, <2>2, <2>6, WriteSurfaces, SideFacts DEF TypeOK
  <2>8. synced \in Nat /\ acked \in Nat /\ disk[p] \in Copy /\ disk[p] = cache[p] /\ disk[p].seq <= synced
    BY <1>0, <2>3, SurfacingFacts DEF TypeOK, IInv, Bounded, Anchored, Solid
  <2>9. Anchored(p)'
    BY <2>3, <2>7, <2>4, <2>5, <2>6, <2>8, CopyFacts, <2>2 DEF Anchored, Solid, Ordered, Record
  <2>10. Bounded'
    BY <2>2, <2>4, <2>5, <2>6, <2>8, CopyFacts, <2>7, SideFacts DEF IInv, Bounded
  <2>11. pass = 2 => cache[p].seq = cand.seq
    <3> SUFFICES ASSUME pass = 2 PROVE cache[p].seq = cand.seq
      OBVIOUS
    <3>1. PICK r \in Side : FirstStored(r)
      BY <2>3 DEF IInv
    <3>2. r # t
      BY <1>0, <2>2, <2>3, <3>1, CopyFacts, SideFacts DEF FirstStored, TypeOK
    <3> QED BY <2>2, <3>1, <3>2, SideFacts DEF FirstStored
  <2>12. pc' = "tsync" => Replaced(p)'
    BY <2>2, <2>3, <2>4, <2>5, <2>6, <2>7, <2>9, <2>11 DEF Replaced, TypeOK
  <2> QED BY <1>0, <2>3, <2>4, <2>6, <2>9, <2>10, <2>12
          DEF IInv, Redirtied, Preserved, Working
<1>6. CASE TargetSync
  <2>1. PICK p \in Side : Replaced(p) /\ pc = "tsync"
    BY <1>6 DEF IInv, TargetSync
  <2>2. PICK t \in Side : t = Other(p) /\ p = Other(t)
    BY SideFacts
  <2>3. Written = t
    BY <1>0, <2>1, <2>2, CopyFacts, SideFacts DEF Replaced, TypeOK, Copy, Written
  <2>4. /\ (SyncOk(t) /\ pc' = "dirsync") \/ (SyncFails(t) /\ pc' \in {"idle", "down"})
        /\ pass' = pass /\ acked' = acked /\ synced' = synced /\ cand' = cand
        /\ synced' \in Nat /\ synced' >= synced
    BY <1>0, <1>6, <2>3 DEF TargetSync, Fail, TypeOK
  <2>5. /\ \A r \in Side : Surfacing(r)' \subseteq Surfacing(r) \cup {Torn}
        /\ cache' = cache /\ pend'[t] = {}
        /\ disk'[p] = disk[p] /\ pend'[p] = pend[p]
    BY <1>0, <2>2, <2>4, SyncSurfaces, SideFacts
  <2>6. Anchored(p)'
    BY <2>1, <2>4, <2>5, AnchorKept, SideFacts DEF Replaced, Anchored, Solid
  <2>7. Bounded'
    BY <1>0, <2>4, <2>5, BoundedKept DEF IInv
  <2>8. pc' = "dirsync" => disk'[t] = cand
    BY <1>0, <2>1, <2>2, <2>4 DEF SyncOk, Replaced, TypeOK
  <2>9. pc' = "dirsync" => Replaced(p)'
    BY <2>1, <2>2, <2>4, <2>5, <2>6, <2>8 DEF Replaced
  <2> QED BY <1>0, <2>1, <2>4, <2>6, <2>7, <2>9 DEF IInv, Redirtied, Preserved, Working
<1>7. CASE FinishStore
  <2>1. PICK p \in Side : Replaced(p) /\ pc = "dirsync"
    BY <1>7 DEF IInv, FinishStore
  <2>2. PICK t \in Side : t = Other(p) /\ p = Other(t)
    BY SideFacts
  <2>3. /\ cache[t] = cand /\ disk[t] = cand /\ pend[t] = {} /\ cand.gen > cache[p].gen
        /\ Solid(t) /\ Solid(p) /\ cand \in Record /\ cand.seq = synced
    BY <1>0, <2>1, <2>2, CopyFacts
       DEF Replaced, Anchored, Solid, TypeOK, IInv, Working, Copy, Valid, Torn, Record
  <2>4. CASE pass = 1
    BY <1>0, <1>7, <2>4, FilesKept, <2>2, <2>3, <2>1 DEF FinishStore, Fail, TypeOK, FirstStored, files,
       IInv, Redirtied, Preserved, Working
  <2>5. CASE pass = 2
    <3>1. /\ UNCHANGED files /\ acked' = cand.seq /\ synced' = synced /\ pc' = "idle"
      BY <1>7, <2>5 DEF FinishStore
    <3>2. \A s \in Side : Surfacing(s)' = Surfacing(s) /\ Solid(s)' = Solid(s)
      BY <3>1 DEF files, Surfacing, Images, Solid
    <3>3. Ordered(disk[p], cand)
      BY <1>0, <2>3, SurfacingFacts, CopyFacts DEF Solid, TypeOK, IInv, Bounded, Ordered, Record
    <3>4. Surfacing(p) = {disk[p]}
      BY <1>0, <2>3, SurfacingFacts
    <3>5. Anchored(t)'
      BY <2>2, <2>3, <3>1, <3>2, <3>3, <3>4 DEF Anchored, files, Record
    <3>6. Bounded'
      BY <3>1, <3>2 DEF IInv, Bounded
    <3> QED BY <1>0, <3>1, <3>5, <3>6 DEF IInv, Redirtied, Preserved, Working
  <2> QED BY <1>0, <2>4, <2>5 DEF TypeOK
<1> QED BY <1>1, <1>2, <1>3, <1>4, <1>5, <1>6, <1>7, <1>8, <1>9, <1>10, <1>11 DEF Next

\* The initialized pair is anchored on both sides.
LEMMA InvariantInitial == Init => IInv
<1> SUFFICES ASSUME Init PROVE IInv
  OBVIOUS
<1>1. TypeOK
  BY TypeInitial
<1>2. /\ disk["a"] = [gen |-> 1, seq |-> 0] /\ disk["b"] = [gen |-> 2, seq |-> 0]
      /\ cache = disk /\ pend["a"] = {} /\ pend["b"] = {} /\ acked = 0 /\ synced = 0
      /\ "a" \in Side /\ "b" \in Side /\ Other("a") = "b" /\ pc = "down"
  BY DEF Init, Side, Other
<1>3. Solid("a") /\ Solid("b")
  BY <1>2 DEF Solid, Valid, Torn
<1>4. Surfacing("a") = {disk["a"]} /\ Surfacing("b") = {disk["b"]}
  BY <1>1, <1>2, <1>3, SurfacingFacts
<1>5. Anchored("a")
  BY <1>2, <1>3, <1>4 DEF Anchored, Ordered
<1>6. Bounded
  BY <1>2, <1>4 DEF Bounded, Side
<1> QED BY <1>1, <1>2, <1>5, <1>6 DEF IInv, Redirtied, Preserved, Working

\* The inductive invariant holds in every reachable state.
LEMMA InvariantAlways == Spec => []IInv
BY InvariantInitial, InvariantInductive, PTL DEF Spec

-----------------------------------------------------------------------------
(* The theorems. *)

\* No power loss, at any step of any publication or retry, leaves a pair of
\* durable-proof files that cannot be loaded, that forgets an acknowledged
\* horizon, or that claims journal data which is not durable; a restarted
\* process always finds a pair it can load and advance from.
THEOREM HorizonNeverLost == Spec => []HorizonHeld
BY InvariantAlways, InvariantSafe, PTL

\* Success of DurableProofStore::advance means both files durably attest it.
THEOREM SuccessIsMirrored == Spec => AckMirrored
<1>1. IInv /\ [Next]_vars =>
        [proof' # proof => \A s \in Side : disk'[s].seq = acked' /\ pend'[s] = {}]_vars
  <2> SUFFICES ASSUME IInv, Next, proof' # proof
               PROVE  \A s \in Side : disk'[s].seq = acked' /\ pend'[s] = {}
    BY DEF vars
  <2>1. FinishStore /\ pass = 2
    BY DEF Next, BeginBarrier, BeginRecovery, Preserve, PreserveSync, WriteTarget,
           TargetSync, FinishStore, Abort, Crash, Restart
  <2>2. UNCHANGED files /\ acked' = cand.seq /\ pc = "dirsync"
    BY <2>1 DEF FinishStore
  <2>3. PICK p \in Side : Replaced(p)
    BY <2>2 DEF IInv
  <2>4. /\ disk[p].seq = cand.seq /\ pend[p] = {}
        /\ disk[Other(p)] = cand /\ pend[Other(p)] = {}
    BY <2>1, <2>2, <2>3 DEF Replaced, Anchored, Solid
  <2> QED BY <2>2, <2>4, SideFacts DEF files
<1> QED BY <1>1, InvariantAlways, PTL DEF Spec, AckMirrored

\* What a load selects lies between the acknowledged and the offered horizon.
LEMMA NewestBetween ==
    IInv => Newest(cache).seq \in acked..synced
<1> SUFFICES ASSUME IInv PROVE Newest(cache).seq \in acked..synced
  OBVIOUS
<1>1. Newest(cache) \in Copy /\ acked \in Nat /\ synced \in Nat
  BY DEF IInv, TypeOK, Newest, Side
<1> QED BY <1>1, InvariantSafe, CopyFacts DEF HorizonHeld, Sound

\* Two files, two stores per publication, retries, kills and power losses
\* together behave as the one register of HorizonRegister.
THEOREM RegisterImplemented == Spec => ImplementsRegister
<1>1. Init => Register!Init
  <2> SUFFICES ASSUME Init PROVE Newest(cache).seq = 0 /\ acked = 0 /\ synced = 0
    BY DEF Register!Init
  <2>1. cache["a"] = [gen |-> 1, seq |-> 0] /\ cache["b"] = [gen |-> 2, seq |-> 0]
    BY DEF Init, Side
  <2> QED BY <2>1 DEF Init, Newest
<1>2. IInv /\ IInv' /\ (Newest(cache).seq \in acked..synced)' /\ [Next]_vars
        => [Register!Next]_(Register!hvars)
  <2> SUFFICES ASSUME IInv, IInv', (Newest(cache).seq \in acked..synced)', [Next]_vars
               PROVE  [Register!Next]_(Register!hvars)
    OBVIOUS
  <2> USE DEF Register!hvars
  <2>0. /\ (Newest(cache).seq)' \in acked'..synced' /\ acked \in Nat /\ synced \in Nat
        /\ acked' \in Nat /\ synced' \in Nat
    BY DEF IInv, TypeOK
  <2>1. ASSUME NEW hz \in 0..MaxHorizon, BeginBarrier(hz) \/ BeginRecovery(hz)
        PROVE  Register!Offer
    BY <2>1, <2>0 DEF BeginBarrier, BeginRecovery, files, Register!Offer, Newest
  <2>2. CASE Preserve \/ PreserveSync \/ WriteTarget \/ TargetSync \/ Crash
    BY <2>2, <2>0 DEF Preserve, PreserveSync, WriteTarget, TargetSync, Crash, Register!Drift, Register!Next
  <2>3. CASE FinishStore
    BY <2>3, CopyFacts DEF FinishStore, files, Newest, IInv, Working, Replaced, TypeOK, Copy, Valid, Torn,
       Record, Other, Side, Register!Acknowledge, Register!Next
  <2>4. CASE Abort \/ Restart \/ UNCHANGED vars
    BY <2>4 DEF Abort, Restart, vars, files, Newest
  <2> QED BY <2>1, <2>2, <2>3, <2>4 DEF Next, Register!Next
<1> QED BY <1>1, <1>2, InvariantAlways, NewestBetween, PTL DEF Spec, ImplementsRegister, Register!Spec

-----------------------------------------------------------------------------
(* The circuit breaker. *)


\* No permit is newer than the circuit.
PermitsPast == \A c \in Caller : permit[c] <= generation

\* The half-open window: its probes, its slots and its successes.
Window ==
    circuit = "half" =>
        /\ mine = Probes
        /\ inflight = Cardinality(Probes)
        /\ inflight <= HalfOpenMax
        /\ earned = successes
        /\ successes < SuccessThreshold

BreakerInv == BreakerTypeOK /\ PermitsPast /\ Window

\* The caller's slot is the one of Cardinality(Probes) that a verdict frees.
LEMMA ProbesFinite ==
    ASSUME BreakerTypeOK
    PROVE  /\ IsFiniteSet(Probes)
           /\ Cardinality(Probes) \in Nat
           /\ \A c \in Probes : /\ Cardinality(Probes \ {c}) = Cardinality(Probes) - 1
                                /\ Cardinality(Probes) > 0
           /\ \A c \in Caller \ Probes : Cardinality(Probes \cup {c}) = Cardinality(Probes) + 1
<1>1. IsFiniteSet(Probes)
  BY FS_Subset, BreakerAssumption DEF Probes
<1>2. Cardinality(Probes) \in Nat
  BY <1>1, FS_CardinalityType
<1>3. ASSUME NEW c \in Probes
      PROVE  Cardinality(Probes \ {c}) = Cardinality(Probes) - 1 /\ Cardinality(Probes) > 0
  <2>1. Cardinality(Probes \ {c}) = Cardinality(Probes) - 1
    BY <1>1, FS_RemoveElement
  <2>2. IsFiniteSet(Probes \ {c}) /\ Cardinality(Probes \ {c}) \in Nat
    BY <1>1, FS_RemoveElement, FS_CardinalityType
  <2> QED
    BY <2>1, <2>2, <1>2
<1>4. ASSUME NEW c \in Caller \ Probes
      PROVE  Cardinality(Probes \cup {c}) = Cardinality(Probes) + 1
  BY <1>1, FS_AddElement
<1> QED
  BY <1>1, <1>2, <1>3, <1>4

\* A new breaker is closed, and nobody holds a permit of it.
LEMMA InitInv == BreakerInit => BreakerInv
<1> SUFFICES ASSUME BreakerInit PROVE BreakerInv
  OBVIOUS
<1> USE BreakerAssumption
<1>1. BreakerTypeOK
  <2>1. healthy \in BOOLEAN /\ mine \subseteq Caller
    BY DEF BreakerInit
  <2>2. permit \in [Caller -> Nat \cup {NoPermit}]
    BY DEF BreakerInit
  <2> QED
    BY <2>1, <2>2 DEF BreakerInit, BreakerTypeOK
<1>2. PermitsPast
  BY DEF BreakerInit, PermitsPast, NoPermit
<1>3. Window
  BY DEF BreakerInit, Window
<1> QED
  BY <1>1, <1>2, <1>3 DEF BreakerInv

\* admit while closed leaves the circuit as it is.
LEMMA AcquireClosedInv ==
    ASSUME BreakerInv, NEW c \in Caller, AcquireClosed(c)
    PROVE  BreakerInv'
  BY DEF BreakerInv, BreakerTypeOK, AcquireClosed, PermitsPast, Window

\* The first probe of a window is its only one: all other permits are older.
LEMMA AcquireOpenInv ==
    ASSUME BreakerInv, NEW c \in Caller, AcquireOpen(c)
    PROVE  BreakerInv'
<1>1. BreakerTypeOK'
  BY DEF BreakerInv, BreakerTypeOK, AcquireOpen
<1>2. PermitsPast'
  BY DEF BreakerInv, BreakerTypeOK, PermitsPast, AcquireOpen, NoPermit
<1>3. Probes' = {c}
  BY DEF BreakerInv, BreakerTypeOK, PermitsPast, AcquireOpen, Probes
<1>4. Cardinality({c}) = 1
  BY FS_Singleton
<1>5. Window'
  BY <1>3, <1>4, BreakerAssumption DEF AcquireOpen, Window
<1> QED
  BY <1>1, <1>2, <1>5 DEF BreakerInv

\* A further probe takes one free slot.
LEMMA AcquireHalfOpenInv ==
    ASSUME BreakerInv, NEW c \in Caller, AcquireHalfOpen(c)
    PROVE  BreakerInv'
  BY ProbesFinite, BreakerAssumption DEF BreakerInv, BreakerTypeOK, AcquireHalfOpen, PermitsPast, Probes,
     NoPermit, Window

\* What any end of an operation does to the probes of the window.
LEMMA ReleasedProbes ==
    ASSUME BreakerInv, NEW c \in Caller, permit[c] # NoPermit, Released(c), generation' = generation
    PROVE  /\ Probes' = Probes \ {c}
           /\ Current(c) <=> c \in Probes
           /\ ~ Current(c) => Probes' = Probes
  BY DEF BreakerInv, BreakerTypeOK, Released, Current, Probes, NoPermit

\* An end of an operation keeps every permit in the past.
LEMMA ReleasedPast ==
    ASSUME BreakerInv, NEW c \in Caller, Released(c),
           generation' = generation \/ generation' = generation + 1
    PROVE  /\ permit' \in [Caller -> Nat \cup {NoPermit}]
           /\ mine' \subseteq Caller
           /\ PermitsPast'
  BY DEF BreakerInv, BreakerTypeOK, PermitsPast, Released, NoPermit

\* A success frees its own slot; the last one needed closes the circuit.
LEMMA SuccessInv ==
    ASSUME BreakerInv, NEW c \in Caller, Success(c)
    PROVE  BreakerInv'
<1> USE BreakerAssumption
<1>1. Released(c) /\ permit[c] # NoPermit
  BY DEF Success
<1>2. generation' = generation \/ generation' = generation + 1
  BY DEF Success
<1>3. permit' \in [Caller -> Nat \cup {NoPermit}] /\ mine' \subseteq Caller /\ PermitsPast'
  BY <1>1, <1>2, ReleasedPast
<1>4. inflight' \in Nat /\ earned' \in Nat /\ successes' \in Nat
  BY DEF BreakerInv, BreakerTypeOK, Success, ProbeReturned, Least
<1>5. BreakerTypeOK'
  BY <1>3, <1>4 DEF BreakerInv, BreakerTypeOK, Success
<1>6. Window'
  <2> SUFFICES ASSUME circuit' = "half" PROVE Window'
    BY DEF Window
  <2>1. circuit = "half" /\ generation' = generation
    BY DEF Success
  <2>2. Window /\ mine = Probes /\ inflight = Cardinality(Probes) /\ earned = successes
    BY <2>1 DEF BreakerInv, Window
  <2>3. Probes' = Probes \ {c} /\ (Current(c) <=> c \in Probes) /\ (~ Current(c) => Probes' = Probes)
    BY <1>1, <2>1, ReleasedProbes
  <2>4. mine' = Probes'
    BY <1>1, <2>2, <2>3 DEF Released
  <2>5. CASE Current(c)
    BY <2>2, <2>3, <2>5, ProbesFinite, <2>1, <2>4 DEF BreakerInv, BreakerTypeOK, Success, ProbeReturned,
       Least, Window
  <2>6. CASE ~ Current(c)
    BY <2>1, <2>2, <2>3, <2>4, <2>6 DEF BreakerInv, BreakerTypeOK, Window, Success
  <2> QED
    BY <2>5, <2>6
<1> QED
  BY <1>3, <1>5, <1>6 DEF BreakerInv

\* A failure of a probe ends the window; any other leaves it alone.
LEMMA FailureInv ==
    ASSUME BreakerInv, NEW c \in Caller, NEW fatal \in BOOLEAN, Failure(c, fatal)
    PROVE  BreakerInv'
<1> USE BreakerAssumption
<1>1. Released(c) /\ permit[c] # NoPermit
  BY DEF Failure
<1>2. generation' = generation \/ generation' = generation + 1
  BY DEF Failure
<1>3. permit' \in [Caller -> Nat \cup {NoPermit}] /\ mine' \subseteq Caller /\ PermitsPast'
  BY <1>1, <1>2, ReleasedPast
<1>4. failures' \in Nat /\ inflight' \in Nat /\ duration' \in Nat /\ reported' \in 0..MaxFailures
  BY DEF BreakerInv, BreakerTypeOK, Failure, Least
<1>5. wait' \in Nat
  BY <1>4 DEF BreakerInv, BreakerTypeOK, Failure
<1>6. BreakerTypeOK'
  BY <1>3, <1>4, <1>5 DEF BreakerInv, BreakerTypeOK, Failure
<1>7. Window'
  <2> SUFFICES ASSUME circuit' = "half" PROVE Window'
    BY DEF Window
  <2>1. circuit = "half" /\ ~ Current(c) /\ generation' = generation
    BY DEF Failure
  <2>2. Probes' = Probes /\ c \notin Probes
    BY <1>1, <2>1, ReleasedProbes
  <2>3. mine' = mine \ {c} /\ mine = Probes
    BY <1>1, <2>1 DEF Released, BreakerInv, Window
  <2> QED
    BY <2>1, <2>2, <2>3 DEF BreakerInv, Window, Failure
<1> QED
  BY <1>3, <1>6, <1>7 DEF BreakerInv

\* A dropped operation frees its slot, if it holds one, and nothing else.
LEMMA DroppedInv ==
    ASSUME BreakerInv, NEW c \in Caller, Dropped(c)
    PROVE  BreakerInv'
<1>1. Released(c) /\ permit[c] # NoPermit /\ generation' = generation
  BY DEF Dropped
<1>2. permit' \in [Caller -> Nat \cup {NoPermit}] /\ mine' \subseteq Caller /\ PermitsPast'
  BY <1>1, ReleasedPast
<1>3. inflight' \in Nat
  BY DEF BreakerInv, BreakerTypeOK, Dropped, ProbeReturned
<1>4. BreakerTypeOK'
  BY <1>2, <1>3 DEF BreakerInv, BreakerTypeOK, Dropped
<1>5. Window'
  <2> SUFFICES ASSUME circuit' = "half" PROVE Window'
    BY DEF Window
  <2>1. circuit = "half"
    BY DEF Dropped
  <2>2. mine = Probes /\ inflight = Cardinality(Probes)
    BY <2>1 DEF BreakerInv, Window
  <2>3. Probes' = Probes \ {c} /\ (Current(c) <=> c \in Probes) /\ (~ Current(c) => Probes' = Probes)
    BY <1>1, ReleasedProbes
  <2>4. mine' = Probes'
    BY <1>1, <2>2, <2>3 DEF Released
  <2>5. inflight' = Cardinality(Probes') /\ inflight' <= inflight
    <3>1. CASE Current(c)
      BY <2>1, <2>2, <2>3, <3>1, ProbesFinite DEF BreakerInv, BreakerTypeOK, Dropped, ProbeReturned
    <3>2. CASE ~ Current(c)
      BY <2>2, <2>3, <3>2 DEF BreakerInv, BreakerTypeOK, Dropped
    <3> QED
      BY <3>1, <3>2
  <2> QED
    BY <1>3, <2>1, <2>4, <2>5, BreakerAssumption DEF BreakerInv, BreakerTypeOK, Window, Dropped
<1> QED
  BY <1>2, <1>4, <1>5 DEF BreakerInv

\* Time and the endpoint's repair touch nothing the window depends on.
LEMMA QuietInv ==
    ASSUME BreakerInv, Tick \/ Repaired \/ UNCHANGED breakerVars
    PROVE  BreakerInv'
<1>1. BreakerTypeOK'
  <2>1. healthy' \in BOOLEAN
    BY Zenon DEF BreakerInv, BreakerTypeOK, Tick, Repaired, breakerVars
  <2>2. wait' \in Nat
    BY DEF BreakerInv, BreakerTypeOK, Tick, Repaired, breakerVars
  <2> QED
    BY <2>1, <2>2 DEF BreakerInv, BreakerTypeOK, Tick, Repaired, breakerVars
<1>2. PermitsPast'
  BY DEF BreakerInv, PermitsPast, Tick, Repaired, breakerVars
<1>3. Probes' = Probes
  BY DEF Probes, Tick, Repaired, breakerVars
<1>4. Window'
  BY <1>3 DEF BreakerInv, Window, Tick, Repaired, breakerVars
<1> QED
  BY <1>1, <1>2, <1>4 DEF BreakerInv

\* Every step keeps the inductive invariant.
LEMMA NextInv == BreakerInv /\ [BreakerNext]_breakerVars => BreakerInv'
<1> SUFFICES ASSUME BreakerInv, [BreakerNext]_breakerVars PROVE BreakerInv'
  OBVIOUS
<1>1. ASSUME NEW c \in Caller, Acquire(c) PROVE BreakerInv'
  BY <1>1, AcquireClosedInv, AcquireOpenInv, AcquireHalfOpenInv DEF Acquire
<1>2. ASSUME NEW c \in Caller, Success(c) PROVE BreakerInv'
  BY <1>2, SuccessInv
<1>3. ASSUME NEW c \in Caller, Dropped(c) PROVE BreakerInv'
  BY <1>3, DroppedInv
<1>4. ASSUME NEW c \in Caller, NEW fatal \in BOOLEAN, Failure(c, fatal) PROVE BreakerInv'
  BY <1>4, FailureInv
<1>5. CASE Tick \/ Repaired \/ UNCHANGED breakerVars
  BY <1>5, QuietInv
<1> QED
  BY <1>1, <1>2, <1>3, <1>4, <1>5 DEF BreakerNext

\* The inductive invariant holds in every reachable state.
THEOREM Invariant == BreakerSpec => []BreakerInv
  BY InitInv, NextInv, PTL DEF BreakerSpec

\* Type correctness of the breaker: no counter of breaker.rs underflows.
THEOREM BreakerTypeCorrect == BreakerSpec => []BreakerTypeOK
<1>1. BreakerInv => BreakerTypeOK
  BY DEF BreakerInv
<1> QED
  BY <1>1, Invariant, PTL

\* The slots in use are exactly the live probes of the present window, and
\* never more than half_open_max_requests (finish and admit).
THEOREM SlotsAreProbes == BreakerSpec => []ProbesCounted
<1>1. BreakerInv => ProbesCounted
  BY DEF BreakerInv, Window, ProbesCounted
<1> QED
  BY <1>1, Invariant, PTL

\* A step that closes the half-open circuit is the success of a probe of this
\* window, with the successes of others that reach the threshold.
LEMMA ClosingStep ==
    BreakerInv /\ [BreakerNext]_breakerVars => (circuit = "half" /\ circuit' = "closed" => earned' >= SuccessThreshold)
<1> SUFFICES ASSUME BreakerInv, [BreakerNext]_breakerVars, circuit = "half", circuit' = "closed"
             PROVE  earned' >= SuccessThreshold
  OBVIOUS
<1>1. PICK c \in Caller : Success(c)
  BY DEF BreakerNext, breakerVars, Acquire, AcquireClosed, AcquireOpen, AcquireHalfOpen, Failure, Dropped, Tick, Repaired
<1>2. Current(c) /\ successes + 1 >= SuccessThreshold /\ permit[c] # NoPermit
  BY <1>1 DEF Success
<1>3. c \in mine /\ earned = successes
  BY <1>2 DEF BreakerInv, Window, Probes, Current
<1>4. earned' = Least(earned + 1, SuccessThreshold)
  BY <1>1, <1>3 DEF Success
<1> QED
  BY <1>2, <1>3, <1>4, BreakerAssumption DEF Least, BreakerInv, BreakerTypeOK

\* The circuit closes only on successes of probes admitted in this window.
THEOREM ClosingIsEarned == BreakerSpec => ClosedEarned
<1>1. BreakerInv /\ [BreakerNext]_breakerVars =>
        [circuit = "half" /\ circuit' = "closed" => earned' >= SuccessThreshold]_breakerVars
  BY ClosingStep
<1> QED
  BY <1>1, Invariant, PTL DEF BreakerSpec, ClosedEarned

\* A step that opens the half-open circuit is the failure of one of its probes.
LEMMA ReopeningStep ==
    BreakerInv /\ [BreakerNext]_breakerVars =>
        (circuit = "half" /\ circuit' = "open" => \E c \in mine : permit'[c] = NoPermit)
<1> SUFFICES ASSUME BreakerInv, [BreakerNext]_breakerVars, circuit = "half", circuit' = "open"
             PROVE  \E c \in mine : permit'[c] = NoPermit
  OBVIOUS
<1>1. PICK c \in Caller, fatal \in BOOLEAN : Failure(c, fatal)
  BY DEF BreakerNext, breakerVars, Acquire, AcquireClosed, AcquireOpen, AcquireHalfOpen, Success, Dropped, Tick, Repaired
<1>2. Current(c) /\ Released(c)
  BY <1>1 DEF Failure
<1>3. c \in mine
  BY <1>2 DEF BreakerInv, Window, Probes, Current
<1>4. permit'[c] = NoPermit
  BY <1>2 DEF Released, BreakerInv, BreakerTypeOK
<1> QED
  BY <1>3, <1>4

\* Only a probe of the present window opens the circuit again.
THEOREM ReopeningIsOwn == BreakerSpec => ReopenedByProbe
<1>1. BreakerInv /\ [BreakerNext]_breakerVars =>
        [circuit = "half" /\ circuit' = "open" => \E c \in mine : permit'[c] = NoPermit]_breakerVars
  BY ReopeningStep
<1> QED
  BY <1>1, Invariant, PTL DEF BreakerSpec, ReopenedByProbe

-----------------------------------------------------------------------------
\* Attach: the calls of the verbs and what may be left of them.
(* The calls that a verb may make. *)
Call ==
    {"absent", "allocate", "anyRecord", "backend", "before", "blkid", "bsize",
     "capture", "complete", "confirm", "connect", "decide", "device",
     "disconnect", "disconnected", "dmremove", "done", "extend", "force",
     "forced", "free", "gone", "growfs", "identity", "inactive", "intend",
     "intended", "live", "mapped", "mount", "needDeactivate", "needDisconnect",
     "needUmount", "nonce", "off", "preflight", "prior", "priorClear", "probe",
     "prove", "proved", "publish", "rbBackend", "rbIdentity", "rbObserve",
     "rbRetire", "recIntended", "record", "retire", "sentinel", "size",
     "state", "umount", "unmounted", "vgchange", "vgoff", "which",
     "writeSentinel"}

(* The calls that are left of s from the n-th on. *)
Drop(s, n) == SubSeq(s, n, Len(s))

(* What a step of a teardown may have put before the calls that were left. *)
IntentCalls == <<"nonce", "intended", "nonce", "off">>
ForceCalls == <<"nonce", "force", "nonce", "force", "dmremove", "nonce", "forced">>
UnplugCalls == <<"nonce", "disconnect">>
DecideCalls == <<"recIntended", "absent", "off">>
RbOffCalls == <<"nonce", "off">>

ConfirmCalls == <<"confirm", "absent", "retire", "done">>
RbUnplugCalls == <<"disconnect", "gone", "rbRetire">>

Part == {"none", "umount", "vgoff", "intent", "force", "unplug", "decide"}
PartCalls(t) ==
    CASE t = "none"   -> << >>
      [] t = "umount" -> <<"umount">>
      [] t = "vgoff"  -> <<"vgoff">>
      [] t = "intent" -> IntentCalls
      [] t = "force"  -> ForceCalls
      [] t = "unplug" -> UnplugCalls
      [] t = "decide" -> DecideCalls
Ahead(t, m) == Drop(PartCalls(t), m)

Helper == [todo : Seq(Call), vol : Vol, att : Att, rec : {NoRecord} \cup TrustedRecord,
           verb : Verb, conn : BOOLEAN, obs : {"mounted", "active", "used", "clear"},
           tried : BOOLEAN, made : BOOLEAN, back : BOOLEAN, whole : BOOLEAN,
           stale : SUBSET {"backend", "map", "mnt", "holder"}]

HelperTyped == h = Idle \/ h \in Helper

SameConnection(r, q) == r.nonce = q.nonce /\ r.dev = q.dev /\ r.att = q.att

(* Nothing of the attachment of record r is left in the kernel, but for *)
(* what a command that outlived its helper made. *)
OwnMap(r) == [dev |-> r.dev, own |-> TRUE]
Down(ker, r) == ~Connected(ker, r) \/ StrayConnect(ker, r.nonce)
Unmapped(ker, r) == ker.map[r.att] # OwnMap(r) \/ StrayMap(ker, r.att, r.dev)
Gone(ker, r) == Down(ker, r) /\ Unmapped(ker, r)

(* The connection has not been under a mapping that is not the helper's. *)
Clean(ker, r) == Down(ker, r) \/ ker.map[r.att] # [dev |-> r.dev, own |-> FALSE]
Shown(ker, r) == ker.mnt[r.att] = "lv" /\ Backed(ker, r) /\ ~StrayMount(ker, r.att)

(* No command that outlived its helper may make the connection. *)
Tight(ker, r) == ~StrayConnect(ker, r.nonce)

(* The record of the volume names the connection that the helper works on. *)
Named == rec[h.vol] # NoRecord /\ h.rec # NoRecord /\ SameConnection(rec[h.vol], h.rec)

(* A mapping that has a filesystem open stays. *)
OpenedActive == \A a \in Att : Opened(k, a) => k.map[a] # NoMap

(* A proof in a record is that of a mapping the helper verified. *)
OwnProof(r) == r # NoRecord /\ r.proof # NoMap => r.proof.own
RecordsOwn == \A v \in Vol : OwnProof(rec[v])

(* The helper may take down the mapping, the mount and the connection. *)
MapOurs == Active(k, h.rec) => Ours(h.rec.att) \/ "map" \in h.stale
MountOurs == (Mounted(k, h.rec) /\ Ours(h.rec.att)) \/ h.stale \cap {"map", "mnt"} # {}
MountThere == (Mounted(k, h.rec) /\ Backed(k, h.rec)) \/ h.stale \cap {"map", "mnt"} # {}
Unused == ~InUse(k, h.rec.dev) \/ h.stale \cap {"map", "holder"} # {}
BackendOurs == Connected(k, h.rec) \/ "backend" \in h.stale

(* An attach that has not failed, before its n-th call. *)
Attaching(n) ==
    /\ h.verb = "attach" /\ ~h.back /\ n \in 1..38 /\ h.todo = Drop(AttachCalls, n)
    /\ h.made <=> n > 6
    /\ n < 4 => nonce < MaxConn
    /\ n \in 2..6 => rec[h.vol] = NoRecord \/ Down(k, rec[h.vol])
    /\ n \in 3..6 => rec[h.vol] = NoRecord \/ Unmapped(k, rec[h.vol])
    /\ n > 3 => h.rec # NoRecord /\ h.rec.att = h.att /\ h.rec.nonce <= nonce /\ Tight(k, h.rec)
    /\ n > 6 => Named
    /\ n \in 14..23 => rec[h.vol].intent
    /\ n \in 4..21 => h.rec.proof = NoMap
    /\ n > 20 => Clean(k, h.rec)
    /\ n \in 22..23 => (~Unmapped(k, h.rec) => h.rec.proof = OwnMap(h.rec))
    /\ n = 22 => h.rec.proof.own \/ Down(k, h.rec)
    /\ n = 23 => h.rec.proof.own
    /\ n > 23 => rec[h.vol] = h.rec
    /\ n > 34 => (Shown(k, h.rec) => h.whole)
    /\ n = 38 => h.whole \/ ~FsPinned[h.vol] \/ StrayMount(k, h.rec.att)

(* The rollback of a failed attach. *)
RbSeen ==
    /\ h.obs = "mounted" => MountThere
    /\ h.obs = "clear" => Unmapped(k, h.rec) /\ Unused

RbLoop(n) ==
    /\ h.todo = Drop(Rollback, n)
    /\ n > 1 => RbSeen
    /\ n = 3 => (h.obs = "mounted" => MountOurs)

RbUnplug(n) ==
    /\ h.todo = Drop(RbUnplugCalls, n)
    /\ Unmapped(k, h.rec)
    /\ n = 1 => BackendOurs /\ Unused
    /\ n = 3 => Down(k, h.rec)

RbUmount == h.todo = <<"umount">> \o Rollback /\ MountOurs
RbOff(m) == h.todo = Drop(RbOffCalls, m) \o Rollback

RollingBack ==
    /\ h.verb = "attach" /\ h.back /\ h.made /\ Named
    /\ \/ \E n \in 1..3 : RbLoop(n)
       \/ RbUmount
       \/ \E m \in 1..2 : RbOff(m)
       \/ \E n \in 1..3 : RbUnplug(n)

(* A call that a step of detach or recover has put first. *)
InsertedAt(t, m) ==
    /\ t = "none" => m = 1
    /\ t # "none" => m \in 1..Len(PartCalls(t))
    /\ t = "umount" => MountOurs
    /\ t = "vgoff" => MapOurs
    /\ t = "force" /\ m \in 3..5 => MapOurs
    /\ t = "unplug" => Unused
    /\ t = "unplug" /\ m = 2 => BackendOurs

Tearing == h.verb \in {"detach", "recover", "cleanup"} /\ ~h.made

Detaching(t, m, n) ==
    /\ Tearing /\ n \in 1..11 /\ h.todo = Ahead(t, m) \o Drop(DetachCalls, n)
    /\ InsertedAt(t, m)
    /\ t # "none" => n \in {6, 8, 10}
    /\ n > 1 => h.rec # NoRecord
    /\ n \in 2..10 => rec[h.vol] = h.rec
    /\ n > 2 => (~h.conn => Down(k, h.rec))
    /\ n = 10 => /\ t \in {"none", "unplug"}
                 /\ Unmapped(k, h.rec)
                 /\ t = "none" => Down(k, h.rec)
    /\ n = 11 => rec[h.vol] = NoRecord /\ Gone(k, h.rec)

Recovering(t, m, n) ==
    /\ Tearing /\ n \in 1..5 /\ h.todo = Ahead(t, m) \o Drop(RecoverCalls, n)
    /\ InsertedAt(t, m)
    /\ t # "none" => n = 2
    /\ n > 1 => h.rec # NoRecord /\ rec[h.vol] = h.rec
    /\ n > 3 => /\ h.obs = "mounted" => MountOurs
                /\ h.obs = "active" /\ ~h.rec.intent => MapOurs

Confirming(n) ==
    /\ Tearing /\ n \in 1..4 /\ h.todo = Drop(ConfirmCalls, n)
    /\ h.rec # NoRecord
    /\ rec[h.vol] = IF n = 4 THEN NoRecord ELSE h.rec
    /\ n > 1 => Unmapped(k, h.rec)
    /\ n > 2 => Down(k, h.rec)

Cleaning ==
    /\ h.verb = "cleanup" /\ ~h.made
    /\ \/ h.todo = Drop(CleanupCalls, 1) /\ h.rec = NoRecord
       \/ h.todo = Drop(CleanupCalls, 2)
       \/ h.todo = <<"done">> /\ rec[h.vol] = NoRecord /\ h.rec = NoRecord

GrowCall == {"record", "backend", "live", "size", "extend", "growfs", "done"}
Growing == h.verb = "grow" /\ ~h.made /\ h.todo \in Seq(GrowCall)

Verifying(n) ==
    /\ h.verb = "verify" /\ ~h.made /\ n \in 1..14 /\ h.todo = Drop(VerifyCalls, n)
    /\ n > 1 => h.rec # NoRecord /\ OwnProof(h.rec)
    /\ n = 13 => h.whole \/ Down(k, h.rec)
    /\ n = 14 => h.whole \/ StrayConnect(k, h.rec.nonce)

Stage ==
    \/ h = Idle
    \/ \E n \in 1..38 : Attaching(n)
    \/ RollingBack
    \/ \E t \in Part, m \in 1..7 : \/ \E n \in 1..11 : Detaching(t, m, n)
                                   \/ \E n \in 1..5 : Recovering(t, m, n)
    \/ \E n \in 1..4 : Confirming(n)
    \/ Cleaning \/ Growing
    \/ \E n \in 1..14 : Verifying(n)

(* Commands without their helper: what they may connect was allocated, and *)
(* those that build something are on the list of all there were. *)
LooseUsed == \A c \in k.loose : c.rec.nonce <= nonce
LateLoose == \A c \in k.late : c.call \in Builds => c \in k.loose

AInv == NoOrphan /\ HelperTyped /\ OpenedActive /\ RecordsOwn /\ LooseUsed /\ LateLoose /\ Stage

(* The first of the calls that are left, and the rest. *)
LEMMA DropIs ==
  ASSUME NEW S, NEW s \in Seq(S), NEW n \in 1..Len(s)
  PROVE  /\ Drop(s, n) \in Seq(S) /\ Drop(s, n) # << >>
         /\ Head(Drop(s, n)) = s[n] /\ Tail(Drop(s, n)) = Drop(s, n + 1)
<1>1. Len(s) \in Nat /\ n \in Nat /\ Len(s) \in n..Len(s)
  OBVIOUS
<1>2. Head(Drop(s, n)) = s[n] /\ Tail(Drop(s, n)) = Drop(s, n + 1)
  BY <1>1, HeadTailOfSubSeq DEF Drop
<1>3. Drop(s, n) \in Seq(S) /\ Len(Drop(s, n)) = Len(s) - n + 1
  BY <1>1, SubSeqProperties DEF Drop
<1>4. Drop(s, n) # << >>
  BY <1>1, <1>3
<1> QED
  BY <1>2, <1>3, <1>4

(* The first and the rest of calls that others follow. *)
LEMMA HeadOfBoth ==
  ASSUME NEW S, NEW s \in Seq(S), NEW t \in Seq(S), s # << >>
  PROVE  s \o t \in Seq(S) /\ s \o t # << >> /\ Head(s \o t) = Head(s) /\ Tail(s \o t) = Tail(s) \o t
  BY ConcatProperties, HeadTailProperties, SeqEqual


(* The calls of an attach. *)
LEMMA AttachCallsAre ==
  /\ AttachCalls \in Seq(Call) /\ Len(AttachCalls) = 38
  BY DEF AttachCalls, Call

(* The other calls. *)
LEMMA OtherCallsAre ==
  /\ Rollback \in Seq(Call) /\ Len(Rollback) = 3
  /\ DetachCalls \in Seq(Call) /\ Len(DetachCalls) = 11
  /\ RecoverCalls \in Seq(Call) /\ Len(RecoverCalls) = 5
  /\ ConfirmCalls \in Seq(Call) /\ Len(ConfirmCalls) = 4
  /\ CleanupCalls \in Seq(Call) /\ Len(CleanupCalls) = 2
  /\ VerifyCalls \in Seq(Call) /\ Len(VerifyCalls) = 14
  /\ RbUnplugCalls \in Seq(Call) /\ Len(RbUnplugCalls) = 3
  /\ RbOffCalls \in Seq(Call) /\ Len(RbOffCalls) = 2
  BY DEF Rollback, Call, DetachCalls, RecoverCalls, ConfirmCalls, CleanupCalls, VerifyCalls, RbUnplugCalls,
     RbOffCalls

(* What a step may put before the calls that are left. *)
LEMMA InsertedAre ==
  /\ IntentCalls \in Seq(Call) /\ Len(IntentCalls) = 4
  /\ ForceCalls \in Seq(Call) /\ Len(ForceCalls) = 7
  /\ UnplugCalls \in Seq(Call) /\ Len(UnplugCalls) = 2
  /\ DecideCalls \in Seq(Call) /\ Len(DecideCalls) = 3
  BY DEF IntentCalls, Call, ForceCalls, UnplugCalls, DecideCalls

-----------------------------------------------------------------------------
(* Steps of the helper. *)

(* The helper goes on with other calls; K is what it has just looked at. *)
Goes(calls, K) ==
    /\ h' \in Helper /\ h'.todo = calls
    /\ h'.vol = h.vol /\ h'.att = h.att /\ h'.verb = h.verb /\ h'.tried = h.tried
    /\ h'.back = h.back /\ h'.stale = h.stale \ K
    /\ h'.whole <=> (h.whole \/ (h'.rec # NoRecord /\ Whole(k', h'.rec)))

Moved(calls, K) ==
    /\ Goes(calls, K)
    /\ h'.rec = h.rec /\ h'.conn = h.conn /\ h'.obs = h.obs /\ h'.made = h.made

(* What After makes of a helper. *)
LEMMA AfterIs ==
  ASSUME NEW g \in Helper, NEW calls \in Seq(Call), NEW ker, NEW f, f = After(ker, calls, g)
  PROVE  /\ f \in Helper /\ f.todo = calls /\ f.vol = g.vol /\ f.att = g.att /\ f.rec = g.rec
         /\ f.verb = g.verb /\ f.conn = g.conn /\ f.obs = g.obs /\ f.tried = g.tried
         /\ f.made = g.made /\ f.back = g.back /\ f.stale = g.stale
         /\ f.whole <=> (g.whole \/ (g.rec # NoRecord /\ Whole(ker, g.rec)))
  BY DEF Helper, After

(* What a look makes of the helper. *)
LEMMA SeenIs ==
  ASSUME h \in Helper, NEW K, NEW g, g = Seen(K)
  PROVE  /\ g \in Helper /\ g.todo = h.todo /\ g.vol = h.vol /\ g.att = h.att /\ g.rec = h.rec
         /\ g.verb = h.verb /\ g.conn = h.conn /\ g.obs = h.obs /\ g.tried = h.tried
         /\ g.made = h.made /\ g.back = h.back /\ g.whole = h.whole /\ g.stale = h.stale \ K
  BY DEF Helper, Seen

(* After a look the helper goes on. *)
LEMMA SeenMoves ==
  ASSUME h \in Helper, NEW K, NEW calls \in Seq(Call), k' = k, h' = To(calls, Seen(K))
  PROVE  Moved(calls, K)
  BY SeenIs, AfterIs DEF To, Moved, Goes

(* A step that looks at nothing. *)
LEMMA PlainMoves ==
  ASSUME h \in Helper, NEW calls \in Seq(Call), h' = After(k', calls, h)
  PROVE  Moved(calls, {})
  BY AfterIs DEF Moved, Goes

(* A helper that makes a call is there, and has calls left. *)
LEMMA AtIs ==
  ASSUME HelperTyped, NEW c, At(c)
  PROVE  h # Idle /\ h \in Helper /\ h.todo \in Seq(Call) /\ h.todo # << >> /\ Head(h.todo) = c
         /\ Tail(h.todo) \in Seq(Call)
  BY HeadTailProperties DEF At, Idle, HelperTyped, Helper

(* A call that asks for the backend. *)
LEMMA AskMoves ==
  ASSUME HelperTyped, NEW c, NEW good, Ask(c, good)
  PROVE  /\ k' = k /\ rec' = rec /\ nonce' = nonce /\ env' = env /\ faults' = faults
         /\ (good /\ Moved(Tail(h.todo), {"backend"})) \/ h' = Failed
  BY AtIs, SeenMoves DEF Ask, On

(* A call that looks at what is above the backend. *)
LEMMA LookMoves ==
  ASSUME HelperTyped, NEW c, NEW good, Look(c, good)
  PROVE  /\ k' = k /\ rec' = rec /\ nonce' = nonce /\ env' = env /\ faults' = faults
         /\ (good /\ Moved(Tail(h.todo), {"map", "mnt", "holder"})) \/ h' = Failed
  BY AtIs, SeenMoves DEF Look, On

(* A command: it has had its effect, or it has failed, or it was left. *)
LEMMA RunMoves ==
  ASSUME HelperTyped, NEW c, NEW effect, Run(c, effect), faults \in 0..MaxFaults
  PROVE  /\ rec' = rec /\ nonce' = nonce /\ env' = env /\ faults' \in 0..MaxFaults
         /\ \/ k' = effect /\ effect # k /\ Moved(Tail(h.todo), {})
            \/ k' \in {k, effect, LeftRunning(FALSE)} /\ h' = Failed
<1>1. /\ At(c) /\ rec' = rec /\ nonce' = nonce /\ env' = env
      /\ \/ effect # k /\ k' = effect /\ h' = After(effect, Tail(h.todo), h) /\ faults' = faults
         \/ effect = k /\ k' = k /\ faults' = faults /\ h' = Failed
         \/ /\ faults < MaxFaults /\ faults' = faults + 1 /\ k' \in {effect, LeftRunning(FALSE)}
            /\ h' = Failed
  BY DEF Run
<1>2. CASE effect # k /\ k' = effect /\ h' = After(effect, Tail(h.todo), h) /\ faults' = faults
  BY <1>2, <1>1, AtIs, PlainMoves
<1>3. CASE effect = k /\ k' = k /\ faults' = faults /\ h' = Failed
  BY <1>1, <1>3
<1>4. CASE faults < MaxFaults /\ faults' = faults + 1 /\ k' \in {effect, LeftRunning(FALSE)} /\ h' = Failed
  <2>1. faults' \in 0..MaxFaults
    BY <1>4, AttachAssumption
  <2> QED
    BY <1>1, <1>4, <2>1, Zenon
<1> QED
  BY <1>1, <1>2, <1>3, <1>4

(* A write of the trusted record: done, or done with a failure. *)
LEMMA WriteMoves ==
  ASSUME HelperTyped, NEW c, NEW r, NEW g, Write(c, r, g), faults \in 0..MaxFaults
  PROVE  /\ At(c) /\ k' = k /\ nonce' = nonce /\ env' = env /\ faults' \in 0..MaxFaults
         /\ rec' = [rec EXCEPT ![h.vol] = r]
         /\ h' = After(k', Tail(h.todo), g) \/ h' = Failed
  BY AttachAssumption DEF Write, On, To

-----------------------------------------------------------------------------
(* The kernel. *)

Backend == {Absent, Foreign} \cup 1..MaxConn
Mapping == {NoMap} \cup [dev : Dev \cup {Outside}, own : BOOLEAN]
Kernel == [backend : [Dev -> Backend], map : [Att -> Mapping],
           mnt : [Att -> MountState], holder : SUBSET Dev, dead : SUBSET Dev,
           late : SUBSET LateCommand, loose : SUBSET LateCommand]

(* Changes of one backend, one mapping and one mount. *)
BackendTo(ker, d, x) == SetBackend(ker, d, x)
MapTo(ker, a, x) == [ker EXCEPT !.map[a] = x]
MountTo(ker, a, x) == [ker EXCEPT !.mnt[a] = x]
LateTo(ker, x, y) == [ker EXCEPT !.late = x, !.loose = y]

(* A change of one backend. *)
LEMMA BackendSet ==
  ASSUME NEW ker \in Kernel, NEW d \in Dev, NEW x \in Backend,
         NEW w, w = BackendTo(ker, d, x)
  PROVE  /\ w \in Kernel /\ w.backend = [ker.backend EXCEPT ![d] = x]
         /\ w.map = ker.map /\ w.mnt = ker.mnt /\ w.holder = ker.holder
         /\ w.late = ker.late /\ w.loose = ker.loose
  BY DEF Kernel, BackendTo, SetBackend

(* A change of one mapping. *)
LEMMA MapSet ==
  ASSUME NEW ker \in Kernel, NEW a \in Att, NEW x \in Mapping,
         NEW w, w = MapTo(ker, a, x)
  PROVE  /\ w \in Kernel /\ w.map = [ker.map EXCEPT ![a] = x]
         /\ w.backend = ker.backend /\ w.mnt = ker.mnt /\ w.holder = ker.holder
         /\ w.late = ker.late /\ w.loose = ker.loose
  BY DEF Kernel, MapTo

(* A change of one mount. *)
LEMMA MountSet ==
  ASSUME NEW ker \in Kernel, NEW a \in Att, NEW x \in MountState,
         NEW w, w = MountTo(ker, a, x)
  PROVE  /\ w \in Kernel /\ w.mnt = [ker.mnt EXCEPT ![a] = x]
         /\ w.backend = ker.backend /\ w.map = ker.map /\ w.holder = ker.holder
         /\ w.late = ker.late /\ w.loose = ker.loose
  BY DEF Kernel, MountTo

(* A change of the other users. *)
LEMMA HolderSet ==
  ASSUME NEW ker \in Kernel, NEW x \in SUBSET Dev, NEW w, w = [ker EXCEPT !.holder = x]
  PROVE  /\ w \in Kernel /\ w.holder = x
         /\ w.backend = ker.backend /\ w.map = ker.map /\ w.mnt = ker.mnt
         /\ w.late = ker.late /\ w.loose = ker.loose
  BY DEF Kernel

(* A change of the commands that have lost their helper. *)
LEMMA LateSet ==
  ASSUME NEW ker \in Kernel, NEW x \in SUBSET LateCommand, NEW y \in SUBSET LateCommand,
         NEW w, w = LateTo(ker, x, y)
  PROVE  /\ w \in Kernel /\ w.late = x /\ w.loose = y /\ w.holder = ker.holder
         /\ w.backend = ker.backend /\ w.map = ker.map /\ w.mnt = ker.mnt
  BY DEF Kernel, LateTo

(* A step that adds no connection, no mapping and no mount of the helper *)
(* but those of commands that outlived it: what it takes away, others may *)
(* have taken. *)
YieldBackend ==
    \A d \in Dev : \/ k'.backend[d] = k.backend[d] \/ k'.backend[d] \in {Absent, Foreign}
                   \/ StrayConnect(k, k'.backend[d])
YieldMap ==
    \A a \in Att :
        \/ k'.map[a] = k.map[a]
        \/ /\ ~Opened(k, a) /\ k'.mnt = k.mnt
           /\ \/ /\ k'.map[a].own = FALSE
                 /\ \A d \in Dev : k'.map[a].dev = d => k'.backend[d] \in {Absent, Foreign}
              \/ k'.map[a].own = TRUE /\ k'.map[a] # NoMap /\ StrayMap(k, a, k'.map[a].dev)
YieldMount ==
    \A a \in Att :
        \/ k'.mnt[a] = k.mnt[a]
        \/ /\ k'.mnt[a] \notin {"lv", "wrong"} /\ k'.map = k.map
           /\ k'.mnt[a] = "elsewhere" => k.map[a] # NoMap
        \/ k'.mnt[a] # "elsewhere" /\ k'.map = k.map /\ k.map[a] # NoMap /\ StrayMount(k, a)
YieldLate ==
    /\ k'.loose = k.loose
    /\ \A c \in k'.late : c \in k.late \/ c.call \notin Builds
Yields == k' \in Kernel /\ YieldBackend /\ YieldMap /\ YieldMount /\ YieldLate

(* The kernel as it is. *)
LEMMA SameYields == ASSUME k \in Kernel, k' = k PROVE Yields
  BY DEF Yields, YieldBackend, YieldMap, YieldMount, YieldLate

(* A backend goes, or a foreign one comes. *)
LEMMA BackendYields ==
  ASSUME k \in Kernel, NEW d \in Dev, NEW x \in {Absent, Foreign},
         k' = BackendTo(k, d, x)
  PROVE  Yields /\ k'.map = k.map /\ k'.mnt = k.mnt /\ k'.holder = k.holder
<1>1. x \in Backend
  BY DEF Backend
<1>2. PICK w : w = k'
  OBVIOUS
<1>3. /\ w \in Kernel /\ w.backend = [k.backend EXCEPT ![d] = x]
      /\ w.map = k.map /\ w.mnt = k.mnt /\ w.holder = k.holder
      /\ w.late = k.late /\ w.loose = k.loose
  BY <1>1, <1>2, BackendSet
<1>4. k.backend \in [Dev -> Backend]
  BY DEF Kernel
<1> QED
  BY <1>2, <1>3, <1>4 DEF Yields, YieldBackend, YieldMap, YieldMount, YieldLate

(* A mapping goes, or one comes that is not the helper's. *)
LEMMA MapYields ==
  ASSUME k \in Kernel, NEW a \in Att, NEW x \in Mapping, x.own = FALSE,
         ~Opened(k, a) \/ k.map[a] = x,
         \A d \in Dev : x.dev = d => k.backend[d] \in {Absent, Foreign},
         k' = MapTo(k, a, x)
  PROVE  Yields /\ k'.backend = k.backend /\ k'.mnt = k.mnt /\ k'.holder = k.holder
<1>1. PICK w : w = k'
  OBVIOUS
<1>2. /\ w \in Kernel /\ w.map = [k.map EXCEPT ![a] = x]
      /\ w.backend = k.backend /\ w.mnt = k.mnt /\ w.holder = k.holder
      /\ w.late = k.late /\ w.loose = k.loose
  BY <1>1, MapSet
<1>3. k.map \in [Att -> Mapping]
  BY DEF Kernel
<1>4. YieldMap
  BY <1>1, <1>2, <1>3 DEF YieldMap
<1> QED
  BY <1>1, <1>2, <1>4 DEF Yields, YieldBackend, YieldMount, YieldLate

(* A mount goes, or one comes that is not the helper's. *)
LEMMA MountYields ==
  ASSUME k \in Kernel, NEW a \in Att, NEW x \in {"none", "other", "elsewhere"},
         x = "elsewhere" => k.map[a] # NoMap, k' = MountTo(k, a, x)
  PROVE  Yields /\ k'.backend = k.backend /\ k'.map = k.map /\ k'.holder = k.holder
<1>1. PICK w : w = k'
  OBVIOUS
<1>2. x \in MountState
  BY DEF MountState
<1>3. /\ w \in Kernel /\ w.mnt = [k.mnt EXCEPT ![a] = x]
      /\ w.backend = k.backend /\ w.map = k.map /\ w.holder = k.holder
      /\ w.late = k.late /\ w.loose = k.loose
  BY <1>1, <1>2, MountSet
<1>4. k.mnt \in [Att -> MountState]
  BY DEF Kernel
<1> QED
  BY <1>1, <1>3, <1>4 DEF Yields, YieldBackend, YieldMap, YieldMount, YieldLate

(* Another user of a device comes or goes. *)
LEMMA HolderYields ==
  ASSUME k \in Kernel, NEW x \in SUBSET Dev, k' = [k EXCEPT !.holder = x]
  PROVE  Yields
  BY HolderSet DEF Yields, YieldBackend, YieldMap, YieldMount, YieldLate

(* A server dies and the kernel stays connected. *)
LEMMA DeadYields ==
  ASSUME k \in Kernel, NEW x \in SUBSET Dev, k' = [k EXCEPT !.dead = x]
  PROVE  Yields /\ k'.backend = k.backend /\ k'.map = k.map /\ k'.mnt = k.mnt /\ k'.holder = k.holder
  BY DEF Kernel, Yields, YieldBackend, YieldMap, YieldMount, YieldLate

(* The fields of a record. *)
LEMMA RecordFields ==
  ASSUME NEW r \in TrustedRecord
  PROVE  /\ r.nonce \in 1..MaxConn /\ r.dev \in Dev /\ r.att \in Att /\ r.intent \in BOOLEAN
         /\ r.proof \in Mapping /\ r # NoRecord
  BY DEF TrustedRecord, Mapping, NoRecord

(* The fields of a command that has lost its helper. *)
LEMMA LateFields ==
  ASSUME NEW c \in LateCommand
  PROVE  c.call \in Command /\ c.rec \in TrustedRecord
  BY DEF LateCommand

(* A command is left running. *)
LEMMA LeftIs ==
  ASSUME k \in Kernel, NEW b \in BOOLEAN, h.rec \in TrustedRecord, Head(h.todo) \in Command,
         k' = LeftRunning(b)
  PROVE  \E c \in LateCommand :
           /\ c.call = Head(h.todo) /\ c.rec = h.rec
           /\ k' \in Kernel /\ k'.late = k.late \cup {c} /\ k'.holder = k.holder
           /\ k'.loose = IF c.call \in Builds THEN k.loose \cup {c} ELSE k.loose
           /\ k'.backend = k.backend /\ k'.map = k.map /\ k'.mnt = k.mnt
<1>1. PICK c : c = [call |-> Head(h.todo), rec |-> h.rec, killed |-> b]
  OBVIOUS
<1>2. c \in LateCommand /\ c.call = Head(h.todo) /\ c.rec = h.rec
  BY <1>1 DEF LateCommand
<1>3. PICK y : y = IF c.call \in Builds THEN k.loose \cup {c} ELSE k.loose
  OBVIOUS
<1>4. PICK x, w : x = k.late \cup {c} /\ w = k'
  OBVIOUS
<1>5. x \in SUBSET LateCommand /\ y \in SUBSET LateCommand
  BY <1>2, <1>3, <1>4 DEF Kernel
<1>6. w = LateTo(k, x, y)
  BY <1>1, <1>3, <1>4, Zenon DEF LeftRunning, LateTo
<1>7. /\ w \in Kernel /\ w.late = x /\ w.loose = y /\ w.holder = k.holder
      /\ w.backend = k.backend /\ w.map = k.map /\ w.mnt = k.mnt
  BY <1>5, <1>6, LateSet
<1> QED
  BY <1>2, <1>3, <1>4, <1>7

(* A command that takes down is left running. *)
LEMMA LeftYields ==
  ASSUME k \in Kernel, NEW b \in BOOLEAN, h.rec \in TrustedRecord, Head(h.todo) \in Command \ Builds,
         k' = LeftRunning(b)
  PROVE  Yields /\ k'.backend = k.backend /\ k'.map = k.map /\ k'.mnt = k.mnt /\ k'.holder = k.holder
<1>1. Head(h.todo) \in Command
  OBVIOUS
<1>2. PICK c \in LateCommand :
           /\ c.call = Head(h.todo) /\ c.rec = h.rec
           /\ k' \in Kernel /\ k'.late = k.late \cup {c} /\ k'.holder = k.holder
           /\ k'.loose = IF c.call \in Builds THEN k.loose \cup {c} ELSE k.loose
           /\ k'.backend = k.backend /\ k'.map = k.map /\ k'.mnt = k.mnt
  BY <1>1, LeftIs, Zenon
<1> QED
  BY <1>2 DEF Yields, YieldBackend, YieldMap, YieldMount, YieldLate

(* NoMap is a mapping on no device. *)
LEMMA NoMapIs == NoMap \in Mapping /\ NoMap.own = FALSE /\ \A d \in Dev : NoMap.dev # d
  BY StackAssumption DEF Mapping, NoMap

(* The commands of a teardown. *)
LEMMA UmountYields ==
  ASSUME k \in Kernel, NEW r \in TrustedRecord, k' = Umount(k, r)
  PROVE  Yields
  BY RecordFields, SameYields, MountYields DEF Umount, MountTo

(* A mapping is taken down only while nothing has it open. *)
LEMMA OffYields ==
  ASSUME k \in Kernel, NEW r \in TrustedRecord, k' \in {DeactivateScoped(k, r), Deactivate(k, r)}
  PROVE  Yields
  BY RecordFields, SameYields, NoMapIs, MapYields DEF DeactivateScoped, Deactivate, MapTo

(* A disconnection. *)
LEMMA DisconnectYields ==
  ASSUME k \in Kernel, NEW r \in TrustedRecord, k' = NbdDisconnect(k, r)
  PROVE  Yields /\ k'.backend[r.dev] = Absent
<1>1. PICK d \in Dev, x \in {Absent, Foreign} : d = r.dev /\ x = Absent
  BY RecordFields
<1>2. k' = BackendTo(k, d, x) /\ x \in Backend
  BY <1>1 DEF NbdDisconnect, BackendTo, Backend
<1>3. Yields
  BY <1>2, BackendYields
<1>4. k'.backend = [k.backend EXCEPT ![d] = x] /\ k.backend \in [Dev -> Backend]
  BY <1>2, BackendSet DEF Kernel
<1> QED
  BY <1>1, <1>3, <1>4

-----------------------------------------------------------------------------
(* Others. *)

(* The helper learns of no change, but what it has seen is stale. *)
Noted ==
    \/ h = Idle /\ h' = Idle
    \/ /\ h # Idle /\ h \in Helper /\ h' \in Helper /\ h'.todo = h.todo /\ h'.vol = h.vol /\ h'.att = h.att
       /\ h'.rec = h.rec /\ h'.verb = h.verb /\ h'.conn = h.conn /\ h'.obs = h.obs
       /\ h'.tried = h.tried /\ h'.made = h.made /\ h'.back = h.back /\ h'.whole = h.whole
       /\ h.stale \subseteq h'.stale
       /\ k'.backend # k.backend => "backend" \in h'.stale
       /\ k'.map # k.map => "map" \in h'.stale
       /\ k'.mnt # k.mnt => "mnt" \in h'.stale
       /\ k'.holder # k.holder => "holder" \in h'.stale

(* A change of one kind is noted as such. *)
LEMMA StaleNoted ==
  ASSUME HelperTyped, NEW kind \in {"backend", "map", "mnt", "holder"}, Stale(kind),
         kind # "backend" => k'.backend = k.backend, kind # "map" => k'.map = k.map,
         kind # "mnt" => k'.mnt = k.mnt, kind # "holder" => k'.holder = k.holder
  PROVE  Noted
  BY DEF Stale, Noted, HelperTyped, Helper

(* A backend that others change. *)
LEMMA OthersBackend ==
  ASSUME HelperTyped, k \in Kernel, NEW d \in Dev, NEW x \in {Absent, Foreign},
         k' = BackendTo(k, d, x), Stale("backend")
  PROVE  Yields /\ Noted
  BY BackendYields, StaleNoted

(* A mapping that others change. *)
LEMMA OthersMap ==
  ASSUME HelperTyped, k \in Kernel, NEW a \in Att, NEW x \in Mapping, x.own = FALSE,
         ~Opened(k, a) \/ k.map[a] = x,
         \A d \in Dev : x.dev = d => k.backend[d] \in {Absent, Foreign},
         k' = MapTo(k, a, x), Stale("map")
  PROVE  Yields /\ Noted
  BY MapYields, StaleNoted

(* A mount that others change. *)
LEMMA OthersMount ==
  ASSUME HelperTyped, k \in Kernel, NEW a \in Att, NEW x \in {"none", "other", "elsewhere"},
         x = "elsewhere" => k.map[a] # NoMap, k' = MountTo(k, a, x), Stale("mnt")
  PROVE  Yields /\ Noted
  BY MountYields, StaleNoted

(* Another user of a device. *)
LEMMA OthersHolder ==
  ASSUME HelperTyped, k \in Kernel, NEW x \in SUBSET Dev, k' = [k EXCEPT !.holder = x], Stale("holder")
  PROVE  Yields /\ Noted
  BY HolderSet, HolderYields, StaleNoted

(* A change that others make, with what it is. *)
OthersTo(kind, w) == k' = w /\ Stale(kind) /\ rec' = rec /\ nonce' = nonce /\ faults' = faults
Yielded == Yields /\ Noted /\ rec' = rec /\ nonce' = nonce /\ faults' = faults

(* The changes of others. *)
LEMMA OthersIs == ASSUME NEW kind, NEW w, Others(kind, w) PROVE OthersTo(kind, w)
  BY DEF Others, OthersTo

(* A backend. *)
LEMMA OthersBackendTo ==
  ASSUME HelperTyped, k \in Kernel, NEW d \in Dev, NEW x \in {Absent, Foreign},
         OthersTo("backend", BackendTo(k, d, x))
  PROVE  Yielded
  BY OthersBackend DEF OthersTo, Yielded

(* A mapping. *)
LEMMA OthersMapTo ==
  ASSUME HelperTyped, k \in Kernel, NEW a \in Att, NEW x \in Mapping, x.own = FALSE, ~Opened(k, a),
         \A d \in Dev : x.dev = d => k.backend[d] \in {Absent, Foreign},
         OthersTo("map", MapTo(k, a, x))
  PROVE  Yielded
  BY OthersMap DEF OthersTo, Yielded

(* A mapping that goes. *)
LEMMA OthersUnmap ==
  ASSUME HelperTyped, k \in Kernel, NEW a \in Att, ~Opened(k, a), OthersTo("map", MapTo(k, a, NoMap))
  PROVE  Yielded
  BY NoMapIs, OthersMapTo

(* A mount. *)
LEMMA OthersMountTo ==
  ASSUME HelperTyped, k \in Kernel, NEW a \in Att, NEW x \in {"none", "other", "elsewhere"},
         x = "elsewhere" => k.map[a] # NoMap, OthersTo("mnt", MountTo(k, a, x))
  PROVE  Yielded
  BY OthersMount DEF OthersTo, Yielded

HolderTo(ker, x) == [ker EXCEPT !.holder = x]

(* Another user. *)
LEMMA OthersHolderTo ==
  ASSUME HelperTyped, k \in Kernel, NEW x \in SUBSET Dev, OthersTo("holder", HolderTo(k, x))
  PROVE  Yielded
  BY OthersHolder DEF OthersTo, HolderTo, Yielded

(* What others do on the host. *)
LEMMA ElsewhereYields ==
  ASSUME HelperTyped, k \in Kernel, OpenedActive, env \in 0..MaxEnv, Elsewhere
  PROVE  Yielded /\ env' \in 0..MaxEnv
<1>1. env' \in 0..MaxEnv
  BY AttachAssumption DEF Elsewhere
<1>2. k.backend \in [Dev -> Backend] /\ k.map \in [Att -> Mapping] /\ k.holder \in SUBSET Dev
  BY DEF Kernel
<1>3. CASE BackendChanges
  BY <1>3, OthersIs, <1>1, OthersBackendTo DEF BackendChanges, BackendTo
<1>7. CASE ServerDies
  <2>1. PICK x \in SUBSET Dev : k' = [k EXCEPT !.dead = x]
    BY <1>7 DEF ServerDies, Kernel
  <2>2. h' = h /\ rec' = rec /\ nonce' = nonce /\ faults' = faults
    BY <1>7 DEF ServerDies
  <2> QED
    BY <1>1, <2>1, <2>2, DeadYields DEF Yielded, Noted, HelperTyped
<1>4. CASE MappingChanges
  <2>1. PICK a \in Att :
          \/ /\ k.map[a] = NoMap
             /\ \E d \in {Outside} \cup {x \in Dev : k.backend[x] = Foreign} :
                  OthersTo("map", MapTo(k, a, [dev |-> d, own |-> FALSE]))
          \/ ~Opened(k, a) /\ OthersTo("map", MapTo(k, a, NoMap))
    BY <1>4, OthersIs DEF MappingChanges, MapTo
  <2>2. CASE ~Opened(k, a) /\ OthersTo("map", MapTo(k, a, NoMap))
    BY <1>1, <2>2, OthersUnmap
  <2>3. CASE k.map[a] = NoMap /\ ~(~Opened(k, a) /\ OthersTo("map", MapTo(k, a, NoMap)))
    <3>1. PICK d \in {Outside} \cup {x \in Dev : k.backend[x] = Foreign} :
             OthersTo("map", MapTo(k, a, [dev |-> d, own |-> FALSE]))
      BY <2>1, <2>3
    <3>2. PICK x : x = [dev |-> d, own |-> FALSE]
      OBVIOUS
    <3>3. x \in Mapping /\ x.own = FALSE /\ x.dev = d
      BY <3>2 DEF Mapping
    <3>4. \A e \in Dev : x.dev = e => k.backend[e] \in {Absent, Foreign}
      BY <3>3, StackAssumption DEF Outside
    <3>5. OthersTo("map", MapTo(k, a, x))
      BY <3>1, <3>2
    <3>6. ~Opened(k, a)
      BY <2>3 DEF OpenedActive
    <3> QED
      BY <1>1, <3>3, <3>4, <3>5, <3>6, OthersMapTo
  <2> QED
    BY <2>1, <2>2, <2>3
<1>5. CASE MountChanges
  BY <1>5, OthersIs, <1>1, OthersMountTo DEF MountChanges, MountTo
<1>6. CASE HolderChanges
  BY <1>6, OthersIs, <1>2, <1>1, OthersHolderTo DEF HolderChanges, HolderTo
<1> QED
  BY <1>3, <1>4, <1>5, <1>6, <1>7 DEF Elsewhere

(* What others give back. *)
LEMMA OthersLeaveYields ==
  ASSUME HelperTyped, k \in Kernel, OthersLeave
  PROVE  Yielded /\ env' = env
<1>1. env' = env
  BY DEF OthersLeave
<1>2. k.holder \in SUBSET Dev
  BY DEF Kernel
<1>3. \/ \E d \in Dev : OthersTo("backend", BackendTo(k, d, Absent))
      \/ \E a \in Att : ~Opened(k, a) /\ OthersTo("map", MapTo(k, a, NoMap))
      \/ \E a \in Att : OthersTo("mnt", MountTo(k, a, "none"))
      \/ \E d \in k.holder : OthersTo("holder", HolderTo(k, k.holder \ {d}))
  BY OthersIs DEF OthersLeave, BackendTo, MapTo, MountTo, HolderTo
<1>4. CASE \E d \in Dev : OthersTo("backend", BackendTo(k, d, Absent))
  BY <1>4, <1>1, OthersBackendTo
<1>5. CASE \E a \in Att : ~Opened(k, a) /\ OthersTo("map", MapTo(k, a, NoMap))
  BY <1>1, <1>5, OthersUnmap
<1>6. CASE \E a \in Att : OthersTo("mnt", MountTo(k, a, "none"))
  BY <1>6, <1>1, OthersMountTo
<1>7. CASE \E d \in k.holder : OthersTo("holder", HolderTo(k, k.holder \ {d}))
  BY <1>7, <1>2, <1>1, OthersHolderTo
<1> QED
  BY <1>3, <1>4, <1>5, <1>6, <1>7

-----------------------------------------------------------------------------
(* What a step that yields keeps. *)

(* Every connection and every mapping of the helper has its record, or was *)
(* made by a command that outlived its helper. *)
Traced ==
    /\ \A d \in Dev : k.backend[d] > 0 =>
         \/ \E v \in Vol : rec[v] # NoRecord /\ rec[v].nonce = k.backend[d] /\ rec[v].dev = d
         \/ StrayConnect(k, k.backend[d])
    /\ \A a \in Att : k.map[a].own =>
         \/ \E v \in Vol : /\ rec[v] # NoRecord /\ rec[v].att = a /\ rec[v].dev = k.map[a].dev
                           /\ rec[v].intent \/ rec[v].proof = k.map[a]
         \/ StrayMap(k, a, k.map[a].dev)

(* NoOrphan, in its parts. *)
LEMMA NoOrphanIs == NoOrphan <=> AttachTypeOK /\ Traced
  BY DEF NoOrphan, Traced, Recorded

(* The types, in their parts. *)
LEMMA TypeIs ==
  AttachTypeOK <=> /\ k \in Kernel /\ rec \in [Vol -> {NoRecord} \cup TrustedRecord]
                   /\ nonce \in 0..MaxConn /\ env \in 0..MaxEnv /\ faults \in 0..MaxFaults
  BY DEF AttachTypeOK, Kernel, Backend, Mapping

(* What is gone stays gone. *)
LEMMA YieldsKeeps ==
  ASSUME k \in Kernel, Yields, NEW r \in TrustedRecord
  PROVE  /\ Down(k, r) => Down(k', r)
         /\ Unmapped(k, r) => Unmapped(k', r)
         /\ Clean(k, r) => Clean(k', r)
         /\ Shown(k', r) => Shown(k, r)
         /\ Tight(k, r) => Tight(k', r)
         /\ StrayConnect(k, r.nonce) => StrayConnect(k', r.nonce)
         /\ StrayMount(k, r.att) => StrayMount(k', r.att)
<1>1. k'.loose = k.loose /\ YieldBackend /\ YieldMap /\ YieldMount
  BY DEF Yields, YieldLate
<1>2. /\ \A n : StrayConnect(k', n) = StrayConnect(k, n)
      /\ \A a, d : StrayMap(k', a, d) = StrayMap(k, a, d)
      /\ \A a : StrayMount(k', a) = StrayMount(k, a)
  BY <1>1 DEF StrayConnect, StrayMap, StrayMount
<1>3. Down(k, r) => Down(k', r)
  BY <1>1, <1>2, RecordFields DEF Down, Connected, YieldBackend, Absent, Foreign
<1>4. Unmapped(k, r) => Unmapped(k', r)
  BY <1>1, <1>2, RecordFields DEF Unmapped, OwnMap, YieldMap
<1>5. Clean(k, r) => Clean(k', r)
  <2>1. CASE k'.map[r.att] = k.map[r.att]
    BY <1>3, <2>1 DEF Clean
  <2>2. CASE k'.map[r.att] # k.map[r.att] /\ k'.map[r.att].own = TRUE
    BY <2>2 DEF Clean
  <2>3. CASE /\ k'.map[r.att] # k.map[r.att]
             /\ \A d \in Dev : k'.map[r.att].dev = d => k'.backend[d] \in {Absent, Foreign}
    BY <2>3, RecordFields DEF Clean, Down, Connected, Absent, Foreign
  <2> QED
    BY <1>1, <2>1, <2>2, <2>3, RecordFields DEF YieldMap
<1>6. Shown(k', r) => Shown(k, r)
  BY <1>1, <1>2, RecordFields DEF YieldMap, YieldMount, Shown, Backed, Opened
<1> QED
  BY <1>2, <1>3, <1>4, <1>5, <1>6 DEF Tight

(* Nothing loses its record. *)
LEMMA YieldsTraced ==
  ASSUME k \in Kernel, Yields, rec' = rec, Traced
  PROVE  Traced'
<1>1. k'.loose = k.loose /\ YieldBackend /\ YieldMap
  BY DEF Yields, YieldLate
<1>2. /\ \A n : StrayConnect(k', n) = StrayConnect(k, n)
      /\ \A a, d : StrayMap(k', a, d) = StrayMap(k, a, d)
  BY <1>1 DEF StrayConnect, StrayMap
<1> QED
  BY <1>1, <1>2 DEF YieldBackend, Absent, Foreign, YieldMap, Traced

(* A mapping that is in use stays. *)
LEMMA YieldsOpened ==
  ASSUME k \in Kernel, Yields, OpenedActive
  PROVE  OpenedActive'
<1>1. SUFFICES ASSUME NEW a \in Att, Opened(k', a) PROVE k'.map[a] # NoMap
  BY DEF OpenedActive
<1>2. CASE k'.mnt[a] = k.mnt[a]
  BY <1>1, <1>2 DEF Opened, OpenedActive, Yields, YieldMap
<1>3. CASE k'.mnt[a] # k.mnt[a]
  BY <1>1, <1>3 DEF Yields, YieldMount, Opened
<1> QED
  BY <1>2, <1>3

(* What the helper has seen stays so, or is stale. *)
LEMMA NotedKeeps ==
  ASSUME Noted, h # Idle
  PROVE  /\ MapOurs => MapOurs'
         /\ MountOurs => MountOurs'
         /\ MountThere => MountThere'
         /\ Unused => Unused'
         /\ BackendOurs => BackendOurs'
  BY DEF Noted, MapOurs, Active, Ours, MountOurs, Mounted, MountThere, Backed, Unused, InUse, UsedBy,
     BackendOurs, Connected

-----------------------------------------------------------------------------
(* Others and the stage of the helper. *)

(* The record the helper works on. *)
LEMMA HelperFields ==
  ASSUME h \in Helper
  PROVE  /\ h.vol \in Vol /\ h.att \in Att /\ h.rec \in {NoRecord} \cup TrustedRecord /\ h.verb \in Verb
         /\ h.conn \in BOOLEAN /\ h.tried \in BOOLEAN /\ h.made \in BOOLEAN /\ h.back \in BOOLEAN
         /\ h.whole \in BOOLEAN /\ h.todo \in Seq(Call)
         /\ h.stale \in SUBSET {"backend", "map", "mnt", "holder"}
         /\ h.obs \in {"mounted", "active", "used", "clear"}
  BY DEF Helper

(* All that a stage says of the kernel, for a step of others. *)
Lasting(r) ==
    /\ Down(k, r) => Down(k', r)
    /\ Unmapped(k, r) => Unmapped(k', r)
    /\ Clean(k, r) => Clean(k', r)
    /\ Shown(k', r) => Shown(k, r)
    /\ Tight(k, r) => Tight(k', r)
    /\ StrayConnect(k, r.nonce) => StrayConnect(k', r.nonce)
    /\ StrayMount(k, r.att) => StrayMount(k', r.att)

(* A step of others keeps it. *)
LEMMA YieldsLasting ==
  ASSUME k \in Kernel, Yields, NEW r \in TrustedRecord
  PROVE  Lasting(r)
  BY YieldsKeeps DEF Lasting

(* An attach. *)
LEMMA OthersAttaching ==
  ASSUME AttachTypeOK, Yielded, h # Idle, NEW n \in 1..38, Attaching(n)
  PROVE  Attaching(n)'
  BY TypeIs, HelperFields, YieldsLasting DEF Yielded, Noted, Attaching, Lasting, Named

(* The fields of a helper that others do not disturb. *)
Undisturbed ==
    /\ h \in Helper /\ h' \in Helper /\ h'.todo = h.todo /\ h'.vol = h.vol /\ h'.att = h.att
    /\ h'.rec = h.rec /\ h'.verb = h.verb /\ h'.conn = h.conn /\ h'.obs = h.obs
    /\ h'.tried = h.tried /\ h'.made = h.made /\ h'.back = h.back /\ h'.whole = h.whole
    /\ rec' = rec
    /\ h.rec # NoRecord => Lasting(h.rec)
    /\ MapOurs => MapOurs'
    /\ MountOurs => MountOurs'
    /\ MountThere => MountThere'
    /\ Unused => Unused'
    /\ BackendOurs => BackendOurs'

(* A step of others disturbs none of them. *)
LEMMA OthersUndisturbed ==
  ASSUME AttachTypeOK, Yielded, h # Idle
  PROVE  Undisturbed
<1>1. k \in Kernel /\ Noted /\ rec' = rec
  BY TypeIs DEF Yielded
<1>2. /\ h \in Helper /\ h' \in Helper /\ h'.todo = h.todo /\ h'.vol = h.vol /\ h'.att = h.att
      /\ h'.rec = h.rec /\ h'.verb = h.verb /\ h'.conn = h.conn /\ h'.obs = h.obs
      /\ h'.tried = h.tried /\ h'.made = h.made /\ h'.back = h.back /\ h'.whole = h.whole
  BY <1>1 DEF Noted
<1>3. h.rec # NoRecord => Lasting(h.rec)
  <2>1. SUFFICES ASSUME h.rec # NoRecord PROVE Lasting(h.rec)
    OBVIOUS
  <2>2. PICK r \in TrustedRecord : r = h.rec
    BY <1>2, <2>1, HelperFields
  <2> QED
    BY <1>1, <2>2, YieldsLasting DEF Yielded
<1> QED
  BY <1>1, <1>2, <1>3, NotedKeeps DEF Undisturbed

(* A rollback. *)
LEMMA OthersRollingBack ==
  ASSUME Undisturbed, RollingBack
  PROVE  RollingBack'
  BY DEF Undisturbed, RollingBack, Named, RbLoop, RbSeen, Lasting, RbUmount, RbOff, RbUnplug

(* A detach. *)
LEMMA OthersDetaching ==
  ASSUME Undisturbed, NEW t, NEW m, NEW n \in 1..11, Detaching(t, m, n)
  PROVE  Detaching(t, m, n)'
  BY DEF Undisturbed, Detaching, InsertedAt, Tearing, Lasting, Gone

(* A recovery. *)
LEMMA OthersRecovering ==
  ASSUME Undisturbed, NEW t, NEW m, NEW n \in 1..5, Recovering(t, m, n)
  PROVE  Recovering(t, m, n)'
  BY DEF Undisturbed, Recovering, InsertedAt, Tearing

(* The end of a recovery. *)
LEMMA OthersConfirming ==
  ASSUME Undisturbed, NEW n \in 1..4, Confirming(n)
  PROVE  Confirming(n)'
  BY DEF Undisturbed, Confirming, Tearing, Lasting

(* A cleanup, a grow and a verification. *)
LEMMA OthersRest ==
  ASSUME Undisturbed
  PROVE  /\ Cleaning => Cleaning'
         /\ Growing => Growing'
         /\ \A n \in 1..14 : Verifying(n) => Verifying(n)'
  BY DEF Undisturbed, Cleaning, Growing, Verifying, Lasting

(* Others leave the helper where it is. *)
LEMMA OthersStage ==
  ASSUME AttachTypeOK, Yielded, Stage
  PROVE  Stage'
  BY OthersUndisturbed, OthersAttaching, OthersRollingBack, OthersDetaching, OthersRecovering,
     OthersConfirming, OthersRest DEF Yielded, Noted, Stage

-----------------------------------------------------------------------------
(* Failures and starts. *)

(* All the calls are those from the first on. *)
LEMMA DropFirst == ASSUME NEW S, NEW s \in Seq(S) PROVE Drop(s, 1) = s
  BY SubSeqFull DEF Drop

(* A failed helper stops, or begins its rollback. *)
LEMMA FailedStage ==
  ASSUME h \in Helper, h' = Failed,
         h.made /\ ~h.back => /\ h.verb = "attach" /\ rec'[h.vol] # NoRecord /\ h.rec # NoRecord
                              /\ SameConnection(rec'[h.vol], h.rec)
  PROVE  Stage' /\ HelperTyped'
<1>1. CASE ~(h.made /\ ~h.back)
  BY <1>1 DEF Failed, Stage, HelperTyped
<1>2. CASE h.made /\ ~h.back
  <2>1. h' = [h EXCEPT !.todo = Rollback, !.back = TRUE]
    BY <1>2 DEF Failed
  <2>2. Rollback \in Seq(Call) /\ Len(Rollback) = 3
    BY OtherCallsAre
  <2>3. /\ h' \in Helper /\ h'.todo = Rollback /\ h'.back = TRUE /\ h'.made = h.made
        /\ h'.verb = h.verb /\ h'.rec = h.rec /\ h'.vol = h.vol
    BY <2>1, <2>2 DEF Helper
  <2>4. Drop(Rollback, 1) = Rollback
    BY <2>2, DropFirst, Zenon
  <2>5. RbLoop(1)'
    BY <2>3, <2>4 DEF RbLoop
  <2>6. RollingBack'
    BY <1>2, <2>3, <2>5 DEF RollingBack, Named
  <2> QED
    BY <2>3, <2>4, <2>6 DEF Stage, HelperTyped
<1> QED
  BY <1>1, <1>2

(* Only an attach that has published its record rolls back. *)
LEMMA MadeIs ==
  ASSUME Stage, h # Idle, h.made, ~h.back
  PROVE  h.verb = "attach" /\ Named
  BY DEF Attaching, RollingBack, Cleaning, Growing, Detaching, Recovering, Confirming, Verifying, Tearing,
     Stage

(* A failure that leaves the records alone. *)
LEMMA FailedKeeps ==
  ASSUME HelperTyped, Stage, h # Idle, h' = Failed, rec' = rec
  PROVE  Stage' /\ HelperTyped'
  BY MadeIs, FailedStage DEF HelperTyped, Named

(* A verb without inserted calls. *)
LEMMA NoneInserted ==
  /\ "none" \in Part /\ InsertedAt("none", 1) /\ InsertedAt("none", 1)' /\ Ahead("none", 1) = << >>
<1>1. PartCalls("none") = << >>
  BY DEF PartCalls
<1>2. Ahead("none", 1) = << >>
  <2>1. << >> \in Seq(Call)
    OBVIOUS
  <2> QED
    BY <1>1, <2>1, DropFirst DEF Ahead
<1> QED
  BY <1>2 DEF InsertedAt, Part

(* A call of a detach or a recovery, with nothing inserted. *)
LEMMA NoneAhead ==
  ASSUME NEW s \in Seq(Call)
  PROVE  Ahead("none", 1) \o s = s
  BY NoneInserted, ConcatEmptySeq

(* The first call of each verb. *)
LEMMA StartStage ==
  ASSUME NEW verb \in Verb, NEW v \in Vol, NEW a \in Att, Start(verb, v, a)
  PROVE  Stage' /\ HelperTyped'
<1>1. h' = [todo |-> Calls(verb), vol |-> v, att |-> a, rec |-> NoRecord, verb |-> verb,
            conn |-> FALSE, obs |-> "clear", tried |-> FALSE, made |-> FALSE, back |-> FALSE,
            whole |-> FALSE, stale |-> {}]
  BY DEF Start
<1>2. PICK calls : calls = Calls(verb)
  OBVIOUS
<1>3. /\ verb = "attach" => calls = AttachCalls
      /\ verb = "detach" => calls = DetachCalls
      /\ verb = "recover" => calls = RecoverCalls
      /\ verb = "cleanup" => calls = CleanupCalls
      /\ verb = "grow" => calls = GrowCalls
      /\ verb = "verify" => calls = VerifyCalls
  BY <1>2 DEF Calls
<1>4. GrowCalls \in Seq(GrowCall) /\ GrowCalls \in Seq(Call) /\ Len(GrowCalls) # 0
  <2> DEFINE L == LiveAttachment
             F == <<"record">>
             Z == <<"size">>
             E == <<"growfs", "done">>
  <2>1. F \in Seq(GrowCall) /\ Len(F) = 1 /\ L \in Seq(GrowCall) /\ Z \in Seq(GrowCall) /\ E \in Seq(GrowCall)
    BY DEF GrowCall, LiveAttachment
  <2>2. GrowCalls = F \o L \o L \o Z \o L \o E
    BY DEF GrowCalls
  <2> HIDE DEF L, F, Z, E
  <2>3. PICK s1 : s1 = F \o L
    OBVIOUS
  <2>4. s1 \in Seq(GrowCall) /\ Len(s1) # 0
    <3>1. s1 \in Seq(GrowCall) /\ Len(s1) = Len(F) + Len(L)
      BY <2>1, <2>3, ConcatProperties, Zenon
    <3> QED
      BY <2>1, <3>1
  <2>5. PICK s2 : s2 = s1 \o L
    OBVIOUS
  <2>6. s2 \in Seq(GrowCall) /\ Len(s2) # 0
    BY <2>1, <2>4, <2>5, ConcatProperties
  <2>7. PICK s3 : s3 = s2 \o Z
    OBVIOUS
  <2>8. s3 \in Seq(GrowCall) /\ Len(s3) # 0
    BY <2>1, <2>6, <2>7, ConcatProperties
  <2>9. PICK s4 : s4 = s3 \o L
    OBVIOUS
  <2>10. s4 \in Seq(GrowCall) /\ Len(s4) # 0
    BY <2>1, <2>8, <2>9, ConcatProperties
  <2>11. PICK s5 : s5 = s4 \o E
    OBVIOUS
  <2>12. s5 \in Seq(GrowCall) /\ Len(s5) # 0
    BY <2>1, <2>10, <2>11, ConcatProperties
  <2>13. GrowCalls = s5
    BY <2>2, <2>3, <2>5, <2>7, <2>9, <2>11
  <2>14. GrowCall \subseteq Call
    BY DEF GrowCall, Call
  <2> QED
    BY <2>12, <2>13, <2>14, SeqMonotonic
<1>5. calls \in Seq(Call) /\ calls # << >>
  <2>1. CASE verb = "attach"
    <3>1. calls = AttachCalls
      BY <1>3, <2>1
    <3>2. AttachCalls \in Seq(Call) /\ Len(AttachCalls) # 0
      BY AttachCallsAre
    <3> QED
      BY <3>1, <3>2
  <2>2. CASE verb = "detach"
    <3>1. calls = DetachCalls
      BY <1>3, <2>2
    <3>2. DetachCalls \in Seq(Call) /\ Len(DetachCalls) # 0
      BY OtherCallsAre
    <3> QED
      BY <3>1, <3>2
  <2>3. CASE verb = "recover"
    <3>1. calls = RecoverCalls
      BY <1>3, <2>3
    <3>2. RecoverCalls \in Seq(Call) /\ Len(RecoverCalls) # 0
      BY OtherCallsAre
    <3> QED
      BY <3>1, <3>2
  <2>4. CASE verb = "cleanup"
    <3>1. calls = CleanupCalls
      BY <1>3, <2>4
    <3>2. CleanupCalls \in Seq(Call) /\ Len(CleanupCalls) # 0
      BY OtherCallsAre
    <3> QED
      BY <3>1, <3>2
  <2>5. CASE verb = "grow"
    BY <1>3, <2>5, <1>4
  <2>6. CASE verb = "verify"
    <3>1. calls = VerifyCalls
      BY <1>3, <2>6
    <3>2. VerifyCalls \in Seq(Call) /\ Len(VerifyCalls) # 0
      BY OtherCallsAre
    <3> QED
      BY <3>1, <3>2
  <2> QED
    BY <2>1, <2>2, <2>3, <2>4, <2>5, <2>6 DEF Verb
<1>6. h' \in Helper
  BY <1>1, <1>2, <1>5 DEF Helper
<1>7. /\ h'.todo = calls /\ h'.verb = verb /\ h'.vol = v /\ h'.rec = NoRecord
      /\ h'.made = FALSE /\ h'.back = FALSE
  BY <1>1, <1>2
<1>8. HelperTyped'
  BY <1>5, <1>6, <1>7 DEF HelperTyped
<1>9. CASE verb = "attach"
  BY <1>3, <1>7, <1>9, DropFirst, AttachCallsAre, <1>8 DEF Start, Attaching, Stage
<1>10. "none" \in Part /\ InsertedAt("none", 1)' /\ Ahead("none", 1) = << >>
  BY NoneInserted
<1>11. CASE verb = "detach"
  <2>1. h'.todo = Ahead("none", 1) \o Drop(DetachCalls, 1)
    BY <1>3, <1>7, <1>11, DropFirst, OtherCallsAre, NoneAhead
  <2>2. Detaching("none", 1, 1)'
    BY <1>7, <1>10, <1>11, <2>1 DEF Detaching, Tearing
  <2> QED
    BY <1>8, <1>10, <2>2 DEF Stage
<1>12. CASE verb = "recover"
  <2>1. h'.todo = Ahead("none", 1) \o Drop(RecoverCalls, 1)
    BY <1>3, <1>7, <1>12, DropFirst, OtherCallsAre, NoneAhead
  <2>2. Recovering("none", 1, 1)'
    BY <1>7, <1>10, <1>12, <2>1 DEF Recovering, Tearing
  <2> QED
    BY <1>8, <1>10, <2>2 DEF Stage
<1>13. CASE verb = "cleanup"
  BY <1>3, <1>7, <1>13, DropFirst, OtherCallsAre, <1>8 DEF Cleaning, Stage
<1>14. CASE verb = "grow"
  BY <1>3, <1>4, <1>7, <1>8, <1>14 DEF Growing, Stage
<1>15. CASE verb = "verify"
  BY <1>3, <1>7, <1>15, DropFirst, OtherCallsAre, <1>8 DEF Verifying, Stage
<1> QED
  BY <1>9, <1>11, <1>12, <1>13, <1>14, <1>15 DEF Verb

-----------------------------------------------------------------------------
(* The next call at each stage. *)

AttachCall == {"prior", "priorClear", "allocate", "free", "before", "publish", "connect", "nonce",
               "bsize", "preflight", "intend", "inactive", "vgchange", "mapped", "capture", "prove",
               "unmounted", "blkid", "mount", "device", "writeSentinel", "identity", "done"}
InsertedCall == {"umount", "vgoff", "nonce", "intended", "off", "force", "dmremove", "forced",
                 "disconnect", "recIntended", "absent"}
ConfirmCall == {"confirm", "absent", "retire", "done"}
VerifyCall == {"record", "proved", "nonce", "complete", "probe", "sentinel", "done"}

(* The next call of an attach. *)
LEMMA AttachingHead ==
  ASSUME NEW n \in 1..38, Attaching(n)
  PROVE  Head(h.todo) = AttachCalls[n] /\ Tail(h.todo) = Drop(AttachCalls, n + 1)
         /\ Head(h.todo) \in AttachCall
<1>1. h.todo = Drop(AttachCalls, n)
  BY DEF Attaching
<1>2. Head(h.todo) = AttachCalls[n] /\ Tail(h.todo) = Drop(AttachCalls, n + 1)
  <2>1. AttachCalls \in Seq(Call) /\ n \in 1..Len(AttachCalls)
    BY AttachCallsAre
  <2> QED
    BY <1>1, <2>1, DropIs
<1>3. AttachCalls[n] \in AttachCall
  BY DEF AttachCalls, AttachCall
<1> QED
  BY <1>2, <1>3

(* The next call of a verification. *)
LEMMA VerifyingHead ==
  ASSUME NEW n \in 1..14, Verifying(n)
  PROVE  Head(h.todo) = VerifyCalls[n] /\ Tail(h.todo) = Drop(VerifyCalls, n + 1)
         /\ Head(h.todo) \in VerifyCall
<1>1. h.todo = Drop(VerifyCalls, n)
  BY DEF Verifying
<1>2. Head(h.todo) = VerifyCalls[n] /\ Tail(h.todo) = Drop(VerifyCalls, n + 1)
  <2>1. VerifyCalls \in Seq(Call) /\ n \in 1..Len(VerifyCalls)
    BY OtherCallsAre
  <2> QED
    BY <1>1, <2>1, DropIs
<1>3. VerifyCalls[n] \in VerifyCall
  BY DEF VerifyCalls, VerifyCall
<1> QED
  BY <1>2, <1>3

(* The next call of the end of a recovery. *)
LEMMA ConfirmingHead ==
  ASSUME NEW n \in 1..4, Confirming(n)
  PROVE  Head(h.todo) = ConfirmCalls[n] /\ Tail(h.todo) = Drop(ConfirmCalls, n + 1)
         /\ Head(h.todo) \in ConfirmCall
<1>1. h.todo = Drop(ConfirmCalls, n)
  BY DEF Confirming
<1>2. Head(h.todo) = ConfirmCalls[n] /\ Tail(h.todo) = Drop(ConfirmCalls, n + 1)
  <2>1. ConfirmCalls \in Seq(Call) /\ n \in 1..Len(ConfirmCalls)
    BY OtherCallsAre
  <2> QED
    BY <1>1, <2>1, DropIs
<1>3. ConfirmCalls[n] \in ConfirmCall
  BY DEF ConfirmCalls, ConfirmCall
<1> QED
  BY <1>2, <1>3

(* The next call of a cleanup. *)
LEMMA CleaningHead ==
  ASSUME Cleaning
  PROVE  \/ Head(h.todo) = "anyRecord" /\ Tail(h.todo) = Drop(CleanupCalls, 2) /\ h.rec = NoRecord
         \/ Head(h.todo) = "which"
         \/ Head(h.todo) = "done" /\ rec[h.vol] = NoRecord /\ h.rec = NoRecord
<1>1. CleanupCalls \in Seq(Call) /\ 1 \in 1..Len(CleanupCalls) /\ 2 \in 1..Len(CleanupCalls)
  BY OtherCallsAre
<1>2. CleanupCalls[1] = "anyRecord" /\ CleanupCalls[2] = "which"
  BY DEF CleanupCalls
<1>3. CASE h.todo = Drop(CleanupCalls, 1) /\ h.rec = NoRecord
  BY <1>1, <1>3, DropIs, <1>2
<1>4. CASE h.todo = Drop(CleanupCalls, 2)
  BY <1>1, <1>4, DropIs, <1>2
<1>5. CASE h.todo = <<"done">> /\ rec[h.vol] = NoRecord /\ h.rec = NoRecord
  BY <1>5
<1> QED
  BY <1>3, <1>4, <1>5 DEF Cleaning

(* The calls that a step may put first. *)
LEMMA PartsAre ==
  ASSUME NEW t \in Part
  PROVE  /\ PartCalls(t) \in Seq(Call)
         /\ t = "none" => Len(PartCalls(t)) = 0
         /\ t = "umount" => Len(PartCalls(t)) = 1 /\ PartCalls(t)[1] = "umount"
         /\ t = "vgoff" => Len(PartCalls(t)) = 1 /\ PartCalls(t)[1] = "vgoff"
         /\ t = "intent" => Len(PartCalls(t)) = 4 /\ PartCalls(t) = IntentCalls
         /\ t = "force" => Len(PartCalls(t)) = 7 /\ PartCalls(t) = ForceCalls
         /\ t = "unplug" => Len(PartCalls(t)) = 2 /\ PartCalls(t) = UnplugCalls
         /\ t = "decide" => Len(PartCalls(t)) = 3 /\ PartCalls(t) = DecideCalls
         /\ t # "none" => Len(PartCalls(t)) \in 1..7
<1>1. CASE t = "none"
  BY <1>1 DEF PartCalls
<1>2. CASE t = "umount"
  BY <1>2 DEF PartCalls, Call
<1>3. CASE t = "vgoff"
  BY <1>3 DEF PartCalls, Call
<1>4. CASE t = "intent"
  BY <1>4, InsertedAre DEF PartCalls
<1>5. CASE t = "force"
  BY <1>5, InsertedAre DEF PartCalls
<1>6. CASE t = "unplug"
  BY <1>6, InsertedAre DEF PartCalls
<1>7. CASE t = "decide"
  BY <1>7, InsertedAre DEF PartCalls
<1> QED
  BY <1>1, <1>2, <1>3, <1>4, <1>5, <1>6, <1>7 DEF Part

(* The first of the calls that were put first. *)
PartHead(t, m) == PartCalls(t)[m]

(* Which call it is. *)
LEMMA PartHeads ==
  ASSUME NEW t \in Part, t # "none", NEW m \in 1..Len(PartCalls(t))
  PROVE  /\ PartHead(t, m) \in InsertedCall
         /\ PartHead(t, m) = "umount" => t = "umount" /\ m = 1
         /\ PartHead(t, m) = "vgoff" => t = "vgoff" /\ m = 1
         /\ PartHead(t, m) = "intended" => t = "intent" /\ m = 2
         /\ PartHead(t, m) = "off" => (t = "intent" /\ m = 4) \/ (t = "decide" /\ m = 3)
         /\ PartHead(t, m) = "force" => t = "force" /\ m \in {2, 4}
         /\ PartHead(t, m) = "dmremove" => t = "force" /\ m = 5
         /\ PartHead(t, m) = "forced" => t = "force" /\ m = 7
         /\ PartHead(t, m) = "disconnect" => t = "unplug" /\ m = 2
         /\ PartHead(t, m) = "recIntended" => t = "decide" /\ m = 1
         /\ PartHead(t, m) = "absent" => t = "decide" /\ m = 2
         /\ PartHead(t, m) = "nonce" => \/ t = "intent" /\ m \in {1, 3}
                                        \/ t = "force" /\ m \in {1, 3, 6}
                                        \/ t = "unplug" /\ m = 1
<1>1. CASE t \in {"umount", "vgoff"}
  BY <1>1, PartsAre DEF PartHead, InsertedCall
<1>2. CASE t = "intent"
  BY <1>2, PartsAre DEF PartHead, IntentCalls, InsertedCall
<1>3. CASE t = "force"
  <2>1. m \in 1..7 /\ PartHead(t, m) = ForceCalls[m]
    BY <1>3, PartsAre DEF PartHead
  <2> QED
    BY <1>3, <2>1 DEF ForceCalls, InsertedCall
<1>4. CASE t = "unplug"
  BY <1>4, PartsAre DEF PartHead, UnplugCalls, InsertedCall
<1>5. CASE t = "decide"
  BY <1>5, PartsAre DEF PartHead, DecideCalls, InsertedCall
<1> QED
  BY <1>1, <1>2, <1>3, <1>4, <1>5 DEF Part

-----------------------------------------------------------------------------
(* The call that each step makes. *)

(* The calls of an attach and its rollback. *)
LEMMA AttachStepCalls ==
  /\ Prior => At("prior")
  /\ PriorClear => At("priorClear")
  /\ Allocate => At("allocate")
  /\ NoDevice => At("allocate")
  /\ DeviceFree => At("free")
  /\ Before => At("before")
  /\ Publish => At("publish")
  /\ Connect => At("connect")
  /\ SetBlockSize => At("bsize")
  /\ Preflight => At("preflight")
  /\ EnsureInactive => At("inactive")
  /\ Intend => At("intend")
  /\ VgChange => At("vgchange")
  /\ Mapped => At("mapped")
  /\ Capture => At("capture")
  /\ Prove => At("prove")
  /\ Unmounted => At("unmounted")
  /\ Blkid => At("blkid")
  /\ Mount => At("mount")
  /\ MountDevice => At("device")
  /\ WriteSentinel => At("writeSentinel")
  /\ MountIdentity => At("identity")
  /\ RbObserve => At("rbObserve")
  /\ RbIdentity => At("rbIdentity")
  /\ RbBackend => At("rbBackend")
  /\ RbGone => At("gone")
  /\ RbRetire => At("rbRetire")
<1>1. Prior => At("prior")
  BY DEF Prior, Ask
<1>2. PriorClear => At("priorClear")
  BY DEF PriorClear, Look
<1>3. Allocate => At("allocate")
  BY DEF Allocate
<1>4. NoDevice => At("allocate")
  BY DEF NoDevice
<1>5. DeviceFree => At("free")
  BY DEF DeviceFree, Ask
<1>6. Before => At("before")
  BY DEF Before, Look
<1>7. Publish => At("publish")
  BY DEF Publish, Write
<1>8. Connect => At("connect")
  BY DEF Connect, Run
<1>9. SetBlockSize => At("bsize")
  BY DEF SetBlockSize, Ask
<1>10. Preflight => At("preflight")
  BY DEF Preflight, Look
<1>11. EnsureInactive => At("inactive")
  BY DEF EnsureInactive, Look
<1>12. Intend => At("intend")
  BY DEF Intend, Write
<1>13. VgChange => At("vgchange")
  BY DEF VgChange
<1>14. Mapped => At("mapped")
  BY DEF Mapped, Look
<1>15. Capture => At("capture")
  BY DEF Capture
<1>16. Prove => At("prove")
  BY DEF Prove, Write
<1>17. Unmounted => At("unmounted")
  BY DEF Unmounted, Look
<1>18. Blkid => At("blkid")
  BY DEF Blkid, Ask
<1>19. Mount => At("mount")
  BY DEF Mount, Run
<1>20. MountDevice => At("device")
  BY DEF MountDevice, Look
<1>21. WriteSentinel => At("writeSentinel")
  BY DEF WriteSentinel, Look
<1>22. MountIdentity => At("identity")
  BY DEF MountIdentity, Look
<1>23. RbObserve => At("rbObserve")
  BY DEF RbObserve, Observed
<1>24. RbIdentity => At("rbIdentity")
  BY DEF RbIdentity
<1>25. RbBackend => At("rbBackend")
  BY DEF RbBackend
<1>26. RbGone => At("gone")
  BY DEF RbGone, Ask
<1>27. RbRetire => At("rbRetire")
  BY DEF RbRetire
<1> QED
  BY <1>1, <1>2, <1>3, <1>4, <1>5, <1>6, <1>7, <1>8, <1>9, <1>10, <1>11, <1>12, <1>13, <1>14, <1>15, <1>16, <1>17, <1>18, <1>19, <1>20, <1>21, <1>22, <1>23, <1>24, <1>25, <1>26, <1>27

(* The calls of a teardown. *)
LEMMA TeardownStepCalls ==
  /\ RunUmount => At("umount")
  /\ RunOff => At("off")
  /\ RunDisconnect => At("disconnect")
  /\ RunVgOff => At("vgoff")
  /\ VgOffFails => At("vgoff")
  /\ AskBackend => At("backend")
  /\ State => At("state")
  /\ NeedUmount => At("needUmount")
  /\ NeedDeactivate => At("needDeactivate")
  /\ NeedDisconnect => At("needDisconnect")
  /\ Intended => At("intended")
  /\ ForceTarget => At("force")
  /\ DmRemove => At("dmremove")
  /\ Forced => At("forced")
  /\ AbsentBackend => At("absent")
  /\ Disconnected => At("disconnected")
  /\ Decide => At("decide")
  /\ RecIntended => At("recIntended")
  /\ Confirm => At("confirm")
  /\ Retire("retire") => At("retire")
  /\ AnyRecord => At("anyRecord")
  /\ Which => At("which")
<1>1. RunUmount => At("umount")
  BY DEF RunUmount, Run
<1>2. RunOff => At("off")
  BY DEF RunOff, Run, VgUnreadable
<1>3. RunDisconnect => At("disconnect")
  BY DEF RunDisconnect, Run
<1>4. RunVgOff => At("vgoff")
  BY DEF RunVgOff, Run
<1>5. VgOffFails => At("vgoff")
  BY DEF VgOffFails
<1>6. AskBackend => At("backend")
  BY DEF AskBackend
<1>7. State => At("state")
  BY DEF State, Look
<1>8. NeedUmount => At("needUmount")
  BY DEF NeedUmount, Needed
<1>9. NeedDeactivate => At("needDeactivate")
  BY DEF NeedDeactivate, Needed
<1>10. NeedDisconnect => At("needDisconnect")
  BY DEF NeedDisconnect, Needed
<1>11. Intended => At("intended")
  BY DEF Intended, Look
<1>12. ForceTarget => At("force")
  BY DEF ForceTarget
<1>13. DmRemove => At("dmremove")
  BY DEF DmRemove, Run
<1>14. Forced => At("forced")
  BY DEF Forced, Look
<1>15. AbsentBackend => At("absent")
  BY DEF AbsentBackend, Ask
<1>16. Disconnected => At("disconnected")
  BY DEF Disconnected, Observed
<1>17. Decide => At("decide")
  BY DEF Decide
<1>18. RecIntended => At("recIntended")
  BY DEF RecIntended, Look
<1>19. Confirm => At("confirm")
  BY DEF Confirm, Look
<1>20. Retire("retire") => At("retire")
  BY DEF Retire, Write
<1>21. AnyRecord => At("anyRecord")
  BY DEF AnyRecord
<1>22. Which => At("which")
  BY DEF Which
<1> QED
  BY <1>1, <1>2, <1>3, <1>4, <1>5, <1>6, <1>7, <1>8, <1>9, <1>10, <1>11, <1>12, <1>13, <1>14, <1>15, <1>16, <1>17, <1>18, <1>19, <1>20, <1>21, <1>22

(* The other calls. *)
LEMMA OtherStepCalls ==
  /\ ReadRecord => At("record")
  /\ VerifyConnection => At("nonce")
  /\ Done => At("done")
  /\ Live => At("live")
  /\ LvSize => At("size")
  /\ LvExtend => At("extend")
  /\ XfsGrowfs => At("growfs")
  /\ Proved => At("proved")
  /\ MountComplete => At("complete")
  /\ FsProbe => At("probe")
  /\ Sentinel => At("sentinel")
  BY DEF ReadRecord, VerifyConnection, Ask, Done, Live, Look, LvSize, LvExtend, XfsGrowfs, Proved,
     MountComplete, FsProbe, Sentinel


-----------------------------------------------------------------------------
(* The next call at the other stages. *)

(* Nothing is left after the last call. *)
LEMMA DropEnd == ASSUME NEW S, NEW s \in Seq(S), NEW n, n = Len(s) + 1 PROVE Drop(s, n) = << >>
  BY SubSeqEmpty DEF Drop

(* The calls that are left of a sequence are calls. *)
LEMMA DropCalls ==
  ASSUME NEW s \in Seq(Call), NEW n \in 1..(Len(s) + 1)
  PROVE  Drop(s, n) \in Seq(Call)
<1>1. CASE n = Len(s) + 1
  <2>1. Drop(s, n) = << >>
    BY <1>1, DropEnd
  <2> QED
    BY <2>1
<1>2. CASE n # Len(s) + 1
  BY <1>2, DropIs
<1> QED
  BY <1>1, <1>2

(* The calls that were put first, and those that follow. *)
LEMMA PartTail ==
  ASSUME NEW t \in Part, t # "none", NEW m \in 1..Len(PartCalls(t)), NEW s \in Seq(Call),
         h.todo = Ahead(t, m) \o s
  PROVE  /\ Head(h.todo) = PartHead(t, m)
         /\ m < Len(PartCalls(t)) => Tail(h.todo) = Ahead(t, m + 1) \o s
         /\ m = Len(PartCalls(t)) => Tail(h.todo) = Ahead("none", 1) \o s
<1>1. PICK p \in Seq(Call) : p = PartCalls(t)
  BY PartsAre
<1>2. PICK q : q = Drop(p, m)
  OBVIOUS
<1>3. q \in Seq(Call) /\ q # << >> /\ Head(q) = p[m] /\ Tail(q) = Drop(p, m + 1)
  BY <1>1, <1>2, DropIs
<1>4. h.todo = q \o s
  BY <1>1, <1>2 DEF Ahead
<1>5. Head(h.todo) = p[m] /\ Tail(h.todo) = Drop(p, m + 1) \o s
  <2>1. Head(q \o s) = Head(q) /\ Tail(q \o s) = Tail(q) \o s
    <3>1. \A x, y \in Seq(Call) : x # << >> => Head(x \o y) = Head(x) /\ Tail(x \o y) = Tail(x) \o y
      BY HeadOfBoth
    <3> QED
      BY <1>3, <3>1, Zenon
  <2> QED
    BY <1>3, <1>4, <2>1, Zenon
<1>6. m = Len(p) => Drop(p, m + 1) = << >>
  BY <1>1, DropEnd
<1> QED
  BY <1>1, <1>5, <1>6, NoneInserted DEF Ahead, PartHead

(* The next call of a rollback that observes. *)
LEMMA RbLoopHead ==
  ASSUME NEW n \in 1..3, RbLoop(n)
  PROVE  Head(h.todo) = Rollback[n] /\ Tail(h.todo) = Drop(Rollback, n + 1)
<1>1. h.todo = Drop(Rollback, n)
  BY DEF RbLoop
<1>2. Rollback \in Seq(Call) /\ n \in 1..Len(Rollback)
  BY OtherCallsAre
<1> QED
  BY <1>1, <1>2, DropIs

(* The next call of a rollback that disconnects. *)
LEMMA RbUnplugHead ==
  ASSUME NEW n \in 1..3, RbUnplug(n)
  PROVE  Head(h.todo) = RbUnplugCalls[n] /\ Tail(h.todo) = Drop(RbUnplugCalls, n + 1)
<1>1. h.todo = Drop(RbUnplugCalls, n)
  BY DEF RbUnplug
<1>2. RbUnplugCalls \in Seq(Call) /\ n \in 1..Len(RbUnplugCalls)
  BY OtherCallsAre
<1> QED
  BY <1>1, <1>2, DropIs

(* The next call of a rollback that takes a layer down. *)
LEMMA RbPartHead ==
  /\ RbUmount => Head(h.todo) = "umount" /\ Tail(h.todo) = Rollback
  /\ RbOff(1) => Head(h.todo) = "nonce" /\ Tail(h.todo) = Drop(RbOffCalls, 2) \o Rollback
  /\ RbOff(2) => Head(h.todo) = "off" /\ Tail(h.todo) = Rollback
<1>1. Rollback \in Seq(Call) /\ RbOffCalls \in Seq(Call) /\ Len(RbOffCalls) = 2
  BY OtherCallsAre
<1>2. PICK p : p = <<"umount">>
  OBVIOUS
<1>3. p \in Seq(Call) /\ p # << >> /\ Head(p) = "umount" /\ Tail(p) = << >>
  BY <1>2 DEF Call
<1>4. << >> \o Rollback = Rollback
  BY <1>1, ConcatEmptySeq
<1>5. RbUmount => Head(h.todo) = "umount" /\ Tail(h.todo) = Rollback
  BY <1>1, <1>2, <1>3, <1>4, HeadOfBoth DEF RbUmount
<1>6. ASSUME NEW m \in 1..2, RbOff(m)
      PROVE  Head(h.todo) = RbOffCalls[m] /\ Tail(h.todo) = Drop(RbOffCalls, m + 1) \o Rollback
  <2>1. PICK q : q = Drop(RbOffCalls, m)
    OBVIOUS
  <2>2. m \in 1..Len(RbOffCalls)
    BY <1>1
  <2>3. q \in Seq(Call) /\ q # << >> /\ Head(q) = RbOffCalls[m] /\ Tail(q) = Drop(RbOffCalls, m + 1)
    BY <1>1, <2>1, <2>2, DropIs
  <2>4. h.todo = q \o Rollback
    BY <1>6, <2>1 DEF RbOff
  <2>5. Head(q \o Rollback) = Head(q) /\ Tail(q \o Rollback) = Tail(q) \o Rollback
    BY <1>1, <2>3, HeadOfBoth
  <2> QED
    BY <2>3, <2>4, <2>5, Zenon
<1>7. RbOffCalls[1] = "nonce" /\ RbOffCalls[2] = "off"
  BY DEF RbOffCalls
<1>8. Drop(RbOffCalls, 2 + 1) = << >>
  BY <1>1, DropEnd
<1>9. RbOff(1) => Head(h.todo) = "nonce" /\ Tail(h.todo) = Drop(RbOffCalls, 2) \o Rollback
  <2>1. SUFFICES ASSUME RbOff(1) PROVE Head(h.todo) = "nonce" /\ Tail(h.todo) = Drop(RbOffCalls, 2) \o Rollback
    OBVIOUS
  <2>2. 1 \in 1..2 /\ 1 + 1 = 2
    OBVIOUS
  <2>3. Head(h.todo) = RbOffCalls[1] /\ Tail(h.todo) = Drop(RbOffCalls, 1 + 1) \o Rollback
    BY <1>6, <2>1, <2>2, Zenon
  <2> QED
    BY <1>7, <2>2, <2>3, Zenon
<1>10. RbOff(2) => Head(h.todo) = "off" /\ Tail(h.todo) = Rollback
  <2>1. SUFFICES ASSUME RbOff(2) PROVE Head(h.todo) = "off" /\ Tail(h.todo) = Rollback
    OBVIOUS
  <2>2. Head(h.todo) = RbOffCalls[2] /\ Tail(h.todo) = Drop(RbOffCalls, 2 + 1) \o Rollback
    BY <1>6, <2>1
  <2> QED
    BY <1>4, <1>7, <1>8, <2>2, Zenon
<1> QED
  BY <1>5, <1>9, <1>10

(* The next call of a detach. *)
LEMMA DetachingHead ==
  ASSUME NEW t \in Part, NEW m \in 1..7, NEW n \in 1..11, Detaching(t, m, n)
  PROVE  /\ t = "none" => Head(h.todo) = DetachCalls[n] /\ Tail(h.todo) = Ahead("none", 1) \o Drop(DetachCalls, n + 1)
         /\ t # "none" => /\ m \in 1..Len(PartCalls(t))
                          /\ Head(h.todo) = PartHead(t, m)
                          /\ m < Len(PartCalls(t)) => Tail(h.todo) = Ahead(t, m + 1) \o Drop(DetachCalls, n)
                          /\ m = Len(PartCalls(t)) => Tail(h.todo) = Ahead("none", 1) \o Drop(DetachCalls, n)
<1>1. DetachCalls \in Seq(Call) /\ n \in 1..Len(DetachCalls) /\ n + 1 \in 1..(Len(DetachCalls) + 1)
  BY OtherCallsAre
<1>2. h.todo = Ahead(t, m) \o Drop(DetachCalls, n) /\ InsertedAt(t, m)
  BY DEF Detaching
<1>3. Drop(DetachCalls, n) \in Seq(Call) /\ Drop(DetachCalls, n + 1) \in Seq(Call)
  BY <1>1, DropIs, DropCalls
<1>4. CASE t = "none"
  <2>1. h.todo = Drop(DetachCalls, n)
    BY <1>2, <1>3, <1>4, NoneAhead DEF InsertedAt
  <2>2. Head(h.todo) = DetachCalls[n] /\ Tail(h.todo) = Drop(DetachCalls, n + 1)
    BY <1>1, <2>1, DropIs
  <2> QED
    BY <1>3, <1>4, <2>2, NoneAhead
<1>5. CASE t # "none"
  BY <1>2, <1>5, <1>3, PartTail DEF InsertedAt
<1> QED
  BY <1>4, <1>5

(* The next call of a recovery. *)
LEMMA RecoveringHead ==
  ASSUME NEW t \in Part, NEW m \in 1..7, NEW n \in 1..5, Recovering(t, m, n)
  PROVE  /\ t = "none" => Head(h.todo) = RecoverCalls[n] /\ Tail(h.todo) = Ahead("none", 1) \o Drop(RecoverCalls, n + 1)
         /\ t # "none" => /\ m \in 1..Len(PartCalls(t))
                          /\ Head(h.todo) = PartHead(t, m)
                          /\ m < Len(PartCalls(t)) => Tail(h.todo) = Ahead(t, m + 1) \o Drop(RecoverCalls, n)
                          /\ m = Len(PartCalls(t)) => Tail(h.todo) = Ahead("none", 1) \o Drop(RecoverCalls, n)
<1>1. RecoverCalls \in Seq(Call) /\ n \in 1..Len(RecoverCalls) /\ n + 1 \in 1..(Len(RecoverCalls) + 1)
  BY OtherCallsAre
<1>2. h.todo = Ahead(t, m) \o Drop(RecoverCalls, n) /\ InsertedAt(t, m)
  BY DEF Recovering
<1>3. Drop(RecoverCalls, n) \in Seq(Call) /\ Drop(RecoverCalls, n + 1) \in Seq(Call)
  BY <1>1, DropIs, DropCalls
<1>4. CASE t = "none"
  <2>1. h.todo = Drop(RecoverCalls, n)
    BY <1>2, <1>3, <1>4, NoneAhead DEF InsertedAt
  <2>2. Head(h.todo) = RecoverCalls[n] /\ Tail(h.todo) = Drop(RecoverCalls, n + 1)
    BY <1>1, <2>1, DropIs
  <2> QED
    BY <1>3, <1>4, <2>2, NoneAhead
<1>5. CASE t # "none"
  BY <1>2, <1>5, <1>3, PartTail DEF InsertedAt
<1> QED
  BY <1>4, <1>5

(* Where an attach makes each of its calls. *)
LEMMA AttachPlaces ==
  ASSUME NEW n \in 1..38
  PROVE  /\ AttachCalls[n] = "prior" => n = 1
         /\ AttachCalls[n] = "priorClear" => n = 2
         /\ AttachCalls[n] = "allocate" => n = 3
         /\ AttachCalls[n] = "free" => n = 4
         /\ AttachCalls[n] = "before" => n = 5
         /\ AttachCalls[n] = "publish" => n = 6
         /\ AttachCalls[n] = "connect" => n = 7
         /\ AttachCalls[n] = "nonce" => n \in {8, 10, 12, 14, 17, 19, 22, 24, 26, 28, 30, 31, 33}
         /\ AttachCalls[n] = "bsize" => n = 9
         /\ AttachCalls[n] = "preflight" => n \in {11, 15}
         /\ AttachCalls[n] = "intend" => n = 13
         /\ AttachCalls[n] = "inactive" => n = 16
         /\ AttachCalls[n] = "vgchange" => n = 18
         /\ AttachCalls[n] = "mapped" => n = 20
         /\ AttachCalls[n] = "capture" => n = 21
         /\ AttachCalls[n] = "prove" => n = 23
         /\ AttachCalls[n] = "unmounted" => n \in {25, 29, 32}
         /\ AttachCalls[n] = "blkid" => n = 27
         /\ AttachCalls[n] = "mount" => n = 34
         /\ AttachCalls[n] = "device" => n = 35
         /\ AttachCalls[n] = "writeSentinel" => n = 36
         /\ AttachCalls[n] = "identity" => n = 37
         /\ AttachCalls[n] = "done" => n = 38
         /\ AttachCalls[n] \in {"prior", "priorClear", "allocate", "free", "before", "publish", "connect",
            "nonce", "bsize", "preflight", "intend", "inactive", "vgchange", "mapped",
            "capture", "prove", "unmounted", "blkid", "mount", "device", "writeSentinel",
            "identity", "done"}
  BY DEF AttachCalls

(* Where a rollback observes. *)
LEMMA RbPlaces ==
  ASSUME NEW n \in 1..3
  PROVE  /\ Rollback[n] = "rbObserve" => n = 1
         /\ Rollback[n] = "rbIdentity" => n = 2
         /\ Rollback[n] = "rbBackend" => n = 3
         /\ Rollback[n] \in {"rbObserve", "rbIdentity", "rbBackend"}
  BY DEF Rollback

(* Where a rollback disconnects. *)
LEMMA RbUnplugPlaces ==
  ASSUME NEW n \in 1..3
  PROVE  /\ RbUnplugCalls[n] = "disconnect" => n = 1
         /\ RbUnplugCalls[n] = "gone" => n = 2
         /\ RbUnplugCalls[n] = "rbRetire" => n = 3
         /\ RbUnplugCalls[n] \in {"disconnect", "gone", "rbRetire"}
  BY DEF RbUnplugCalls

(* Where a detach makes each of its calls. *)
LEMMA DetachPlaces ==
  ASSUME NEW n \in 1..11
  PROVE  /\ DetachCalls[n] = "record" => n = 1
         /\ DetachCalls[n] = "backend" => n \in {2, 4, 6, 8}
         /\ DetachCalls[n] = "state" => n = 3
         /\ DetachCalls[n] = "needUmount" => n = 5
         /\ DetachCalls[n] = "needDeactivate" => n = 7
         /\ DetachCalls[n] = "needDisconnect" => n = 9
         /\ DetachCalls[n] = "retire" => n = 10
         /\ DetachCalls[n] = "done" => n = 11
         /\ DetachCalls[n] \in {"record", "backend", "state", "needUmount", "needDeactivate", "needDisconnect", "retire",
            "done"}
  BY DEF DetachCalls

(* Where a recovery makes each of its calls. *)
LEMMA RecoverPlaces ==
  ASSUME NEW n \in 1..5
  PROVE  /\ RecoverCalls[n] = "record" => n = 1
         /\ RecoverCalls[n] = "absent" => n \in {2, 4}
         /\ RecoverCalls[n] = "disconnected" => n = 3
         /\ RecoverCalls[n] = "decide" => n = 5
         /\ RecoverCalls[n] \in {"record", "absent", "disconnected", "decide"}
  BY DEF RecoverCalls

(* Where the end of a recovery makes each of its calls. *)
LEMMA ConfirmPlaces ==
  ASSUME NEW n \in 1..4
  PROVE  /\ ConfirmCalls[n] = "confirm" => n = 1
         /\ ConfirmCalls[n] = "absent" => n = 2
         /\ ConfirmCalls[n] = "retire" => n = 3
         /\ ConfirmCalls[n] = "done" => n = 4
         /\ ConfirmCalls[n] \in {"confirm", "absent", "retire", "done"}
  BY DEF ConfirmCalls

(* Where a verification makes each of its calls. *)
LEMMA VerifyPlaces ==
  ASSUME NEW n \in 1..14
  PROVE  /\ VerifyCalls[n] = "record" => n = 1
         /\ VerifyCalls[n] = "proved" => n = 2
         /\ VerifyCalls[n] = "nonce" => n \in {3, 5, 7, 9, 11, 13}
         /\ VerifyCalls[n] = "complete" => n \in {4, 8, 12}
         /\ VerifyCalls[n] = "probe" => n = 6
         /\ VerifyCalls[n] = "sentinel" => n = 10
         /\ VerifyCalls[n] = "done" => n = 14
         /\ VerifyCalls[n] \in {"record", "proved", "nonce", "complete", "probe", "sentinel", "done"}
  BY DEF VerifyCalls


-----------------------------------------------------------------------------
(* The steps that a helper can take at each stage. *)

(* A step of the helper makes its next call. *)
Steps(c) ==
    \/ c = "prior" /\ Prior
    \/ c = "priorClear" /\ PriorClear
    \/ c = "allocate" /\ Allocate
    \/ c = "allocate" /\ NoDevice
    \/ c = "free" /\ DeviceFree
    \/ c = "before" /\ Before
    \/ c = "publish" /\ Publish
    \/ c = "connect" /\ Connect
    \/ c = "bsize" /\ SetBlockSize
    \/ c = "preflight" /\ Preflight
    \/ c = "inactive" /\ EnsureInactive
    \/ c = "intend" /\ Intend
    \/ c = "vgchange" /\ VgChange
    \/ c = "mapped" /\ Mapped
    \/ c = "capture" /\ Capture
    \/ c = "prove" /\ Prove
    \/ c = "unmounted" /\ Unmounted
    \/ c = "blkid" /\ Blkid
    \/ c = "mount" /\ Mount
    \/ c = "device" /\ MountDevice
    \/ c = "writeSentinel" /\ WriteSentinel
    \/ c = "identity" /\ MountIdentity
    \/ c = "rbObserve" /\ RbObserve
    \/ c = "rbIdentity" /\ RbIdentity
    \/ c = "rbBackend" /\ RbBackend
    \/ c = "gone" /\ RbGone
    \/ c = "rbRetire" /\ RbRetire
    \/ c = "umount" /\ RunUmount
    \/ c = "off" /\ RunOff
    \/ c = "disconnect" /\ RunDisconnect
    \/ c = "vgoff" /\ RunVgOff
    \/ c = "vgoff" /\ VgOffFails
    \/ c = "backend" /\ AskBackend
    \/ c = "state" /\ State
    \/ c = "needUmount" /\ NeedUmount
    \/ c = "needDeactivate" /\ NeedDeactivate
    \/ c = "needDisconnect" /\ NeedDisconnect
    \/ c = "intended" /\ Intended
    \/ c = "force" /\ ForceTarget
    \/ c = "dmremove" /\ DmRemove
    \/ c = "forced" /\ Forced
    \/ c = "absent" /\ AbsentBackend
    \/ c = "disconnected" /\ Disconnected
    \/ c = "decide" /\ Decide
    \/ c = "recIntended" /\ RecIntended
    \/ c = "confirm" /\ Confirm
    \/ c = "retire" /\ Retire("retire")
    \/ c = "anyRecord" /\ AnyRecord
    \/ c = "which" /\ Which
    \/ c = "record" /\ ReadRecord
    \/ c = "nonce" /\ VerifyConnection
    \/ c = "done" /\ Done
    \/ c = "live" /\ Live
    \/ c = "size" /\ LvSize
    \/ c = "extend" /\ LvExtend
    \/ c = "growfs" /\ XfsGrowfs
    \/ c = "proved" /\ Proved
    \/ c = "complete" /\ MountComplete
    \/ c = "probe" /\ FsProbe
    \/ c = "sentinel" /\ Sentinel

(* Every step is one of them. *)
LEMMA StepIs == ASSUME HelperStep PROVE h.todo # << >> /\ Steps(Head(h.todo))
  BY AttachStepCalls, TeardownStepCalls, OtherStepCalls DEF At, AttachStep, Steps, TeardownStep, HelperStep

(* The steps of an attach. *)
LEMMA AttachingSteps ==
  ASSUME HelperStep, NEW n \in 1..38, Attaching(n)
  PROVE  \/ n = 1 /\ Prior
         \/ n = 2 /\ PriorClear
         \/ n = 3 /\ Allocate
         \/ n = 3 /\ NoDevice
         \/ n = 4 /\ DeviceFree
         \/ n = 5 /\ Before
         \/ n = 6 /\ Publish
         \/ n = 7 /\ Connect
         \/ n \in {8, 10, 12, 14, 17, 19, 22, 24, 26, 28, 30, 31, 33} /\ VerifyConnection
         \/ n = 9 /\ SetBlockSize
         \/ n \in {11, 15} /\ Preflight
         \/ n = 13 /\ Intend
         \/ n = 16 /\ EnsureInactive
         \/ n = 18 /\ VgChange
         \/ n = 20 /\ Mapped
         \/ n = 21 /\ Capture
         \/ n = 23 /\ Prove
         \/ n \in {25, 29, 32} /\ Unmounted
         \/ n = 27 /\ Blkid
         \/ n = 34 /\ Mount
         \/ n = 35 /\ MountDevice
         \/ n = 36 /\ WriteSentinel
         \/ n = 37 /\ MountIdentity
         \/ n = 38 /\ Done
<1>1. PICK c : c = Head(h.todo)
  OBVIOUS
<1>2. Steps(c)
  BY <1>1, StepIs
<1>3. c = AttachCalls[n]
  BY <1>1, AttachingHead
<1> QED
  BY <1>2, <1>3, AttachPlaces DEF Steps

(* The steps of a rollback that observes. *)
LEMMA RbLoopSteps ==
  ASSUME HelperStep, NEW n \in 1..3, RbLoop(n)
  PROVE  \/ n = 1 /\ RbObserve
         \/ n = 2 /\ RbIdentity
         \/ n = 3 /\ RbBackend
  BY StepIs, RbLoopHead, RbPlaces DEF Steps

(* The steps of a rollback that disconnects. *)
LEMMA RbUnplugSteps ==
  ASSUME HelperStep, NEW n \in 1..3, RbUnplug(n)
  PROVE  \/ n = 1 /\ RunDisconnect
         \/ n = 2 /\ RbGone
         \/ n = 3 /\ RbRetire
  BY StepIs, RbUnplugHead, RbUnplugPlaces DEF Steps

(* The steps of a rollback that takes a layer down. *)
LEMMA RbPartSteps ==
  ASSUME HelperStep
  PROVE  /\ RbUmount => RunUmount
         /\ RbOff(1) => VerifyConnection
         /\ RbOff(2) => RunOff
  BY StepIs, RbPartHead DEF Steps

(* The steps of a detach. *)
LEMMA DetachingSteps ==
  ASSUME HelperStep, NEW n \in 1..11, NEW m \in 1..7, Detaching("none", m, n)
  PROVE  \/ n = 1 /\ ReadRecord
         \/ n \in {2, 4, 6, 8} /\ AskBackend
         \/ n = 3 /\ State
         \/ n = 5 /\ NeedUmount
         \/ n = 7 /\ NeedDeactivate
         \/ n = 9 /\ NeedDisconnect
         \/ n = 10 /\ Retire("retire")
         \/ n = 11 /\ Done
<1>1. PICK c : c = Head(h.todo)
  OBVIOUS
<1>2. Steps(c)
  BY <1>1, StepIs
<1>3. c = DetachCalls[n]
  BY <1>1, DetachingHead, NoneInserted
<1> QED
  BY <1>2, <1>3, DetachPlaces DEF Steps

(* The steps of a recovery. *)
LEMMA RecoveringSteps ==
  ASSUME HelperStep, NEW n \in 1..5, NEW m \in 1..7, Recovering("none", m, n)
  PROVE  \/ n = 1 /\ ReadRecord
         \/ n \in {2, 4} /\ AbsentBackend
         \/ n = 3 /\ Disconnected
         \/ n = 5 /\ Decide
<1>1. PICK c : c = Head(h.todo)
  OBVIOUS
<1>2. Steps(c)
  BY <1>1, StepIs
<1>3. c = RecoverCalls[n]
  BY <1>1, RecoveringHead, NoneInserted
<1> QED
  BY <1>2, <1>3, RecoverPlaces DEF Steps

(* The steps of the end of a recovery. *)
LEMMA ConfirmingSteps ==
  ASSUME HelperStep, NEW n \in 1..4, Confirming(n)
  PROVE  \/ n = 1 /\ Confirm
         \/ n = 2 /\ AbsentBackend
         \/ n = 3 /\ Retire("retire")
         \/ n = 4 /\ Done
  BY StepIs, ConfirmingHead, ConfirmPlaces DEF Steps

(* The steps of a verification. *)
LEMMA VerifyingSteps ==
  ASSUME HelperStep, NEW n \in 1..14, Verifying(n)
  PROVE  \/ n = 1 /\ ReadRecord
         \/ n = 2 /\ Proved
         \/ n \in {3, 5, 7, 9, 11, 13} /\ VerifyConnection
         \/ n \in {4, 8, 12} /\ MountComplete
         \/ n = 6 /\ FsProbe
         \/ n = 10 /\ Sentinel
         \/ n = 14 /\ Done
<1>1. PICK c : c = Head(h.todo)
  OBVIOUS
<1>2. Steps(c)
  BY <1>1, StepIs
<1>3. c = VerifyCalls[n]
  BY <1>1, VerifyingHead
<1> QED
  BY <1>2, <1>3, VerifyPlaces DEF Steps

(* The steps that were put first. *)
LEMMA PartSteps ==
  ASSUME HelperStep, NEW t \in Part, t # "none", NEW m \in 1..Len(PartCalls(t)),
         Head(h.todo) = PartHead(t, m)
  PROVE  \/ t = "umount" /\ m = 1 /\ RunUmount
         \/ t = "vgoff" /\ m = 1 /\ RunVgOff
         \/ t = "vgoff" /\ m = 1 /\ VgOffFails
         \/ t = "intent" /\ m \in {1, 3} /\ VerifyConnection
         \/ t = "intent" /\ m = 2 /\ Intended
         \/ t = "intent" /\ m = 4 /\ RunOff
         \/ t = "force" /\ m \in {1, 3, 6} /\ VerifyConnection
         \/ t = "force" /\ m \in {2, 4} /\ ForceTarget
         \/ t = "force" /\ m = 5 /\ DmRemove
         \/ t = "force" /\ m = 7 /\ Forced
         \/ t = "unplug" /\ m = 1 /\ VerifyConnection
         \/ t = "unplug" /\ m = 2 /\ RunDisconnect
         \/ t = "decide" /\ m = 1 /\ RecIntended
         \/ t = "decide" /\ m = 2 /\ AbsentBackend
         \/ t = "decide" /\ m = 3 /\ RunOff
  BY StepIs, PartHeads DEF Steps, InsertedCall

(* The steps of a cleanup. *)
LEMMA CleaningSteps ==
  ASSUME HelperStep, Cleaning
  PROVE  \/ AnyRecord /\ Tail(h.todo) = Drop(CleanupCalls, 2) /\ h.rec = NoRecord
         \/ Which
         \/ Done
  BY StepIs, CleaningHead DEF Steps

(* The steps of a grow. *)
LEMMA GrowingSteps ==
  ASSUME HelperStep, Growing
  PROVE  /\ ReadRecord \/ AskBackend \/ Live \/ LvSize \/ LvExtend \/ XfsGrowfs \/ Done
         /\ h.todo # << >> /\ Head(h.todo) \in GrowCall /\ Tail(h.todo) \in Seq(GrowCall)
  BY StepIs, HeadTailProperties DEF Growing, Steps, GrowCall

-----------------------------------------------------------------------------
(* What a step leaves in order. *)

Kept == NoOrphan' /\ OpenedActive' /\ RecordsOwn' /\ LooseUsed' /\ LateLoose'

(* The counters stay in their bounds, and no nonce is given back. *)
Counted ==
    nonce' \in 0..MaxConn /\ nonce <= nonce' /\ env' \in 0..MaxEnv /\ faults' \in 0..MaxFaults

(* Commands that were left before stay on the list. *)
LEMMA LooseKept ==
  ASSUME AInv, Counted, k'.loose = k.loose, \A c \in k'.late : c \in k.late \/ c.call \notin Builds
  PROVE  LooseUsed' /\ LateLoose'
<1>1. k \in Kernel /\ nonce \in 0..MaxConn
  BY NoOrphanIs, TypeIs DEF AInv
<1>2. ASSUME NEW c \in k.loose PROVE c.rec.nonce <= nonce'
  <2>1. c \in LateCommand /\ c.rec.nonce <= nonce
    BY <1>1 DEF Kernel, AInv, LooseUsed
  <2>2. c.rec.nonce \in 1..MaxConn
    BY <2>1, LateFields, RecordFields
  <2> QED
    BY <1>1, <2>1, <2>2, AttachAssumption DEF Counted
<1> QED
  BY <1>2 DEF AInv, LooseUsed, LateLoose

(* A step that yields keeps every record's subject. *)
LEMMA YieldsKept ==
  ASSUME AInv, Yields, rec' = rec, Counted
  PROVE  Kept
<1>1. AttachTypeOK /\ Traced /\ OpenedActive /\ RecordsOwn /\ k \in Kernel
  BY NoOrphanIs, TypeIs DEF AInv
<1>2. Traced' /\ OpenedActive'
  BY <1>1, YieldsTraced, YieldsOpened
<1>3. AttachTypeOK'
  BY <1>1 DEF AttachTypeOK, Yields, Counted, Kernel, Backend, Mapping
<1>4. NoOrphan'
  BY <1>2, <1>3 DEF NoOrphan, Traced, Recorded
<1>5. RecordsOwn'
  BY <1>1 DEF RecordsOwn, OwnProof
<1>6. LooseUsed' /\ LateLoose'
  BY LooseKept DEF Yields, YieldLate
<1> QED
  BY <1>2, <1>4, <1>5, <1>6 DEF Kept

(* A command that builds something is left running. *)
LEMMA LeftKept ==
  ASSUME AInv, h.rec \in TrustedRecord, h.rec.nonce <= nonce, Head(h.todo) \in Command, NEW b \in BOOLEAN,
         k' = LeftRunning(b), rec' = rec, Counted
  PROVE  Kept
<1>1. AttachTypeOK /\ Traced /\ OpenedActive /\ RecordsOwn /\ k \in Kernel /\ nonce \in 0..MaxConn
  BY NoOrphanIs, TypeIs DEF AInv
<1>2. PICK c \in LateCommand :
           /\ c.call = Head(h.todo) /\ c.rec = h.rec
           /\ k' \in Kernel /\ k'.late = k.late \cup {c} /\ k'.holder = k.holder
           /\ k'.loose = IF c.call \in Builds THEN k.loose \cup {c} ELSE k.loose
           /\ k'.backend = k.backend /\ k'.map = k.map /\ k'.mnt = k.mnt
  BY <1>1, LeftIs, Zenon
<1>3. AttachTypeOK'
  BY <1>1, <1>2 DEF AttachTypeOK, Counted, Kernel, Backend, Mapping
<1>4. k.loose \subseteq k'.loose
  BY <1>2
<1>5. Traced'
  BY <1>1, <1>2, <1>4 DEF Traced, StrayConnect, StrayMap
<1>6. NoOrphan'
  BY <1>3, <1>5 DEF NoOrphan, Traced, Recorded
<1>7. OpenedActive' /\ RecordsOwn'
  BY <1>1, <1>2 DEF OpenedActive, Opened, RecordsOwn, OwnProof
<1>8. ASSUME NEW e \in k'.loose PROVE e.rec.nonce <= nonce'
  <2>1. e \in LateCommand /\ e.rec.nonce <= nonce
    BY <1>1, <1>2 DEF Kernel, AInv, LooseUsed
  <2>2. e.rec.nonce \in 1..MaxConn
    BY <2>1, LateFields, RecordFields
  <2> QED
    BY <1>1, <2>1, <2>2, AttachAssumption DEF Counted
<1>9. LateLoose'
  BY <1>2 DEF AInv, LateLoose
<1> QED
  BY <1>6, <1>7, <1>8, <1>9 DEF Kept, LooseUsed

(* A step that changes neither the kernel nor a record. *)
LEMMA QuietKept ==
  ASSUME AInv, k' = k, rec' = rec, Counted
  PROVE  Kept
<1>1. k \in Kernel
  BY NoOrphanIs, TypeIs DEF AInv
<1> QED
  BY <1>1, SameYields, YieldsKept

(* Every step is counted. *)
LEMMA SameCounted ==
  ASSUME AttachTypeOK, nonce' = nonce, env' = env, faults' \in 0..MaxFaults
  PROVE  Counted
  BY AttachAssumption DEF AttachTypeOK, Counted

(* A write of the record of a volume. *)
LEMMA WriteKept ==
  ASSUME AInv, k' = k, NEW v \in Vol, NEW r \in {NoRecord} \cup TrustedRecord,
         rec' = [rec EXCEPT ![v] = r], Counted, OwnProof(r),
         \/ rec[v] = NoRecord \/ Gone(k, rec[v])
         \/ /\ r # NoRecord /\ SameConnection(r, rec[v])
            /\ ~Unmapped(k, r) => r.intent \/ r.proof = OwnMap(r)
  PROVE  Kept
<1>1. AttachTypeOK /\ Traced /\ OpenedActive /\ RecordsOwn
  BY NoOrphanIs DEF AInv
<1>2. k \in Kernel /\ rec \in [Vol -> {NoRecord} \cup TrustedRecord]
  BY <1>1, TypeIs
<1>3. rec' \in [Vol -> {NoRecord} \cup TrustedRecord] /\ rec'[v] = r
      /\ \A w \in Vol : w # v => rec'[w] = rec[w]
  BY <1>2
<1>4. AttachTypeOK'
  BY <1>1, <1>3 DEF AttachTypeOK, Counted
<1>5. ASSUME NEW d \in Dev, k.backend[d] > 0
      PROVE  \/ \E w \in Vol : rec'[w] # NoRecord /\ rec'[w].nonce = k.backend[d] /\ rec'[w].dev = d
             \/ StrayConnect(k, k.backend[d])
  BY <1>1, <1>5, <1>3 DEF Traced, Gone, Down, Connected, SameConnection
<1>6. ASSUME NEW a \in Att, k.map[a].own
      PROVE  \/ \E w \in Vol : /\ rec'[w] # NoRecord /\ rec'[w].att = a /\ rec'[w].dev = k.map[a].dev
                               /\ rec'[w].intent \/ rec'[w].proof = k.map[a]
             \/ StrayMap(k, a, k.map[a].dev)
  <2> SUFFICES ASSUME ~StrayMap(k, a, k.map[a].dev)
               PROVE  \E w \in Vol : /\ rec'[w] # NoRecord /\ rec'[w].att = a /\ rec'[w].dev = k.map[a].dev
                                     /\ rec'[w].intent \/ rec'[w].proof = k.map[a]
    OBVIOUS
  <2>1. PICK w \in Vol : /\ rec[w] # NoRecord /\ rec[w].att = a /\ rec[w].dev = k.map[a].dev
                         /\ rec[w].intent \/ rec[w].proof = k.map[a]
    BY <1>1, <1>6 DEF Traced
  <2>2. CASE w # v
    BY <1>3, <2>1, <2>2
  <2>3. CASE w = v
    <3>1. k.map[a] \in Mapping /\ NoMap.own = FALSE
      BY <1>2, NoMapIs DEF Kernel
    <3>2. k.map[a] = [dev |-> rec[v].dev, own |-> TRUE]
      BY <1>6, <2>1, <2>3, <3>1 DEF Mapping
    <3>3. ~Gone(k, rec[v])
      BY <2>1, <2>3, <3>2 DEF Gone, Unmapped, OwnMap
    <3>4. r # NoRecord /\ SameConnection(r, rec[v]) /\ (~Unmapped(k, r) => r.intent \/ r.proof = OwnMap(r))
      BY <2>1, <2>3, <3>3
    <3>5. r.att = a /\ r.dev = rec[v].dev /\ k.map[a] = OwnMap(r)
      BY <2>1, <2>3, <3>2, <3>4 DEF SameConnection, OwnMap
    <3>6. r.intent \/ r.proof = k.map[a]
      BY <2>1, <2>3, <3>4, <3>5 DEF Unmapped
    <3> QED
      BY <1>3, <2>1, <2>3, <3>4, <3>5, <3>6
  <2> QED
    BY <2>2, <2>3
<1>7. NoOrphan'
  BY <1>4, <1>5, <1>6 DEF NoOrphan, Recorded
<1>8. OpenedActive'
  BY <1>1 DEF OpenedActive, Opened
<1>9. RecordsOwn'
  BY <1>1, <1>3 DEF RecordsOwn, OwnProof
<1> QED
  BY <1>7, <1>8, <1>9, LooseKept DEF Kept

-----------------------------------------------------------------------------
(* The steps of an attach. *)

(* A helper that goes on is typed. *)
LEMMA GoesTyped == ASSUME NEW calls, NEW K, Goes(calls, K) PROVE HelperTyped'
  BY DEF Goes, HelperTyped

(* A call that only looks. *)
LEMMA AttachingOn ==
  ASSUME NEW n \in 1..38, Attaching(n), n \notin {3, 6, 7, 13, 18, 21, 23, 34, 38},
         NEW K, Moved(Tail(h.todo), K), k' = k, rec' = rec, nonce' = nonce,
         n = 1 => rec[h.vol] = NoRecord \/ Down(k, rec[h.vol]),
         n = 2 => rec[h.vol] = NoRecord \/ Unmapped(k, rec[h.vol]),
         n = 20 => Clean(k, h.rec),
         n = 22 => Connected(k, h.rec),
         n = 37 => h'.whole \/ ~FsPinned[h.vol] \/ StrayMount(k, h.rec.att)
  PROVE  Attaching(n + 1)'
<1>1. Tail(h.todo) = Drop(AttachCalls, n + 1)
  BY AttachingHead
<1>2. /\ h'.todo = Drop(AttachCalls, n + 1) /\ h'.vol = h.vol /\ h'.att = h.att /\ h'.rec = h.rec
      /\ h'.verb = h.verb /\ h'.made = h.made /\ h'.back = h.back /\ (h.whole => h'.whole)
  BY <1>1 DEF Moved, Goes
<1>3. n + 1 \in 1..38
  OBVIOUS
<1>4. n = 22 => ~Down(k, h.rec)
  BY DEF Attaching, Down, Tight
<1> QED
  BY <1>2, <1>3, <1>4 DEF Attaching, Named


(* The state that a step leaves. *)
Fine == HelperTyped' /\ Stage' /\ Kept

(* A failed call that changed nothing. *)
LEMMA FailedFine ==
  ASSUME AInv, h # Idle, h' = Failed, k' = k, rec' = rec, Counted
  PROVE  Fine
  BY QuietKept, FailedKeeps DEF AInv, Fine

(* A call of an attach that only looks. *)
LEMMA AttachingLooks ==
  ASSUME AInv, h # Idle, NEW n \in 1..38, Attaching(n), n \notin {3, 6, 7, 13, 18, 21, 23, 34, 38},
         k' = k, rec' = rec, nonce' = nonce, env' = env, faults' = faults, NEW K,
         Moved(Tail(h.todo), K) \/ h' = Failed,
         Moved(Tail(h.todo), K) =>
           /\ n = 1 => rec[h.vol] = NoRecord \/ Down(k, rec[h.vol])
           /\ n = 2 => rec[h.vol] = NoRecord \/ Unmapped(k, rec[h.vol])
           /\ n = 20 => Clean(k, h.rec)
           /\ n = 22 => Connected(k, h.rec)
           /\ n = 37 => h'.whole \/ ~FsPinned[h.vol] \/ StrayMount(k, h.rec.att)
  PROVE  Fine
  BY NoOrphanIs, FailedFine, AttachingOn, GoesTyped, QuietKept DEF AInv, AttachTypeOK, Counted, Stage,
     Moved, Fine

(* The connection is asked for. *)
LEMMA AttachingNonce ==
  ASSUME AInv, h # Idle, NEW n \in 1..38, Attaching(n), VerifyConnection,
         n \notin {1, 2, 3, 6, 7, 13, 18, 20, 21, 23, 34, 37, 38}
  PROVE  Fine
  BY AskMoves, NoOrphanIs, FailedFine, AttachingLooks DEF AInv, VerifyConnection, AttachTypeOK, Counted


(* What the helper concludes from what it sees. *)
LEMMA SeenFacts ==
  ASSUME NEW r \in TrustedRecord
  PROVE  /\ k.backend[r.dev] = Absent => Down(k, r)
         /\ ~Active(k, r) => Unmapped(k, r)
         /\ Active(k, r) /\ Verified(k, r) => Clean(k, r)
  BY RecordFields, NoMapIs DEF Absent, Down, Connected, Active, Unmapped, OwnMap, Verified, Clean

(* The stack is whole where the filesystem is mounted on the connection. *)
LEMMA MountedWhole ==
  ASSUME NEW ker \in Kernel, NEW r \in TrustedRecord, Connected(ker, r), Mounted(ker, r), Backed(ker, r),
         Clean(ker, r), Tight(ker, r)
  PROVE  Whole(ker, r)
<1>1. ker.map[r.att] \in Mapping /\ r.dev \in Dev
  BY RecordFields DEF Kernel
<1>2. ker.map[r.att] \in [dev : Dev \cup {Outside}, own : BOOLEAN] /\ ker.map[r.att].dev = r.dev
  BY <1>1, NoMapIs DEF Mapping, Backed
<1>3. ker.map[r.att] # [dev |-> r.dev, own |-> FALSE]
  BY DEF Clean, Down, Tight
<1> QED
  BY <1>2, <1>3 DEF Whole

(* A call of an attach whose answer no later call relies on. *)
LEMMA AttachingPlain ==
  ASSUME AInv, h # Idle, NEW n \in 1..38, Attaching(n),
         n \notin {1, 2, 3, 6, 7, 13, 18, 20, 21, 22, 23, 34, 37, 38},
         NEW c, NEW good, Ask(c, good) \/ Look(c, good)
  PROVE  Fine
  BY AskMoves, AttachingLooks, LookMoves DEF AInv

(* An earlier record is asked for and looked at. *)
LEMMA AttachingPrior ==
  ASSUME AInv, h # Idle, NEW n \in 1..2, Attaching(n), n = 1 => Prior, n = 2 => PriorClear
  PROVE  Fine
<1>1. HelperTyped /\ AttachTypeOK
  BY NoOrphanIs DEF AInv
<1>2. h \in Helper /\ rec \in [Vol -> {NoRecord} \cup TrustedRecord]
  BY <1>1, TypeIs DEF HelperTyped
<1>3. rec[h.vol] \in {NoRecord} \cup TrustedRecord
  BY <1>2, HelperFields
<1>4. PICK r \in {NoRecord} \cup TrustedRecord : r = rec[h.vol]
  BY <1>3
<1>5. CASE n = 1
  <2>1. /\ k' = k /\ rec' = rec /\ nonce' = nonce /\ env' = env /\ faults' = faults
        /\ \/ (r # NoRecord => k.backend[r.dev] = Absent) /\ Moved(Tail(h.todo), {"backend"})
           \/ h' = Failed
    BY <1>1, <1>4, <1>5, AskMoves DEF Prior
  <2>2. (r # NoRecord => k.backend[r.dev] = Absent) => r = NoRecord \/ Down(k, r)
    BY SeenFacts
  <2>3. Moved(Tail(h.todo), {"backend"}) => h' = Failed \/ rec[h.vol] = NoRecord \/ Down(k, rec[h.vol])
    BY <1>4, <2>1, <2>2
  <2>4. CASE h' = Failed
    BY <2>1, <2>4, <1>1, FailedFine DEF AttachTypeOK, Counted
  <2>5. CASE h' # Failed
    BY <1>5, <2>1, <2>3, <2>5, AttachingLooks
  <2> QED
    BY <2>4, <2>5
<1>6. CASE n = 2
  <2>1. /\ k' = k /\ rec' = rec /\ nonce' = nonce /\ env' = env /\ faults' = faults
        /\ \/ (r # NoRecord => Observable(k, r) /\ Clear(k, r)) /\ Moved(Tail(h.todo), {"map", "mnt", "holder"})
           \/ h' = Failed
    BY <1>1, <1>4, <1>6, LookMoves DEF PriorClear
  <2>2. (r # NoRecord => Observable(k, r) /\ Clear(k, r)) => r = NoRecord \/ Unmapped(k, r)
    BY SeenFacts DEF Clear
  <2>3. Moved(Tail(h.todo), {"map", "mnt", "holder"}) => h' = Failed \/ rec[h.vol] = NoRecord \/ Unmapped(k, rec[h.vol])
    BY <1>4, <2>1, <2>2
  <2>4. CASE h' = Failed
    BY <2>1, <2>4, <1>1, FailedFine DEF AttachTypeOK, Counted
  <2>5. CASE h' # Failed
    BY <1>6, <2>1, <2>3, <2>5, AttachingLooks
  <2> QED
    BY <2>4, <2>5
<1> QED
  BY <1>5, <1>6

(* The activated mapping is verified, and the mounted filesystem. *)
LEMMA AttachingVerified ==
  ASSUME AInv, h # Idle, NEW n \in {20, 37}, Attaching(n), n = 20 => Mapped, n = 37 => MountIdentity
  PROVE  Fine
<1>1. HelperTyped /\ AttachTypeOK
  BY NoOrphanIs DEF AInv
<1>2. h \in Helper /\ h.rec # NoRecord /\ n \in 1..38
  BY <1>1 DEF HelperTyped, Attaching
<1>3. PICK r \in TrustedRecord : r = h.rec
  BY <1>2, HelperFields
<1>4. CASE n = 20
  <2>1. /\ k' = k /\ rec' = rec /\ nonce' = nonce /\ env' = env /\ faults' = faults
        /\ \/ Active(k, r) /\ Verified(k, r) /\ Moved(Tail(h.todo), {"map", "mnt", "holder"})
           \/ h' = Failed
    BY <1>1, <1>3, <1>4, LookMoves DEF Mapped
  <2>2. Active(k, r) /\ Verified(k, r) => Clean(k, r)
    BY SeenFacts
  <2>4. CASE h' = Failed
    BY <2>1, <2>4, <1>1, FailedFine DEF AttachTypeOK, Counted
  <2>5. CASE h' # Failed
    BY <1>2, <1>3, <1>4, <2>1, <2>2, <2>5, AttachingLooks
  <2> QED
    BY <2>4, <2>5
<1>5. CASE n = 37
  <2>1. /\ k' = k /\ rec' = rec /\ nonce' = nonce /\ env' = env /\ faults' = faults
        /\ \/ /\ Mounted(k, r) /\ Backed(k, r) /\ Moved(Tail(h.todo), {"map", "mnt", "holder"})
              /\ FsPinned[h.vol] => Genuine(k, r) \/ Connected(k, r)
           \/ h' = Failed
    BY <1>1, <1>3, <1>5, LookMoves DEF MountIdentity
  <2>2. CASE h' = Failed
    BY <2>1, <2>2, <1>1, FailedFine, SameCounted DEF AttachTypeOK
  <2>3. CASE h' # Failed
    <3>1. /\ Mounted(k, r) /\ Backed(k, r) /\ Moved(Tail(h.todo), {"map", "mnt", "holder"})
          /\ FsPinned[h.vol] => Genuine(k, r) \/ Connected(k, r)
      BY <2>1, <2>3
    <3>2. Clean(k, r) /\ Tight(k, r) /\ (Shown(k, r) => h.whole)
      BY <1>3, <1>5 DEF Attaching
    <3>3. h'.whole <=> h.whole \/ Whole(k, r)
      BY <1>2, <1>3, <2>1, <3>1 DEF Moved, Goes
    <3>4. Connected(k, r) => Whole(k, r)
      BY <1>1, <3>1, <3>2, TypeIs, MountedWhole
    <3>5. Genuine(k, r) => h.whole \/ StrayMount(k, r.att)
      BY <3>1, <3>2 DEF Genuine, Shown
    <3>6. h'.whole \/ ~FsPinned[h.vol] \/ StrayMount(k, h.rec.att)
      BY <1>3, <3>1, <3>3, <3>4, <3>5
    <3> QED
      BY <1>2, <1>5, <2>1, <3>1, <3>6, AttachingLooks
  <2> QED
    BY <2>2, <2>3
<1> QED
  BY <1>4, <1>5


(* A nonempty set of naturals has a least member. *)
LEMMA LeastNumber ==
  ASSUME NEW T \in SUBSET Nat, T # {}
  PROVE  Min(T) \in T
<1> DEFINE R == OpToRel(<, Nat)
<1>1. IsWellFoundedOn(R, Nat)
  BY NatLessThanWellFounded
<1>2. PICK x \in T : \A y \in T : ~(<<y, x>> \in R)
  BY <1>1, WFMin
<1>3. \A y \in T : ~(y < x)
  BY <1>2 DEF OpToRel
<1>4. \E z \in T : \A y \in T : z =< y
  BY <1>3
<1> QED
  BY <1>4 DEF Min

(* The helper with another record. *)
WithRecord(g, r) == [g EXCEPT !.rec = r]

(* Its fields. *)
LEMMA HelperWith ==
  ASSUME NEW g \in Helper, NEW r \in {NoRecord} \cup TrustedRecord, NEW f, f = WithRecord(g, r)
  PROVE  /\ f \in Helper /\ f.todo = g.todo /\ f.vol = g.vol /\ f.att = g.att /\ f.rec = r
         /\ f.verb = g.verb /\ f.conn = g.conn /\ f.obs = g.obs /\ f.tried = g.tried
         /\ f.made = g.made /\ f.back = g.back /\ f.stale = g.stale /\ f.whole = g.whole
  BY DEF Helper, WithRecord

(* The helper goes on with another record. *)
LEMMA RecordGoes ==
  ASSUME h \in Helper, NEW g \in Helper, NEW r \in {NoRecord} \cup TrustedRecord, NEW K,
         NEW calls \in Seq(Call), g.vol = h.vol, g.att = h.att, g.verb = h.verb, g.tried = h.tried,
         g.back = h.back, g.stale = h.stale \ K, g.whole = h.whole, g.made = h.made,
         g.conn = h.conn, g.obs = h.obs,
         h' = After(k', calls, WithRecord(g, r))
  PROVE  Goes(calls, K) /\ h'.rec = r /\ h'.made = h.made /\ h'.conn = h.conn /\ h'.obs = h.obs
  BY HelperWith, AfterIs DEF Goes

(* The calls of an attach that are left. *)
LEMMA AttachLeft ==
  ASSUME h # Idle, HelperTyped, NEW n \in 1..38, Attaching(n)
  PROVE  h \in Helper /\ Tail(h.todo) = Drop(AttachCalls, n + 1) /\ Tail(h.todo) \in Seq(Call)
<1>1. Tail(h.todo) = Drop(AttachCalls, n + 1)
  BY AttachingHead
<1>2. AttachCalls \in Seq(Call) /\ n + 1 \in 1..(Len(AttachCalls) + 1)
  BY AttachCallsAre
<1> QED
  BY <1>1, <1>2, DropCalls DEF HelperTyped

(* A device is allocated. *)
LEMMA AttachingAllocate ==
  ASSUME AInv, h # Idle, Attaching(3), Allocate
  PROVE  Fine
<1>1. HelperTyped /\ AttachTypeOK
  BY NoOrphanIs DEF AInv
<1>2. h \in Helper /\ Tail(h.todo) = Drop(AttachCalls, 4) /\ Tail(h.todo) \in Seq(Call)
  BY <1>1, AttachLeft
<1>3. h.vol \in Vol /\ h.att \in Att
  BY <1>2, HelperFields
<1>4. nonce \in 0..MaxConn /\ nonce < MaxConn /\ MaxConn \in Nat
  BY <1>1, AttachAssumption DEF AttachTypeOK, Attaching
<1> DEFINE d == IF Pinned[h.vol] = AutoDevice THEN Allocated(k) ELSE Pinned[h.vol]
           r == [nonce |-> nonce + 1, dev |-> d, att |-> h.att, intent |-> FALSE, proof |-> NoMap]
<1>5. /\ Pinned[h.vol] = AutoDevice => FreeDevices(k) # {}
      /\ h' = After(k', Tail(h.todo), WithRecord(h, r))
      /\ nonce' = nonce + 1 /\ k' = k /\ rec' = rec /\ env' = env /\ faults' = faults
  BY DEF Allocate, On, To, WithRecord
<1>6. d \in Dev
  BY StackAssumption, <1>5, LeastNumber, <1>3, AttachAssumption DEF FreeDevices, Allocated
<1>7. r \in TrustedRecord /\ r.att = h.att /\ r.proof = NoMap
  BY <1>3, <1>4, <1>6 DEF TrustedRecord
<1>8. r # NoRecord
  BY <1>7, RecordFields
<1>9. h.stale = h.stale \ {}
  OBVIOUS
<1> HIDE DEF r, d
<1>10. Goes(Tail(h.todo), {}) /\ h'.rec = r /\ h'.made = h.made
  BY <1>2, <1>5, <1>7, <1>9, RecordGoes
<1>11. Attaching(4)'
  <2>1. r.nonce = nonce + 1 /\ r.nonce <= nonce'
    BY <1>4, <1>5 DEF r
  <2>2. Tight(k, r)
    <3>1. SUFFICES ASSUME NEW c \in k.loose PROVE c.rec.nonce # r.nonce
      BY DEF Tight, StrayConnect
    <3>2. c \in LateCommand /\ c.rec.nonce <= nonce
      BY <1>1, TypeIs DEF AInv, LooseUsed, Kernel
    <3>3. c.rec.nonce \in 1..MaxConn
      BY <3>2, LateFields, RecordFields
    <3> QED
      BY <1>4, <2>1, <3>2, <3>3
  <2> QED
    BY <1>2, <1>10, <1>5, <1>7, <1>8, <2>1, <2>2 DEF Attaching, Goes
<1>12. Stage'
  BY <1>11 DEF Stage
<1>13. Counted
  BY <1>1, <1>4, <1>5 DEF AttachTypeOK, Counted
<1>14. HelperTyped'
  BY <1>10, GoesTyped
<1> QED
  BY <1>5, <1>12, <1>13, <1>14, QuietKept DEF Fine

(* There is none. *)
LEMMA AttachingNoDevice ==
  ASSUME AInv, NoDevice
  PROVE  Fine
  BY NoOrphanIs, QuietKept DEF AInv, NoDevice, AttachTypeOK, Counted, Fine, HelperTyped, Stage


(* A write that failed, after it was done. *)
LEMMA FailedWrite ==
  ASSUME AInv, h # Idle, NEW r, rec' = [rec EXCEPT ![h.vol] = r], h' = Failed,
         h.made /\ ~h.back => h.verb = "attach" /\ r # NoRecord /\ h.rec # NoRecord /\ SameConnection(r, h.rec)
  PROVE  Stage' /\ HelperTyped'
  BY NoOrphanIs, TypeIs, HelperFields, FailedStage DEF AInv, HelperTyped

(* The record is published. *)
LEMMA AttachingPublish ==
  ASSUME AInv, h # Idle, Attaching(6), Publish
  PROVE  Fine
<1>1. HelperTyped /\ AttachTypeOK
  BY NoOrphanIs DEF AInv
<1>2. h \in Helper /\ Tail(h.todo) = Drop(AttachCalls, 7) /\ Tail(h.todo) \in Seq(Call)
  BY <1>1, AttachLeft
<1>3. /\ h.verb = "attach" /\ ~h.back /\ ~h.made
      /\ rec[h.vol] = NoRecord \/ Gone(k, rec[h.vol])
      /\ h.rec # NoRecord /\ h.rec.att = h.att /\ h.rec.proof = NoMap
      /\ h.rec.nonce <= nonce /\ Tight(k, h.rec)
  BY DEF Attaching, Gone
<1>4. PICK g : g = [h EXCEPT !.made = TRUE]
  OBVIOUS
<1>5. /\ g \in Helper /\ g.vol = h.vol /\ g.att = h.att /\ g.rec = h.rec /\ g.verb = h.verb
      /\ g.made = TRUE /\ g.back = h.back
  BY <1>2, <1>4 DEF Helper
<1>6. Write("publish", h.rec, g)
  BY <1>4 DEF Publish
<1>7. faults \in 0..MaxFaults
  BY <1>1 DEF AttachTypeOK
<1>8. /\ k' = k /\ nonce' = nonce /\ env' = env /\ faults' \in 0..MaxFaults
      /\ rec' = [rec EXCEPT ![h.vol] = h.rec]
      /\ h' = After(k', Tail(h.todo), g) \/ h' = Failed
  BY <1>1, <1>6, <1>7, WriteMoves
<1>9. Kept
  BY <1>2, HelperFields, <1>3, <1>1, <1>8, SameCounted, WriteKept DEF OwnProof
<1>10. rec'[h.vol] = h.rec
  BY <1>1, <1>2, <1>8, TypeIs, HelperFields
<1>11. CASE h' = Failed
  BY <1>3, <1>8, <1>9, <1>11, FailedWrite DEF Fine
<1>12. CASE h' = After(k', Tail(h.todo), g)
  <2>1. PICK e : e = h'
    OBVIOUS
  <2>2. /\ e \in Helper /\ e.todo = Tail(h.todo) /\ e.vol = g.vol /\ e.att = g.att /\ e.rec = g.rec
        /\ e.verb = g.verb /\ e.made = g.made /\ e.back = g.back
    <3>1. PICK calls \in Seq(Call) : calls = Tail(h.todo)
      BY <1>2
    <3>2. PICK w : w = k'
      OBVIOUS
    <3>3. e = After(w, calls, g) /\ g \in Helper
      BY <1>5, <1>12, <2>1, <3>1, <3>2
    <3>4. /\ e \in Helper /\ e.todo = calls /\ e.vol = g.vol /\ e.att = g.att /\ e.rec = g.rec
          /\ e.verb = g.verb /\ e.made = g.made /\ e.back = g.back
      BY <3>3, AfterIs
    <3> QED
      BY <3>1, <3>4
  <2>3. Attaching(7)'
    BY <1>2, <1>3, <1>5, <1>8, <1>10, <2>1, <2>2 DEF Attaching, Named, SameConnection
  <2> QED
    BY <1>9, <2>1, <2>2, <2>3 DEF Fine, Stage, HelperTyped
<1> QED
  BY <1>8, <1>11, <1>12

(* A command that adds to the kernel, and fails. *)
LEMMA FailedRun ==
  ASSUME AInv, h # Idle, rec' = rec, h' = Failed, Kept
  PROVE  Fine
  BY FailedKeeps DEF AInv, Fine

(* The device is connected. *)
LEMMA ConnectKept ==
  ASSUME AInv, h \in Helper, Named, k' = NbdConnect(k, h.rec), rec' = rec, Counted
  PROVE  Kept
<1>1. AttachTypeOK /\ Traced /\ OpenedActive /\ RecordsOwn
  BY NoOrphanIs DEF AInv
<1>2. k \in Kernel
  BY <1>1, TypeIs
<1>3. CASE k' = k
  BY <1>3, QuietKept
<1>4. CASE k' # k
  <2>1. k' = BackendTo(k, h.rec.dev, h.rec.nonce) /\ k.backend[h.rec.dev] = Absent
    BY <1>4 DEF NbdConnect, BackendTo
  <2>2. PICK r \in TrustedRecord : r = h.rec
    BY HelperFields DEF Named
  <2>3. r.dev \in Dev /\ r.nonce \in Backend
    BY RecordFields DEF Backend
  <2>4. PICK d \in Dev, x \in Backend : d = r.dev /\ x = r.nonce
    BY <2>3
  <2>5. PICK w : w = k'
    OBVIOUS
  <2>6. w = BackendTo(k, d, x)
    BY <2>1, <2>2, <2>4, <2>5
  <2>7. /\ w \in Kernel /\ w.backend = [k.backend EXCEPT ![d] = x]
        /\ w.map = k.map /\ w.mnt = k.mnt /\ w.holder = k.holder
        /\ w.late = k.late /\ w.loose = k.loose
    BY <1>2, <2>6, BackendSet
  <2>8. k.backend \in [Dev -> Backend]
    BY <1>2 DEF Kernel
  <2>9. rec \in [Vol -> {NoRecord} \cup TrustedRecord] /\ h.vol \in Vol
    BY <1>1, TypeIs, HelperFields
  <2>10. AttachTypeOK'
    BY <2>5, <2>7, <2>9 DEF AttachTypeOK, Counted, Kernel, Backend, Mapping
  <2>11. ASSUME NEW e \in Dev, k'.backend[e] > 0
         PROVE  \/ \E v \in Vol : rec'[v] # NoRecord /\ rec'[v].nonce = k'.backend[e] /\ rec'[v].dev = e
                \/ StrayConnect(k', k'.backend[e])
    <3>1. CASE e = d
      BY <2>4, <2>5, <2>7, <2>8, <2>2, <2>9, <3>1 DEF Named, SameConnection
    <3>2. CASE e # d
      BY <2>5, <2>7, <2>8, <1>1, <2>11, <3>2 DEF Traced, StrayConnect
    <3> QED
      BY <3>1, <3>2
  <2>12. Traced'
    BY <1>1, <2>5, <2>7, <2>11 DEF Traced, StrayMap
  <2>13. OpenedActive'
    BY <1>1, <2>5, <2>7 DEF OpenedActive, Opened
  <2>14. RecordsOwn'
    BY <1>1 DEF RecordsOwn, OwnProof
  <2>15. LooseUsed' /\ LateLoose'
    BY <2>5, <2>7, LooseKept
  <2> QED
    BY <2>10, <2>12, <2>13, <2>14, <2>15 DEF Kept, NoOrphan, Traced, Recorded
<1> QED
  BY <1>3, <1>4

(* A command of an attach is left running. *)
LEMMA AttachingLeaves ==
  ASSUME AInv, h # Idle, NEW n \in {7, 18, 34}, Attaching(n), k' = LeftRunning(FALSE), rec' = rec, Counted
  PROVE  Kept
<1>1. h \in Helper /\ h.rec # NoRecord /\ h.rec.nonce <= nonce /\ n \in 1..38
  BY DEF AInv, HelperTyped, Attaching
<1>2. h.rec \in TrustedRecord
  BY <1>1, HelperFields
<1>3. Head(h.todo) = AttachCalls[n]
  BY <1>1, AttachingHead
<1>4. Head(h.todo) \in Command
  BY <1>3 DEF AttachCalls, Command
<1> QED
  BY <1>1, <1>2, <1>4, LeftKept, Zenon

(* It is connected, or the attach fails. *)
LEMMA AttachingConnect ==
  ASSUME AInv, h # Idle, Attaching(7), Connect
  PROVE  Fine
<1>1. HelperTyped /\ AttachTypeOK /\ faults \in 0..MaxFaults
  BY NoOrphanIs DEF AInv, AttachTypeOK
<1>2. h \in Helper /\ Tail(h.todo) = Drop(AttachCalls, 8) /\ Tail(h.todo) \in Seq(Call)
  BY <1>1, AttachLeft
<1>3. /\ h.verb = "attach" /\ ~h.back /\ h.made /\ Named
      /\ h.rec.att = h.att /\ h.rec.proof = NoMap
  BY DEF Attaching
<1>4. PICK w : w = NbdConnect(k, h.rec)
  OBVIOUS
<1>5. Run("connect", w)
  BY <1>4 DEF Connect
<1>6. /\ rec' = rec /\ nonce' = nonce /\ env' = env /\ faults' \in 0..MaxFaults
      /\ \/ k' = w /\ w # k /\ Moved(Tail(h.todo), {})
         \/ k' \in {k, w, LeftRunning(FALSE)} /\ h' = Failed
  BY <1>1, <1>5, RunMoves, Zenon
<1>7. Counted
  BY <1>1, <1>6, SameCounted
<1>8. Kept
  <2>1. CASE k' = LeftRunning(FALSE)
    BY <1>6, <1>7, <2>1, AttachingLeaves, Zenon
  <2>2. CASE k' \in {k, w}
    BY <1>2, <1>3, <1>4, <1>6, <1>7, <2>2, ConnectKept, QuietKept
  <2> QED
    BY <1>6, <2>1, <2>2, Zenon
<1>9. CASE h' = Failed
  BY <1>6, <1>8, <1>9, FailedRun
<1>10. CASE k' = w /\ Moved(Tail(h.todo), {})
  <2>1. /\ h'.todo = Drop(AttachCalls, 8) /\ h'.vol = h.vol /\ h'.att = h.att /\ h'.rec = h.rec
        /\ h'.verb = h.verb /\ h'.made = h.made /\ h'.back = h.back
    BY <1>2, <1>10 DEF Moved, Goes
  <2>2. Tight(k', h.rec)
    <3>1. k \in Kernel /\ h.rec \in TrustedRecord
      BY <1>1, <1>2, <1>3, HelperFields, TypeIs DEF Named
    <3>2. PICK d \in Dev, x \in Backend : d = h.rec.dev /\ x = h.rec.nonce
      BY <3>1, RecordFields DEF Backend
    <3>3. w = k \/ w = BackendTo(k, d, x)
      BY <1>4, <3>2 DEF NbdConnect, BackendTo
    <3>4. ASSUME w = BackendTo(k, d, x)
          PROVE  /\ w \in Kernel /\ w.backend = [k.backend EXCEPT ![d] = x]
                 /\ w.map = k.map /\ w.mnt = k.mnt /\ w.holder = k.holder
                 /\ w.late = k.late /\ w.loose = k.loose
      BY <3>1, <3>4, BackendSet
    <3>5. w.loose = k.loose
      BY <3>3, <3>4
    <3> QED
      BY <1>10, <3>5 DEF Attaching, Tight, StrayConnect
  <2>4. Attaching(8)'
    BY <1>3, <1>6, <2>1, <2>2 DEF Attaching, Named
  <2>3. HelperTyped'
    BY <1>10, GoesTyped DEF Moved
  <2> QED
    BY <1>8, <2>4, <2>3 DEF Fine, Stage
<1> QED
  BY <1>6, <1>9, <1>10, Zenon


(* The intent to activate is recorded. *)
LEMMA AttachingIntend ==
  ASSUME AInv, h # Idle, Attaching(13), Intend
  PROVE  Fine
<1>1. HelperTyped /\ AttachTypeOK /\ faults \in 0..MaxFaults
  BY NoOrphanIs DEF AInv, AttachTypeOK
<1>2. h \in Helper /\ Tail(h.todo) = Drop(AttachCalls, 14) /\ Tail(h.todo) \in Seq(Call)
  BY <1>1, AttachLeft
<1>3. /\ h.verb = "attach" /\ ~h.back /\ h.made /\ Named
      /\ h.rec.att = h.att /\ h.rec.proof = NoMap /\ h.rec.nonce <= nonce /\ Tight(k, h.rec)
  BY DEF Attaching
<1>4. PICK r : r = [h.rec EXCEPT !.intent = TRUE]
  OBVIOUS
<1>5. h.rec \in TrustedRecord
  BY <1>2, <1>3, HelperFields DEF Named
<1>6. r \in TrustedRecord /\ r.intent /\ SameConnection(r, h.rec) /\ r.proof = NoMap
  BY <1>3, <1>4, <1>5 DEF TrustedRecord, SameConnection
<1>7. r # NoRecord
  BY <1>6, RecordFields
<1>8. PICK g : g = WithRecord(h, r)
  OBVIOUS
<1>9. Write("intend", r, g)
  BY <1>4, <1>8 DEF Intend, WithRecord
<1>10. /\ k' = k /\ nonce' = nonce /\ env' = env /\ faults' \in 0..MaxFaults
       /\ rec' = [rec EXCEPT ![h.vol] = r]
       /\ h' = After(k', Tail(h.todo), g) \/ h' = Failed
  BY <1>1, <1>9, WriteMoves
<1>11. Kept
  BY <1>2, HelperFields, <1>6, <1>1, <1>10, SameCounted, <1>3, <1>7, WriteKept DEF OwnProof, Named,
     SameConnection
<1>12. rec'[h.vol] = r
  BY <1>1, <1>2, <1>10, TypeIs, HelperFields
<1>13. CASE h' = Failed
  BY <1>3, <1>6, <1>7, <1>10, <1>11, <1>13, FailedWrite DEF Fine, Named
<1>14. CASE h' = After(k', Tail(h.todo), g)
  <2>1. h.stale = h.stale \ {}
    OBVIOUS
  <2>2. h' = After(k', Tail(h.todo), WithRecord(h, r)) /\ r \in {NoRecord} \cup TrustedRecord
    BY <1>6, <1>8, <1>14
  <2>3. Goes(Tail(h.todo), {}) /\ h'.rec = r /\ h'.made = h.made
    BY <1>2, <2>1, <2>2, RecordGoes
  <2>4. /\ h'.todo = Drop(AttachCalls, 14) /\ h'.vol = h.vol /\ h'.att = h.att
        /\ h'.verb = h.verb /\ h'.back = h.back
    BY <1>2, <2>3 DEF Goes
  <2>5. r.att = h.att /\ r.nonce <= nonce' /\ Tight(k', r)
    BY <1>3, <1>6, <1>10 DEF SameConnection, Tight
  <2>6. Attaching(14)'
    BY <1>3, <1>6, <1>7, <1>12, <2>3, <2>4, <2>5 DEF Attaching, Named, SameConnection
  <2>7. HelperTyped'
    BY <2>3, GoesTyped
  <2> QED
    BY <1>11, <2>6, <2>7 DEF Fine, Stage
<1> QED
  BY <1>10, <1>13, <1>14

(* The mapping is activated under the intent. *)
LEMMA ActivateKept ==
  ASSUME AInv, h \in Helper, Named, rec[h.vol].intent, k' = Activate(k, h.rec), rec' = rec, Counted
  PROVE  Kept
<1>1. AttachTypeOK /\ Traced /\ OpenedActive /\ RecordsOwn
  BY NoOrphanIs DEF AInv
<1>2. k \in Kernel
  BY <1>1, TypeIs
<1>3. CASE k' = k
  BY <1>3, QuietKept
<1>4. CASE k' # k
  <2>1. k' = MapTo(k, h.rec.att, OwnMap(h.rec))
    BY <1>4 DEF Activate, MapTo, OwnMap
  <2>2. PICK r \in TrustedRecord : r = h.rec
    BY HelperFields DEF Named
  <2>3. r.dev \in Dev /\ r.att \in Att
    BY RecordFields
  <2>4. OwnMap(r) \in Mapping /\ OwnMap(r).dev = r.dev /\ OwnMap(r) # NoMap
    BY <2>3, NoMapIs DEF OwnMap, Mapping
  <2>5. PICK a \in Att, x \in Mapping : a = r.att /\ x = OwnMap(r)
    BY <2>3, <2>4
  <2>6. PICK w : w = k'
    OBVIOUS
  <2>7. w = MapTo(k, a, x)
    BY <2>1, <2>2, <2>5, <2>6
  <2>8. /\ w \in Kernel /\ w.map = [k.map EXCEPT ![a] = x]
        /\ w.backend = k.backend /\ w.mnt = k.mnt /\ w.holder = k.holder
        /\ w.late = k.late /\ w.loose = k.loose
    BY <1>2, <2>7, MapSet
  <2>9. k.map \in [Att -> Mapping]
    BY <1>2 DEF Kernel
  <2>10. rec \in [Vol -> {NoRecord} \cup TrustedRecord] /\ h.vol \in Vol
    BY <1>1, TypeIs, HelperFields
  <2>11. AttachTypeOK'
    BY <2>6, <2>8, <2>10 DEF AttachTypeOK, Counted, Kernel, Backend, Mapping
  <2>12. ASSUME NEW e \in Att, k'.map[e].own
         PROVE  \/ \E v \in Vol : /\ rec'[v] # NoRecord /\ rec'[v].att = e /\ rec'[v].dev = k'.map[e].dev
                                  /\ rec'[v].intent \/ rec'[v].proof = k'.map[e]
                \/ StrayMap(k', e, k'.map[e].dev)
    <3>1. CASE e = a
      BY <2>4, <2>5, <2>6, <2>8, <2>9, <2>2, <2>10, <3>1 DEF Named, SameConnection
    <3>2. CASE e # a
      BY <2>6, <2>8, <2>9, <1>1, <2>12, <3>2 DEF Traced, StrayMap
    <3> QED
      BY <3>1, <3>2
  <2>13. Traced'
    BY <1>1, <2>6, <2>8, <2>12 DEF Traced, StrayConnect
  <2>14. OpenedActive'
    BY <1>1, <2>4, <2>5, <2>6, <2>8, <2>9 DEF OpenedActive, Opened
  <2>15. RecordsOwn'
    BY <1>1 DEF RecordsOwn, OwnProof
  <2>16. LooseUsed' /\ LateLoose'
    BY <2>6, <2>8, LooseKept
  <2> QED
    BY <2>11, <2>13, <2>14, <2>15, <2>16 DEF Kept, NoOrphan, Traced, Recorded
<1> QED
  BY <1>3, <1>4

(* The helper that has tried to activate. *)
WithTried(g) == [g EXCEPT !.tried = TRUE]
WithRollback(g) == [g EXCEPT !.todo = Rollback, !.back = TRUE]

(* It is activated, or the attach fails. *)
LEMMA AttachingVgChange ==
  ASSUME AInv, h # Idle, Attaching(18), VgChange
  PROVE  Fine
<1>1. HelperTyped /\ AttachTypeOK /\ faults \in 0..MaxFaults
  BY NoOrphanIs DEF AInv, AttachTypeOK
<1>2. h \in Helper /\ Tail(h.todo) = Drop(AttachCalls, 19) /\ Tail(h.todo) \in Seq(Call)
  BY <1>1, AttachLeft
<1>3. /\ h.verb = "attach" /\ ~h.back /\ h.made /\ Named
      /\ h.rec.att = h.att /\ h.rec.proof = NoMap /\ rec[h.vol].intent
  BY DEF Attaching
<1>4. PICK w : w = Activate(k, h.rec)
  OBVIOUS
<1>5. PICK g : g = WithTried(h)
  OBVIOUS
<1>6. /\ rec' = rec /\ nonce' = nonce /\ env' = env
      /\ \/ k' = w /\ h' = After(w, Tail(h.todo), g) /\ faults' = faults
         \/ /\ k' \in {w, LeftRunning(FALSE)} /\ h' = WithRollback(g)
            /\ faults < MaxFaults /\ faults' = faults + 1
         \/ k' = k /\ h' = WithRollback(g) /\ faults' = faults
  <2>1. PICK l : l = LeftRunning(FALSE)
    OBVIOUS
  <2> QED
    BY <1>4, <1>5, <2>1 DEF VgChange, WithTried, WithRollback
<1>7. faults' \in 0..MaxFaults
  <2>1. faults' = faults \/ (faults < MaxFaults /\ faults' = faults + 1)
    BY <1>6, Zenon
  <2> QED
    BY <1>1, <2>1, AttachAssumption
<1>8. Counted
  BY <1>1, <1>6, <1>7, SameCounted
<1>9. Kept
  <2>1. CASE k' = LeftRunning(FALSE)
    BY <1>6, <1>8, <2>1, AttachingLeaves, Zenon
  <2>2. CASE k' \in {k, w}
    BY <1>2, <1>3, <1>4, <1>6, <1>8, <2>2, ActivateKept, QuietKept
  <2> QED
    BY <1>6, <2>1, <2>2, Zenon
<1>10. /\ g \in Helper /\ g.vol = h.vol /\ g.att = h.att /\ g.rec = h.rec /\ g.verb = h.verb
       /\ g.made = h.made /\ g.back = h.back
  BY <1>2, <1>5 DEF Helper, WithTried
<1>11. CASE h' = WithRollback(g)
  <2>1. Rollback \in Seq(Call) /\ Drop(Rollback, 1) = Rollback
    BY OtherCallsAre, DropFirst
  <2>2. PICK e : e = h'
    OBVIOUS
  <2>3. /\ e \in Helper /\ e.todo = Rollback /\ e.back = TRUE /\ e.made = g.made
        /\ e.verb = g.verb /\ e.rec = g.rec /\ e.vol = g.vol
    BY <1>10, <1>11, <2>1, <2>2 DEF Helper, WithRollback
  <2>4. RbLoop(1)'
    BY <2>1, <2>2, <2>3 DEF RbLoop
  <2>5. RollingBack'
    BY <1>3, <1>6, <1>10, <2>2, <2>3, <2>4 DEF RollingBack, Named
  <2> QED
    BY <1>9, <2>2, <2>3, <2>5 DEF Fine, Stage, HelperTyped
<1>12. CASE k' = w /\ h' = After(w, Tail(h.todo), g)
  <2>1. PICK e : e = h'
    OBVIOUS
  <2>2. PICK calls \in Seq(Call) : calls = Tail(h.todo)
    BY <1>2
  <2>3. e = After(w, calls, g)
    BY <1>12, <2>1, <2>2
  <2>4. /\ e \in Helper /\ e.todo = calls /\ e.vol = g.vol /\ e.att = g.att /\ e.rec = g.rec
        /\ e.verb = g.verb /\ e.made = g.made /\ e.back = g.back
    BY <1>10, <2>3, AfterIs
  <2>5. Tight(k', h.rec)
    <3>1. k \in Kernel /\ h.rec \in TrustedRecord
      BY <1>1, <1>2, <1>3, HelperFields, TypeIs DEF Named
    <3>2. PICK a \in Att, x \in Mapping : a = h.rec.att /\ x = OwnMap(h.rec)
      BY <3>1, RecordFields DEF Mapping, OwnMap
    <3>3. w = k \/ w = MapTo(k, a, x)
      BY <1>4, <3>2 DEF Activate, MapTo, OwnMap
    <3>4. ASSUME w = MapTo(k, a, x)
          PROVE  /\ w \in Kernel /\ w.map = [k.map EXCEPT ![a] = x]
                 /\ w.backend = k.backend /\ w.mnt = k.mnt /\ w.holder = k.holder
                 /\ w.late = k.late /\ w.loose = k.loose
      BY <3>1, <3>4, MapSet
    <3>5. w.loose = k.loose
      BY <3>3, <3>4
    <3> QED
      BY <1>12, <3>5 DEF Attaching, Tight, StrayConnect
  <2>6. Attaching(19)'
    BY <1>2, <1>3, <1>6, <1>10, <2>1, <2>2, <2>4, <2>5 DEF Attaching, Named
  <2> QED
    BY <1>9, <2>1, <2>4, <2>6 DEF Fine, Stage, HelperTyped
<1> QED
  BY <1>6, <1>11, <1>12, Zenon


(* What the recovery proof says of the mapping. *)
LEMMA CaptureIs ==
  ASSUME k \in Kernel, NEW r \in TrustedRecord, Capturable(k, r), Clean(k, r)
  PROVE  /\ k.map[r.att] \in [dev : Dev, own : BOOLEAN] /\ k.map[r.att].dev = r.dev
         /\ k.map[r.att].own \/ Down(k, r)
         /\ ~Unmapped(k, r) => k.map[r.att] = OwnMap(r)
  BY RecordFields DEF Kernel, Capturable, Observable, Active, Mapping, Clean, Down, Unmapped

(* The mapping is captured for the record. *)
LEMMA AttachingCapture ==
  ASSUME AInv, h # Idle, Attaching(21), Capture
  PROVE  Fine
<1>1. HelperTyped /\ AttachTypeOK
  BY NoOrphanIs DEF AInv
<1>2. h \in Helper /\ Tail(h.todo) = Drop(AttachCalls, 22) /\ Tail(h.todo) \in Seq(Call)
  BY <1>1, AttachLeft
<1>3. /\ h.verb = "attach" /\ ~h.back /\ h.made /\ Named /\ Clean(k, h.rec)
      /\ h.rec.att = h.att /\ rec[h.vol].intent
  BY DEF Attaching
<1>4. /\ k' = k /\ rec' = rec /\ nonce' = nonce /\ env' = env /\ faults' = faults
      /\ Capturable(k, h.rec) \/ h' = Failed
  BY DEF Capture
<1>5. Counted
  BY <1>1, <1>4 DEF AttachTypeOK, Counted
<1>6. CASE h' = Failed
  BY <1>4, <1>5, <1>6, FailedFine
<1>7. CASE Capturable(k, h.rec) /\ h' # Failed
  <2>1. h.rec \in TrustedRecord /\ k \in Kernel
    BY <1>1, <1>2, <1>3, HelperFields, TypeIs DEF Named
  <2>2. /\ k.map[h.rec.att] \in [dev : Dev, own : BOOLEAN] /\ k.map[h.rec.att].dev = h.rec.dev
        /\ k.map[h.rec.att].own \/ Down(k, h.rec)
        /\ ~Unmapped(k, h.rec) => k.map[h.rec.att] = OwnMap(h.rec)
    BY <1>3, <1>7, <2>1, CaptureIs
  <2>3. PICK p \in [dev : Dev, own : BOOLEAN] : p = k.map[h.att]
    BY <1>3, <2>2
  <2>4. PICK r : r = [h.rec EXCEPT !.proof = p, !.intent = FALSE]
    OBVIOUS
  <2>5. r \in TrustedRecord /\ SameConnection(r, h.rec) /\ r.proof = p
    BY <2>1, <2>4 DEF TrustedRecord, SameConnection
  <2>6. r # NoRecord
    BY <2>5, RecordFields
  <2>7. PICK g : g = Seen({"map", "mnt", "holder"})
    OBVIOUS
  <2>8. /\ g \in Helper /\ g.vol = h.vol /\ g.att = h.att /\ g.rec = h.rec
        /\ g.verb = h.verb /\ g.conn = h.conn /\ g.obs = h.obs /\ g.tried = h.tried
        /\ g.made = h.made /\ g.back = h.back /\ g.whole = h.whole
        /\ g.stale = h.stale \ {"map", "mnt", "holder"}
    BY <1>2, <2>7, SeenIs
  <2>9. h' = After(k, Tail(h.todo), [g EXCEPT !.rec.proof = p, !.rec.intent = FALSE])
    BY <1>7, <2>3, <2>7 DEF Capture, On, To
  <2>10. [g EXCEPT !.rec.proof = p, !.rec.intent = FALSE] = WithRecord(g, r)
    BY <2>4, <2>8 DEF WithRecord, Helper
  <2>11. h' = After(k', Tail(h.todo), WithRecord(g, r)) /\ r \in {NoRecord} \cup TrustedRecord
    BY <1>4, <2>5, <2>9, <2>10
  <2>12. Goes(Tail(h.todo), {"map", "mnt", "holder"}) /\ h'.rec = r /\ h'.made = h.made
    BY <1>2, <2>8, <2>11, RecordGoes
  <2>13. /\ h'.todo = Drop(AttachCalls, 22) /\ h'.vol = h.vol /\ h'.att = h.att
         /\ h'.verb = h.verb /\ h'.back = h.back
    BY <1>2, <2>12 DEF Goes
  <2>14. r.att = h.att /\ r.dev = h.rec.dev /\ r.nonce = h.rec.nonce /\ Tight(k, r) /\ r.nonce <= nonce'
    BY <1>3, <1>4, <2>5 DEF SameConnection, Attaching, Tight
  <2>15. /\ Clean(k, r)
         /\ ~Unmapped(k, r) => p = OwnMap(r)
         /\ p.own \/ Down(k, r)
    BY <1>3, <2>2, <2>3, <2>14 DEF Clean, Unmapped, Down, Connected, OwnMap
  <2>16. Named'
    BY <1>3, <1>4, <2>5, <2>6, <2>12, <2>13 DEF Named, SameConnection
  <2>17. Attaching(22)'
    BY <1>3, <1>4, <2>5, <2>6, <2>12, <2>13, <2>14, <2>15, <2>16 DEF Attaching
  <2>18. HelperTyped'
    BY <2>12, GoesTyped
  <2> QED
    BY <1>4, <1>5, <2>17, <2>18, QuietKept DEF Fine, Stage
<1> QED
  BY <1>4, <1>6, <1>7

(* The proof is recorded in place of the intent. *)
LEMMA AttachingProve ==
  ASSUME AInv, h # Idle, Attaching(23), Prove
  PROVE  Fine
<1>1. HelperTyped /\ AttachTypeOK /\ faults \in 0..MaxFaults
  BY NoOrphanIs DEF AInv, AttachTypeOK
<1>2. h \in Helper /\ Tail(h.todo) = Drop(AttachCalls, 24) /\ Tail(h.todo) \in Seq(Call)
  BY <1>1, AttachLeft
<1>3. /\ h.verb = "attach" /\ ~h.back /\ h.made /\ Named /\ Clean(k, h.rec)
      /\ h.rec.att = h.att /\ h.rec.proof.own /\ h.rec.nonce <= nonce /\ Tight(k, h.rec)
      /\ ~Unmapped(k, h.rec) => h.rec.proof = OwnMap(h.rec)
  BY DEF Attaching
<1>4. /\ k' = k /\ nonce' = nonce /\ env' = env /\ faults' \in 0..MaxFaults
      /\ rec' = [rec EXCEPT ![h.vol] = h.rec]
      /\ h' = After(k', Tail(h.todo), h) \/ h' = Failed
  BY <1>1, WriteMoves DEF Prove
<1>5. Kept
  BY <1>2, HelperFields, <1>3, <1>1, <1>4, SameCounted, WriteKept DEF OwnProof, Named, SameConnection,
     Unmapped
<1>6. rec'[h.vol] = h.rec
  BY <1>1, <1>2, <1>4, TypeIs, HelperFields
<1>7. CASE h' = Failed
  BY <1>3, <1>4, <1>5, <1>7, FailedWrite DEF SameConnection, Fine, Named
<1>8. CASE h' = After(k', Tail(h.todo), h)
  <2>1. Moved(Tail(h.todo), {})
    BY <1>2, <1>8, PlainMoves
  <2>2. /\ h'.todo = Drop(AttachCalls, 24) /\ h'.vol = h.vol /\ h'.att = h.att /\ h'.rec = h.rec
        /\ h'.verb = h.verb /\ h'.back = h.back /\ h'.made = h.made
    BY <1>2, <2>1 DEF Moved, Goes
  <2>3. Attaching(24)'
    BY <1>3, <1>4, <1>6, <2>2 DEF Attaching, Named, SameConnection
  <2>4. HelperTyped'
    BY <2>1, GoesTyped DEF Moved
  <2> QED
    BY <1>5, <2>3, <2>4 DEF Fine, Stage
<1> QED
  BY <1>4, <1>7, <1>8

(* A mount, where one comes. *)
LEMMA MountIs ==
  ASSUME AInv, h \in Helper, h.rec # NoRecord, k' = MountXfs(k, h.rec), rec' = rec, Counted
  PROVE  /\ Kept
         /\ k' # k => /\ k'.backend = k.backend /\ k'.map = k.map
                      /\ k'.mnt[h.rec.att] = "lv" => Connected(k, h.rec) /\ Backed(k, h.rec)
                      /\ k' \in Kernel /\ k'.loose = k.loose
<1>1. AttachTypeOK /\ Traced /\ OpenedActive /\ RecordsOwn
  BY NoOrphanIs DEF AInv
<1>2. k \in Kernel
  BY <1>1, TypeIs
<1>3. CASE k' = k
  BY <1>3, QuietKept
<1>4. CASE k' # k
  <2>1. PICK m : m = IF Connected(k, h.rec) /\ Backed(k, h.rec) THEN "lv" ELSE "wrong"
    OBVIOUS
  <2>2. k' = MountTo(k, h.rec.att, m) /\ k.map[h.rec.att] # NoMap
    BY <1>4, <2>1 DEF MountXfs, MountTo, Active
  <2>3. PICK a \in Att : a = h.rec.att
    BY HelperFields, RecordFields
  <2>4. PICK w : w = k'
    OBVIOUS
  <2>5. m \in MountState
    BY <2>1 DEF MountState
  <2>6. w = MountTo(k, a, m)
    BY <2>2, <2>3, <2>4
  <2>7. /\ w \in Kernel /\ w.mnt = [k.mnt EXCEPT ![a] = m]
        /\ w.backend = k.backend /\ w.map = k.map /\ w.holder = k.holder
        /\ w.late = k.late /\ w.loose = k.loose
    BY <1>2, <2>5, <2>6, MountSet
  <2>8. k.mnt \in [Att -> MountState]
    BY <1>2 DEF Kernel
  <2>9. rec \in [Vol -> {NoRecord} \cup TrustedRecord]
    BY <1>1, TypeIs
  <2>10. AttachTypeOK'
    BY <2>4, <2>7, <2>9 DEF AttachTypeOK, Counted, Kernel, Backend, Mapping
  <2>11. Traced'
    BY <1>1, <2>4, <2>7 DEF Traced, StrayConnect, StrayMap
  <2>12. OpenedActive'
    BY <1>1, <2>2, <2>3, <2>4, <2>7, <2>8 DEF OpenedActive, Opened
  <2>13. RecordsOwn'
    BY <1>1 DEF RecordsOwn, OwnProof
  <2>14. Kept
    BY <2>10, <2>11, <2>12, <2>13, <2>4, <2>7, LooseKept DEF Kept, NoOrphan, Traced, Recorded
  <2>15. k'.mnt[h.rec.att] = m
    BY <2>3, <2>4, <2>7, <2>8
  <2> QED
    BY <2>1, <2>4, <2>7, <2>14, <2>15
<1> QED
  BY <1>3, <1>4

(* The filesystem is mounted. *)
LEMMA AttachingMount ==
  ASSUME AInv, h # Idle, Attaching(34), Mount
  PROVE  Fine
<1>1. HelperTyped /\ AttachTypeOK /\ faults \in 0..MaxFaults
  BY NoOrphanIs DEF AInv, AttachTypeOK
<1>2. h \in Helper /\ Tail(h.todo) = Drop(AttachCalls, 35) /\ Tail(h.todo) \in Seq(Call)
  BY <1>1, AttachLeft
<1>3. /\ h.verb = "attach" /\ ~h.back /\ h.made /\ Named /\ Clean(k, h.rec)
      /\ h.rec.att = h.att /\ rec[h.vol] = h.rec /\ h.rec.nonce <= nonce
  BY DEF Attaching
<1>4. PICK w : w = MountXfs(k, h.rec)
  OBVIOUS
<1>5. Run("mount", w)
  BY <1>4 DEF Mount
<1>6. /\ rec' = rec /\ nonce' = nonce /\ env' = env /\ faults' \in 0..MaxFaults
      /\ \/ k' = w /\ w # k /\ Moved(Tail(h.todo), {})
         \/ k' \in {k, w, LeftRunning(FALSE)} /\ h' = Failed
  BY <1>1, <1>5, RunMoves, Zenon
<1>7. Counted
  BY <1>1, <1>6, SameCounted
<1>8. h.rec # NoRecord
  BY <1>3 DEF Named
<1>9. Kept
  <2>1. CASE k' = LeftRunning(FALSE)
    BY <1>6, <1>7, <2>1, AttachingLeaves, Zenon
  <2>2. CASE k' \in {k, w}
    BY <1>2, <1>4, <1>6, <1>7, <1>8, <2>2, MountIs, QuietKept
  <2> QED
    BY <1>6, <2>1, <2>2, Zenon
<1>10. CASE h' = Failed
  BY <1>6, <1>9, <1>10, FailedRun
<1>11. CASE h' # Failed
  <2>1. Moved(Tail(h.todo), {}) /\ k' = MountXfs(k, h.rec) /\ k' # k
    BY <1>4, <1>6, <1>11, Zenon
  <2>2. /\ h'.todo = Drop(AttachCalls, 35) /\ h'.vol = h.vol /\ h'.att = h.att /\ h'.rec = h.rec
        /\ h'.verb = h.verb /\ h'.made = h.made /\ h'.back = h.back
        /\ Whole(k', h.rec) => h'.whole
    BY <1>2, <1>8, <2>1 DEF Moved, Goes
  <2>3. /\ k'.backend = k.backend /\ k'.map = k.map /\ k' \in Kernel /\ k'.loose = k.loose
        /\ k'.mnt[h.rec.att] = "lv" => Connected(k, h.rec) /\ Backed(k, h.rec)
    BY <1>2, <1>6, <1>7, <1>8, <2>1, MountIs
  <2>4. Clean(k', h.rec) /\ Tight(k', h.rec)
    BY <1>3, <2>3 DEF Clean, Connected, Attaching, Tight, Down, StrayConnect
  <2>5. Shown(k', h.rec) => h'.whole
    <3>1. SUFFICES ASSUME Shown(k', h.rec) PROVE Whole(k', h.rec)
      BY <2>2
    <3>2. Connected(k', h.rec) /\ Backed(k', h.rec) /\ Mounted(k', h.rec)
      BY <2>3, <3>1 DEF Connected, Backed, Shown, Mounted
    <3>3. PICK x \in Kernel, r \in TrustedRecord : x = k' /\ r = h.rec
      BY <1>2, <1>8, <2>3, HelperFields
    <3> QED
      BY <2>4, <3>2, <3>3, MountedWhole
  <2>6. Attaching(35)'
    BY <1>3, <1>6, <2>2, <2>4, <2>5 DEF Attaching, Named
  <2>7. HelperTyped'
    BY <2>1, GoesTyped DEF Moved
  <2> QED
    BY <1>9, <2>6, <2>7 DEF Fine, Stage
<1> QED
  BY <1>10, <1>11


(* The end of a verb. *)
LEMMA DoneFine ==
  ASSUME AInv, Done
  PROVE  Fine
  BY NoOrphanIs, QuietKept DEF AInv, Done, AttachTypeOK, Counted, Fine, HelperTyped, Stage

(* A step of an attach. *)
LEMMA AttachingFine ==
  ASSUME AInv, h # Idle, NEW n \in 1..38, Attaching(n), HelperStep
  PROVE  Fine
<1> DEFINE plain == n \notin {1, 2, 3, 6, 7, 13, 18, 20, 21, 22, 23, 34, 37, 38}
<1>1. CASE n = 1 /\ Prior
  BY <1>1, AttachingPrior
<1>2. CASE n = 2 /\ PriorClear
  BY <1>2, AttachingPrior
<1>3. CASE n = 3 /\ Allocate
  BY <1>3, AttachingAllocate
<1>4. CASE NoDevice
  BY <1>4, AttachingNoDevice
<1>5. ASSUME plain, NEW c, NEW good, Ask(c, good) \/ Look(c, good) PROVE Fine
  BY <1>5, AttachingPlain
<1> HIDE DEF plain
<1>6. CASE n = 4 /\ DeviceFree
  BY <1>6, <1>5 DEF plain, DeviceFree
<1>7. CASE n = 5 /\ Before
  BY <1>7, <1>5 DEF plain, Before
<1>8. CASE n = 6 /\ Publish
  BY <1>8, AttachingPublish
<1>9. CASE n = 7 /\ Connect
  BY <1>9, AttachingConnect
<1>10. CASE n \in {8, 10, 12, 14, 17, 19, 22, 24, 26, 28, 30, 31, 33} /\ VerifyConnection
  BY <1>10, AttachingNonce
<1>11. CASE n = 9 /\ SetBlockSize
  <2>1. plain
    BY <1>11 DEF plain
  <2> QED
    BY <1>5, <1>11, <2>1 DEF SetBlockSize
<1>12. CASE n \in {11, 15} /\ Preflight
  BY <1>12, <1>5 DEF plain, Preflight
<1>13. CASE n = 13 /\ Intend
  BY <1>13, AttachingIntend
<1>14. CASE n = 16 /\ EnsureInactive
  BY <1>14, <1>5 DEF plain, EnsureInactive
<1>15. CASE n = 18 /\ VgChange
  BY <1>15, AttachingVgChange
<1>16. CASE n = 20 /\ Mapped
  BY <1>16, AttachingVerified
<1>17. CASE n = 21 /\ Capture
  BY <1>17, AttachingCapture
<1>18. CASE n = 23 /\ Prove
  BY <1>18, AttachingProve
<1>19. CASE n \in {25, 29, 32} /\ Unmounted
  <2>1. plain
    BY <1>19 DEF plain
  <2> QED
    BY <1>5, <1>19, <2>1 DEF Unmounted
<1>20. CASE n = 27 /\ Blkid
  BY <1>20, <1>5 DEF plain, Blkid
<1>21. CASE n = 34 /\ Mount
  BY <1>21, AttachingMount
<1>22. CASE n = 35 /\ MountDevice
  BY <1>22, <1>5 DEF plain, MountDevice
<1>23. CASE n = 36 /\ WriteSentinel
  <2>1. HelperTyped /\ At("writeSentinel") /\ h' \in {On(h), Failed} /\ k' = k /\ rec' = rec
        /\ nonce' = nonce /\ env' = env /\ faults' = faults
    BY <1>23 DEF WriteSentinel, AInv
  <2>2. h' = On(h) => Moved(Tail(h.todo), {})
    BY <2>1, AtIs, PlainMoves DEF On, To
  <2> QED
    BY <1>23, <2>1, <2>2, AttachingLooks
<1>24. CASE n = 37 /\ MountIdentity
  BY <1>24, AttachingVerified
<1>25. CASE Done
  BY <1>25, DoneFine
<1> QED
  BY AttachingSteps, <1>1, <1>2, <1>3, <1>4, <1>6, <1>7, <1>8, <1>9, <1>10, <1>11, <1>12, <1>13, <1>14,
     <1>15, <1>16, <1>17, <1>18, <1>19, <1>20, <1>21, <1>22, <1>23, <1>24, <1>25

-----------------------------------------------------------------------------
(* The steps of a rollback. *)

(* A rollback that fails stops. *)
LEMMA RollbackStops ==
  ASSUME AInv, h.back, h' = Failed, rec' = rec, Kept
  PROVE  Fine
<1>1. h' = Idle
  BY DEF Failed
<1> QED
  BY <1>1 DEF Fine, HelperTyped, Stage

(* A rollback that goes on. *)
LEMMA RollbackGoes ==
  ASSUME RollingBack, NEW calls, NEW K, Goes(calls, K), h'.rec = h.rec, h'.made = h.made, rec' = rec, Kept,
         \/ \E n \in 1..3 : RbLoop(n)'
         \/ RbUmount'
         \/ \E m \in 1..2 : RbOff(m)'
         \/ \E n \in 1..3 : RbUnplug(n)'
  PROVE  Fine
  BY GoesTyped DEF RollingBack, Goes, Named, Fine, Stage

(* The record of a rollback. *)
LEMMA RollbackIs ==
  ASSUME AInv, h # Idle, RollingBack
  PROVE  /\ h \in Helper /\ h.rec \in TrustedRecord /\ h.back /\ k \in Kernel /\ OpenedActive
         /\ HelperTyped /\ AttachTypeOK /\ faults \in 0..MaxFaults
  BY NoOrphanIs, TypeIs, HelperFields DEF AInv, HelperTyped, RollingBack, Named

(* The helper with another observation. *)
WithObs(g, o) == [g EXCEPT !.obs = o]

(* What it sees first. *)
LEMMA TopLayerIs ==
  /\ TopLayer \in {"mounted", "active", "used", "clear"}
  /\ TopLayer = "mounted" => Mounted(k, h.rec)
  /\ TopLayer = "active" => ~Mounted(k, h.rec) /\ Active(k, h.rec)
  /\ TopLayer = "clear" => Clear(k, h.rec)
  BY DEF TopLayer, Clear

(* An observation, or a failure. *)
LEMMA ObservedMoves ==
  ASSUME HelperTyped, NEW c, NEW good, Observed(c, good)
  PROVE  /\ k' = k /\ rec' = rec /\ nonce' = nonce /\ env' = env /\ faults' = faults
         /\ \/ /\ good /\ Goes(Tail(h.todo), {"map", "mnt", "holder"})
               /\ h'.rec = h.rec /\ h'.conn = h.conn /\ h'.made = h.made /\ h'.obs = TopLayer
            \/ h' = Failed
<1>1. At(c) /\ k' = k /\ rec' = rec /\ nonce' = nonce /\ env' = env /\ faults' = faults
  BY DEF Observed
<1>2. PICK g : g = Seen({"map", "mnt", "holder"})
  OBVIOUS
<1>3. PICK o \in {"mounted", "active", "used", "clear"} : o = TopLayer
  BY TopLayerIs
<1>4. h \in Helper /\ Tail(h.todo) \in Seq(Call)
  BY <1>1, AtIs
<1>5. (good /\ h' = After(k, Tail(h.todo), WithObs(g, o))) \/ h' = Failed
  BY <1>2, <1>3 DEF Observed, On, To, WithObs
<1>6. CASE h' = Failed
  BY <1>1, <1>6
<1>7. CASE good /\ h' = After(k, Tail(h.todo), WithObs(g, o))
  <2>1. /\ g \in Helper /\ g.vol = h.vol /\ g.att = h.att /\ g.rec = h.rec
        /\ g.verb = h.verb /\ g.conn = h.conn /\ g.obs = h.obs /\ g.tried = h.tried
        /\ g.made = h.made /\ g.back = h.back /\ g.whole = h.whole
        /\ g.stale = h.stale \ {"map", "mnt", "holder"}
    BY <1>2, <1>4, SeenIs
  <2>2. PICK f : f = WithObs(g, o)
    OBVIOUS
  <2>3. /\ f \in Helper /\ f.vol = g.vol /\ f.att = g.att /\ f.rec = g.rec
        /\ f.verb = g.verb /\ f.conn = g.conn /\ f.obs = o /\ f.tried = g.tried
        /\ f.made = g.made /\ f.back = g.back /\ f.whole = g.whole /\ f.stale = g.stale
    BY <2>1, <2>2 DEF WithObs, Helper
  <2>4. PICK e : e = h'
    OBVIOUS
  <2>5. PICK calls \in Seq(Call) : calls = Tail(h.todo)
    BY <1>4
  <2>6. e = After(k, calls, f)
    BY <1>7, <2>2, <2>4, <2>5
  <2>7. /\ e \in Helper /\ e.todo = calls /\ e.vol = f.vol /\ e.att = f.att /\ e.rec = f.rec
        /\ e.verb = f.verb /\ e.conn = f.conn /\ e.obs = f.obs /\ e.tried = f.tried
        /\ e.made = f.made /\ e.back = f.back /\ e.stale = f.stale
        /\ e.whole <=> (f.whole \/ (f.rec # NoRecord /\ Whole(k, f.rec)))
    BY <2>3, <2>6, AfterIs
  <2> QED
    BY <1>1, <1>3, <1>7, <2>1, <2>3, <2>4, <2>5, <2>7 DEF Goes
<1> QED
  BY <1>5, <1>6, <1>7


(* A call that does not look above the backend. *)
LEMMA OursKept ==
  ASSUME k' = k, h'.rec = h.rec, h'.verb = h.verb, NEW K \in {{}, {"backend"}}, h'.stale = h.stale \ K
  PROVE  /\ MapOurs => MapOurs'
         /\ MountOurs => MountOurs'
         /\ MountThere => MountThere'
         /\ Unused => Unused'
  BY DEF MapOurs, Ours, MountOurs, MountThere, Unused

(* The first observation. *)
LEMMA RollbackObserve ==
  ASSUME AInv, h # Idle, RollingBack, RbLoop(1), RbObserve
  PROVE  Fine
<1>1. /\ h \in Helper /\ h.rec \in TrustedRecord /\ h.back /\ k \in Kernel /\ OpenedActive
      /\ HelperTyped /\ AttachTypeOK
  BY RollbackIs
<1>2. /\ k' = k /\ rec' = rec /\ nonce' = nonce /\ env' = env /\ faults' = faults
      /\ \/ /\ Observable(k, h.rec) /\ Goes(Tail(h.todo), {"map", "mnt", "holder"})
            /\ h'.rec = h.rec /\ h'.conn = h.conn /\ h'.made = h.made /\ h'.obs = TopLayer
         \/ h' = Failed
  BY <1>1, ObservedMoves DEF RbObserve
<1>3. Kept
  BY <1>1, <1>2, QuietKept DEF AttachTypeOK, Counted
<1>4. CASE h' = Failed
  BY <1>1, <1>2, <1>3, <1>4, RollbackStops
<1>5. CASE h' # Failed
  <2>1. /\ Observable(k, h.rec) /\ Goes(Tail(h.todo), {"map", "mnt", "holder"})
        /\ h'.rec = h.rec /\ h'.made = h.made /\ h'.obs = TopLayer
    BY <1>2, <1>5
  <2>2. Tail(h.todo) = Drop(Rollback, 2)
    BY RbLoopHead
  <2>3. h.rec.att \in Att
    BY <1>1, RecordFields
  <2>4. Mounted(k, h.rec) => Backed(k, h.rec)
    BY <1>1, <2>3, <2>1 DEF Mounted, OpenedActive, Opened, Active, Observable, Backed
  <2>5. Clear(k, h.rec) => Unmapped(k, h.rec) /\ ~InUse(k, h.rec.dev)
    BY <1>1, SeenFacts DEF Clear
  <2>6. RbSeen'
    BY <1>2, <2>1, <2>4, <2>5, TopLayerIs DEF RbSeen, MountThere, Unused
  <2>7. RbLoop(2)'
    BY <2>1, <2>2, <2>6 DEF RbLoop, Goes
  <2> QED
    BY <1>2, <1>3, <2>1, <2>7, RollbackGoes
<1> QED
  BY <1>4, <1>5

(* The identity of what is to be taken down. *)
LEMMA RollbackIdentity ==
  ASSUME AInv, h # Idle, RollingBack, RbLoop(2), RbIdentity
  PROVE  Fine
<1>1. /\ h \in Helper /\ h.rec \in TrustedRecord /\ h.back /\ k \in Kernel /\ OpenedActive
      /\ HelperTyped /\ AttachTypeOK
  BY RollbackIs
<1>2. /\ At("rbIdentity") /\ k' = k /\ rec' = rec /\ nonce' = nonce /\ env' = env /\ faults' = faults
      /\ \/ /\ h.obs \in {"mounted", "active"} => Verified(k, h.rec)
            /\ h' = After(k', Tail(h.todo), h)
         \/ h' = Failed
  BY DEF RbIdentity, On, To
<1>3. Kept
  BY <1>1, <1>2, QuietKept DEF AttachTypeOK, Counted
<1>4. CASE h' = Failed
  BY <1>1, <1>2, <1>3, <1>4, RollbackStops
<1>5. CASE h' # Failed
  <2>1. Tail(h.todo) \in Seq(Call)
    BY <1>1, <1>2, AtIs
  <2>2. Moved(Tail(h.todo), {}) /\ (h.obs = "mounted" => Verified(k, h.rec))
    BY <1>1, <1>2, <1>5, <2>1, PlainMoves
  <2>3. Tail(h.todo) = Drop(Rollback, 3)
    BY RbLoopHead
  <2>4. h'.rec = h.rec /\ h'.verb = h.verb /\ h'.obs = h.obs /\ h'.stale = h.stale \ {} /\ h'.todo = Drop(Rollback, 3)
    BY <2>2, <2>3 DEF Moved, Goes
  <2>5. RbSeen
    BY DEF RbLoop
  <2>6. h.obs = "mounted" => MountOurs
    <3>1. SUFFICES ASSUME h.obs = "mounted" PROVE MountOurs
      OBVIOUS
    <3>2. MountThere /\ Verified(k, h.rec)
      BY <2>2, <2>5, <3>1 DEF RbSeen
    <3>3. h.rec.att \in Att
      BY <1>1, RecordFields
    <3>4. Mounted(k, h.rec) => Active(k, h.rec)
      BY <1>1, <3>3 DEF Mounted, OpenedActive, Opened, Active
    <3>5. Mounted(k, h.rec) /\ Backed(k, h.rec) => Ours(h.rec.att)
      BY <3>2, <3>4 DEF Ours, Backed, Verified
    <3> QED
      BY <3>2, <3>5 DEF MountThere, MountOurs
  <2>7. /\ MountOurs => MountOurs'
        /\ MountThere => MountThere'
        /\ Unused => Unused'
    BY <1>2, <2>4, OursKept
  <2>8. RbSeen'
    BY <1>2, <2>4, <2>5, <2>7 DEF RbSeen
  <2>9. RbLoop(3)'
    BY <2>4, <2>6, <2>7, <2>8 DEF RbLoop
  <2>10. Goes(Tail(h.todo), {}) /\ h'.rec = h.rec /\ h'.made = h.made
    BY <2>2 DEF Moved
  <2> QED
    BY <1>2, <1>3, <2>9, <2>10, RollbackGoes
<1> QED
  BY <1>4, <1>5

(* The way on from the last call of the loop. *)
LEMMA RollbackWays ==
  /\ <<"umount">> \o Rollback \in Seq(Call)
  /\ <<"nonce", "off">> \o Rollback \in Seq(Call) /\ <<"nonce", "off">> \o Rollback = Drop(RbOffCalls, 1) \o Rollback
  /\ <<"disconnect", "gone", "rbRetire">> \in Seq(Call) /\ <<"disconnect", "gone", "rbRetire">> = Drop(RbUnplugCalls, 1)
  /\ <<"gone", "rbRetire">> \in Seq(Call) /\ <<"gone", "rbRetire">> = Drop(RbUnplugCalls, 2)
  BY OtherCallsAre, ConcatProperties, DropFirst DEF Call, RbOffCalls, RbUnplugCalls, Drop


(* The backend is checked, and the layer that was seen is taken down. *)
LEMMA RollbackBackend ==
  ASSUME AInv, h # Idle, RollingBack, RbLoop(3), RbBackend
  PROVE  Fine
<1>1. /\ h \in Helper /\ h.rec \in TrustedRecord /\ h.back /\ k \in Kernel /\ OpenedActive
      /\ HelperTyped /\ AttachTypeOK
  BY RollbackIs
<1>2. k' = k /\ rec' = rec /\ nonce' = nonce /\ env' = env /\ faults' = faults
  BY DEF RbBackend
<1>3. PICK g : g = Seen({"backend"})
  OBVIOUS
<1>4. \/ h.obs = "mounted" /\ h' = To(<<"umount">> \o Rollback, g)
      \/ h' = To(<<"nonce", "off">> \o Rollback, g)
      \/ Connected(k, h.rec) /\ h.obs = "clear" /\ h' = To(<<"disconnect", "gone", "rbRetire">>, g)
      \/ h.obs = "clear" /\ h' = To(<<"gone", "rbRetire">>, g)
      \/ h' = Failed
  BY <1>3 DEF RbBackend
<1>5. Kept
  BY <1>1, <1>2, QuietKept DEF AttachTypeOK, Counted
<1>6. RbSeen /\ (h.obs = "mounted" => MountOurs)
  BY DEF RbLoop
<1>7. ASSUME NEW calls \in Seq(Call), h' = To(calls, g)
      PROVE  /\ Goes(calls, {"backend"}) /\ h'.rec = h.rec /\ h'.made = h.made /\ h'.todo = calls
             /\ MountOurs => MountOurs'
             /\ Unused => Unused'
  <2>1. Moved(calls, {"backend"})
    BY <1>1, <1>2, <1>3, <1>7, SeenMoves
  <2>2. h'.rec = h.rec /\ h'.verb = h.verb /\ h'.stale = h.stale \ {"backend"} /\ h'.todo = calls
    BY <2>1 DEF Moved, Goes
  <2> QED
    BY <1>2, <2>1, <2>2, OursKept DEF Moved
<1>8. CASE h' = Failed
  BY <1>1, <1>2, <1>5, <1>8, RollbackStops
<1>9. CASE h.obs = "mounted" /\ h' = To(<<"umount">> \o Rollback, g)
  BY RollbackWays, <1>7, <1>9, <1>6, <1>2, <1>5, RollbackGoes DEF RbUmount
<1>10. CASE h' = To(<<"nonce", "off">> \o Rollback, g)
  <2>1. PICK calls \in Seq(Call) : calls = <<"nonce", "off">> \o Rollback
    BY RollbackWays
  <2>2. Goes(calls, {"backend"}) /\ h'.rec = h.rec /\ h'.made = h.made /\ h'.todo = calls
    BY <1>7, <1>10, <2>1
  <2>3. RbOff(1)'
    BY <2>1, <2>2, RollbackWays DEF RbOff
  <2> QED
    BY <1>2, <1>5, <2>2, <2>3, RollbackGoes
<1>11. CASE Connected(k, h.rec) /\ h.obs = "clear" /\ h' = To(<<"disconnect", "gone", "rbRetire">>, g)
  <2>1. PICK calls \in Seq(Call) : calls = <<"disconnect", "gone", "rbRetire">> /\ calls = Drop(RbUnplugCalls, 1)
    BY RollbackWays
  <2>2. /\ Goes(calls, {"backend"}) /\ h'.rec = h.rec /\ h'.made = h.made /\ h'.todo = calls
        /\ Unused => Unused'
    BY <1>7, <1>11, <2>1
  <2>3. RbUnplug(1)'
    BY <1>2, <1>6, <1>11, <2>1, <2>2 DEF RbUnplug, RbSeen, BackendOurs
  <2> QED
    BY <1>2, <1>5, <2>2, <2>3, RollbackGoes
<1>12. CASE h.obs = "clear" /\ h' = To(<<"gone", "rbRetire">>, g)
  <2>1. PICK calls \in Seq(Call) : calls = <<"gone", "rbRetire">> /\ calls = Drop(RbUnplugCalls, 2)
    BY RollbackWays
  <2>2. Goes(calls, {"backend"}) /\ h'.rec = h.rec /\ h'.made = h.made /\ h'.todo = calls
    BY <1>7, <1>12, <2>1
  <2>3. RbUnplug(2)'
    BY <1>2, <1>6, <1>12, <2>1, <2>2 DEF RbUnplug, RbSeen
  <2> QED
    BY <1>2, <1>5, <2>2, <2>3, RollbackGoes
<1> QED
  BY <1>4, <1>8, <1>9, <1>10, <1>11, <1>12

(* The commands of a teardown yield. *)
Teardown(ker, r) == {Umount(ker, r), DeactivateScoped(ker, r), Deactivate(ker, r), NbdDisconnect(ker, r)}

(* They keep every record's subject, with or without a failure. *)
LEMMA TeardownMoves ==
  ASSUME AInv, h \in Helper, h.rec \in TrustedRecord, NEW c \in Command \ Builds,
         NEW w \in Teardown(k, h.rec), Run(c, w)
  PROVE  /\ Yields /\ Kept /\ rec' = rec
         /\ (k' = w /\ Moved(Tail(h.todo), {})) \/ h' = Failed
<1>1. HelperTyped /\ AttachTypeOK /\ k \in Kernel /\ faults \in 0..MaxFaults
  BY NoOrphanIs, TypeIs DEF AInv
<1>2. /\ rec' = rec /\ nonce' = nonce /\ env' = env /\ faults' \in 0..MaxFaults
      /\ \/ k' = w /\ w # k /\ Moved(Tail(h.todo), {})
         \/ k' \in {k, w, LeftRunning(FALSE)} /\ h' = Failed
  BY <1>1, RunMoves, Zenon
<1>3. Head(h.todo) \in Command \ Builds
  BY <1>1, AtIs DEF Run
<1>4. ASSUME k' = LeftRunning(FALSE)
      PROVE  Yields /\ k'.backend = k.backend /\ k'.map = k.map /\ k'.mnt = k.mnt /\ k'.holder = k.holder
  BY <1>1, <1>3, <1>4, LeftYields
<1>5. ASSUME k' \in {k, w} PROVE Yields
  <2>1. PICK r \in TrustedRecord : r = h.rec
    OBVIOUS
  <2>2. k' = k \/ k' = Umount(k, r) \/ k' \in {DeactivateScoped(k, r), Deactivate(k, r)} \/ k' = NbdDisconnect(k, r)
    BY <1>5, <2>1 DEF Teardown
  <2>3. CASE k' = k
    BY <1>1, <2>3, SameYields
  <2>4. CASE k' = Umount(k, r)
    BY <1>1, <2>4, UmountYields
  <2>5. CASE k' \in {DeactivateScoped(k, r), Deactivate(k, r)}
    BY <1>1, <2>5, OffYields
  <2>6. CASE k' = NbdDisconnect(k, r)
    BY <1>1, <2>6, DisconnectYields
  <2> QED
    BY <2>2, <2>3, <2>4, <2>5, <2>6
<1>6. Yields
  BY <1>2, <1>4, <1>5, Zenon
<1>7. Kept
  BY <1>1, <1>2, <1>6, SameCounted, YieldsKept, Zenon
<1> QED
  BY <1>2, <1>6, <1>7, Zenon

(* A rollback takes a layer down, and observes again. *)
LEMMA RollbackLayer ==
  ASSUME AInv, h # Idle, RollingBack, Tail(h.todo) = Rollback, NEW c \in Command \ Builds,
         NEW w \in Teardown(k, h.rec), Run(c, w)
  PROVE  Fine
<1>1. h \in Helper /\ h.rec \in TrustedRecord /\ h.back
  BY RollbackIs
<1>2. /\ Kept /\ rec' = rec
      /\ Moved(Tail(h.todo), {}) \/ h' = Failed
  BY <1>1, TeardownMoves
<1>3. CASE h' = Failed
  BY <1>1, <1>2, <1>3, RollbackStops
<1>4. CASE Moved(Tail(h.todo), {})
  <2>1. Goes(Tail(h.todo), {}) /\ h'.rec = h.rec /\ h'.made = h.made /\ h'.todo = Rollback
    BY <1>4 DEF Moved, Goes
  <2>2. Rollback = Drop(Rollback, 1)
    BY OtherCallsAre, DropFirst
  <2>3. RbLoop(1)'
    BY <2>1, <2>2 DEF RbLoop
  <2> QED
    BY <1>2, <2>1, <2>3, RollbackGoes
<1> QED
  BY <1>2, <1>3, <1>4

(* The connection is asked for before a deactivation. *)
LEMMA RollbackNonce ==
  ASSUME AInv, h # Idle, RollingBack, RbOff(1), VerifyConnection
  PROVE  Fine
<1>1. h \in Helper /\ h.rec \in TrustedRecord /\ h.back /\ HelperTyped /\ AttachTypeOK
  BY RollbackIs
<1>2. /\ k' = k /\ rec' = rec /\ nonce' = nonce /\ env' = env /\ faults' = faults
      /\ Moved(Tail(h.todo), {"backend"}) \/ h' = Failed
  BY <1>1, AskMoves DEF VerifyConnection
<1>3. Kept
  BY <1>1, <1>2, QuietKept DEF AttachTypeOK, Counted
<1>4. CASE h' = Failed
  BY <1>1, <1>2, <1>3, <1>4, RollbackStops
<1>5. CASE Moved(Tail(h.todo), {"backend"})
  <2>1. Goes(Tail(h.todo), {"backend"}) /\ h'.rec = h.rec /\ h'.made = h.made /\ h'.todo = Tail(h.todo)
    BY <1>5 DEF Moved, Goes
  <2>2. RbOff(2)'
    BY <2>1, RbPartHead DEF RbOff
  <2> QED
    BY <1>2, <1>3, <2>1, <2>2, RollbackGoes
<1> QED
  BY <1>2, <1>4, <1>5

(* The device is disconnected. *)
LEMMA RollbackUnplug ==
  ASSUME AInv, h # Idle, RollingBack, NEW n \in 1..2, RbUnplug(n), n = 1 => RunDisconnect, n = 2 => RbGone
  PROVE  Fine
<1>1. h \in Helper /\ h.rec \in TrustedRecord /\ h.back /\ HelperTyped /\ AttachTypeOK /\ k \in Kernel
  BY RollbackIs
<1>2. Tail(h.todo) = Drop(RbUnplugCalls, n + 1)
  <2>1. n \in 1..3
    OBVIOUS
  <2> QED
    BY <2>1, RbUnplugHead
<1>3. CASE n = 1
  <2>1. NbdDisconnect(k, h.rec) \in Teardown(k, h.rec) /\ "disconnect" \in Command \ Builds
    BY DEF Teardown, Command, Builds
  <2>2. /\ Yields /\ Kept /\ rec' = rec
        /\ Moved(Tail(h.todo), {}) \/ h' = Failed
    BY <1>1, <1>3, <2>1, TeardownMoves DEF RunDisconnect
  <2>3. CASE h' = Failed
    BY <1>1, <2>2, <2>3, RollbackStops
  <2>4. CASE Moved(Tail(h.todo), {})
    <3>1. Goes(Tail(h.todo), {}) /\ h'.rec = h.rec /\ h'.made = h.made /\ h'.todo = Drop(RbUnplugCalls, 2)
      BY <1>2, <1>3, <2>4 DEF Moved, Goes
    <3>2. Unmapped(k', h.rec)
      BY <1>1, <2>2, YieldsKeeps DEF RbUnplug
    <3>3. RbUnplug(2)'
      BY <3>1, <3>2 DEF RbUnplug
    <3> QED
      BY <2>2, <3>1, <3>3, RollbackGoes
  <2> QED
    BY <2>2, <2>3, <2>4
<1>4. CASE n = 2
  <2>1. /\ k' = k /\ rec' = rec /\ nonce' = nonce /\ env' = env /\ faults' = faults
        /\ (k.backend[h.rec.dev] = Absent /\ Moved(Tail(h.todo), {"backend"})) \/ h' = Failed
    BY <1>1, <1>4, AskMoves DEF RbGone
  <2>2. Kept
    BY <1>1, <2>1, QuietKept DEF AttachTypeOK, Counted
  <2>3. CASE h' = Failed
    BY <1>1, <2>1, <2>2, <2>3, RollbackStops
  <2>4. CASE k.backend[h.rec.dev] = Absent /\ Moved(Tail(h.todo), {"backend"})
    <3>1. Goes(Tail(h.todo), {"backend"}) /\ h'.rec = h.rec /\ h'.made = h.made /\ h'.todo = Drop(RbUnplugCalls, 3)
      BY <1>2, <1>4, <2>4 DEF Moved, Goes
    <3>2. Down(k, h.rec) /\ Unmapped(k, h.rec)
      BY <1>1, <2>4, SeenFacts DEF RbUnplug
    <3>3. RbUnplug(3)'
      BY <2>1, <3>1, <3>2 DEF RbUnplug
    <3> QED
      BY <2>1, <2>2, <3>1, <3>3, RollbackGoes
  <2> QED
    BY <2>1, <2>3, <2>4
<1> QED
  BY <1>3, <1>4

(* The record is retired. *)
LEMMA RollbackRetire ==
  ASSUME AInv, h # Idle, RollingBack, RbUnplug(3), RbRetire
  PROVE  Fine
<1>1. h \in Helper /\ h.rec \in TrustedRecord /\ AttachTypeOK
  BY RollbackIs
<1>2. /\ h' = Idle /\ k' = k /\ rec' = [rec EXCEPT ![h.vol] = NoRecord]
      /\ nonce' = nonce /\ env' = env /\ faults' = faults
  BY DEF RbRetire
<1>3. Gone(k, rec[h.vol])
  <2>1. Down(k, h.rec) /\ Unmapped(k, h.rec) /\ SameConnection(rec[h.vol], h.rec)
    BY DEF RbUnplug, RollingBack, Named
  <2> QED
    BY <2>1 DEF SameConnection, Gone, Down, Unmapped, Connected, OwnMap
<1>4. Counted
  BY <1>1, <1>2 DEF AttachTypeOK, Counted
<1>5. OwnProof(NoRecord)
  BY DEF OwnProof
<1>6. PICK v \in Vol : v = h.vol
  BY <1>1, HelperFields
<1>7. Kept
  BY <1>2, <1>3, <1>4, <1>5, <1>6, WriteKept
<1> QED
  BY <1>2, <1>7 DEF Fine, HelperTyped, Stage

(* The mapping cannot be taken down: nothing has changed. *)
LEMMA UnreadableKept ==
  ASSUME AInv, NEW c, VgUnreadable(c)
  PROVE  h' = Failed /\ Yields /\ Kept /\ rec' = rec
<1>1. AttachTypeOK /\ k \in Kernel
  BY NoOrphanIs, TypeIs DEF AInv
<1>2. h' = Failed /\ k' = k /\ rec' = rec /\ nonce' = nonce /\ env' = env /\ faults' = faults
  BY DEF VgUnreadable
<1>3. Counted
  BY <1>1, <1>2, SameCounted DEF AttachTypeOK
<1> QED
  BY <1>1, <1>2, <1>3, SameYields, QuietKept

(* A step of a rollback. *)
LEMMA RollbackFine ==
  ASSUME AInv, h # Idle, RollingBack, HelperStep
  PROVE  Fine
<1>1. {"umount", "off"} \subseteq Command \ Builds
  BY DEF Command, Builds
<1>2. ASSUME RunOff, Tail(h.todo) = Rollback PROVE Fine
  <2>1. CASE VgUnreadable("off")
    BY <2>1, UnreadableKept, RollbackIs, RollbackStops
  <2>2. CASE Run("off", DeactivateScoped(k, h.rec))
    BY <1>1, <1>2, <2>2, RollbackLayer DEF Teardown
  <2> QED
    BY <1>2, <2>1, <2>2 DEF RunOff
<1>3. ASSUME RunUmount, Tail(h.todo) = Rollback PROVE Fine
  BY <1>1, <1>3, RollbackLayer DEF Teardown, RunUmount
<1> QED
  BY RbLoopSteps, RollbackObserve, RollbackIdentity, RollbackBackend, RbPartSteps, RbPartHead,
     <1>2, <1>3, RollbackNonce, RbUnplugSteps, RollbackUnplug, RollbackRetire DEF RollingBack


-----------------------------------------------------------------------------
(* The steps that a detach or a recovery puts first. *)

InPart(t, m, s) ==
    /\ Tearing /\ h.todo = Ahead(t, m) \o s /\ t # "none" /\ InsertedAt(t, m)
    /\ h.rec # NoRecord /\ rec[h.vol] = h.rec

(* Where the helper goes on. *)
PartTo(t, u, j, s) ==
    /\ h' \in Helper /\ h'.todo = Ahead(u, j) \o s /\ h'.rec = h.rec /\ h'.conn = h.conn
    /\ h'.obs = h.obs /\ h'.made = h.made /\ h'.verb = h.verb /\ h'.vol = h.vol
    /\ InsertedAt(u, j)'
    /\ t = "unplug" => u \in {"unplug", "none"} /\ (u = "none" => Down(k', h.rec))
PartGoes(t, s) == \E u \in Part, j \in 1..7 : PartTo(t, u, j, s)

(* A teardown that fails stops. *)
LEMMA TearingStops ==
  ASSUME Tearing, h' = Failed, Kept
  PROVE  Fine
<1>1. h' = Idle
  BY DEF Failed, Tearing
<1> QED
  BY <1>1 DEF Fine, HelperTyped, Stage

(* What it works on. *)
LEMMA TearingIs ==
  ASSUME AInv, h # Idle
  PROVE  /\ h \in Helper /\ HelperTyped /\ AttachTypeOK /\ k \in Kernel /\ OpenedActive
         /\ h.rec # NoRecord => h.rec \in TrustedRecord
         /\ h.vol \in Vol /\ OwnProof(rec[h.vol])
  BY NoOrphanIs, TypeIs, HelperFields DEF AInv, HelperTyped, RecordsOwn

(* The next of the calls that were put first. *)
LEMMA PartOn ==
  ASSUME NEW t \in Part, NEW m \in 1..7, NEW s \in Seq(Call), InPart(t, m, s), NEW K,
         Moved(Tail(h.todo), K),
         m < Len(PartCalls(t)) => /\ t = "force" /\ m \in 2..4 => MapOurs'
                                  /\ t = "unplug" => Unused' /\ BackendOurs',
         t = "unplug" /\ m = 2 => Down(k', h.rec)
  PROVE  PartGoes(t, s)
<1>1. t # "none" /\ h.todo = Ahead(t, m) \o s /\ m \in 1..Len(PartCalls(t))
  BY DEF InPart, InsertedAt
<1>2. /\ m < Len(PartCalls(t)) => Tail(h.todo) = Ahead(t, m + 1) \o s
      /\ m = Len(PartCalls(t)) => Tail(h.todo) = Ahead("none", 1) \o s
  BY <1>1, PartTail
<1>3. /\ h' \in Helper /\ h'.todo = Tail(h.todo) /\ h'.rec = h.rec /\ h'.conn = h.conn
      /\ h'.obs = h.obs /\ h'.made = h.made /\ h'.verb = h.verb /\ h'.vol = h.vol
  BY DEF Moved, Goes
<1>4. PICK L \in 1..7 : L = Len(PartCalls(t)) /\ (t = "unplug" => L = 2) /\ (t \in {"umount", "vgoff"} => L = 1)
  BY <1>1, PartsAre
<1>5. CASE m < Len(PartCalls(t))
  <2>1. PICK j \in 1..7 : j = m + 1 /\ j \in 1..L
    BY <1>4, <1>5
  <2>2. t \notin {"umount", "vgoff"} /\ (t = "unplug" /\ j = 2 => BackendOurs') /\ (t = "unplug" => Unused')
    BY <1>4, <1>5
  <2>3. t = "force" /\ j \in 3..5 => MapOurs'
    BY <1>5, <2>1
  <2>4. InsertedAt(t, j)'
    BY <1>1, <1>4, <2>1, <2>2, <2>3 DEF InsertedAt
  <2>5. h'.todo = Ahead(t, j) \o s
    BY <1>2, <1>3, <1>5, <2>1
  <2>6. PartTo(t, t, j, s)
    BY <1>1, <1>3, <2>4, <2>5 DEF PartTo
  <2> QED
    BY <2>6 DEF PartGoes
<1>6. CASE m = Len(PartCalls(t))
  <2>1. "none" \in Part /\ InsertedAt("none", 1)'
    BY NoneInserted
  <2>2. PartTo(t, "none", 1, s)
    BY <1>2, <1>3, <1>4, <1>6, <2>1 DEF PartTo
  <2> QED
    BY <2>1, <2>2 DEF PartGoes
<1> QED
  BY <1>1, <1>4, <1>5, <1>6

(* The outcome of a step. *)
PartFine(t, s) == Yields /\ Kept /\ rec' = rec /\ (PartGoes(t, s) \/ h' = Failed)

(* A command. *)
LEMMA PartTeardown ==
  ASSUME AInv, h # Idle, NEW t \in Part, NEW m \in 1..7, NEW s \in Seq(Call), InPart(t, m, s),
         NEW c \in Command \ Builds, NEW w \in Teardown(k, h.rec), Run(c, w),
         \/ t \in {"umount", "vgoff"} \/ (t = "intent" /\ m = 4) \/ (t = "decide" /\ m = 3)
         \/ (t = "force" /\ m = 5)
         \/ (t = "unplug" /\ m = 2 /\ w = NbdDisconnect(k, h.rec))
  PROVE  PartFine(t, s)
<1>1. h \in Helper /\ h.rec \in TrustedRecord /\ k \in Kernel
  BY TearingIs DEF InPart
<1>2. /\ Yields /\ Kept /\ rec' = rec
      /\ (k' = w /\ Moved(Tail(h.todo), {})) \/ h' = Failed
  BY <1>1, TeardownMoves
<1>3. CASE h' = Failed
  BY <1>2, <1>3 DEF PartFine
<1>4. CASE k' = w /\ Moved(Tail(h.todo), {})
  <2>1. t = "unplug" /\ m = 2 => Down(k', h.rec)
    <3>1. SUFFICES ASSUME t = "unplug" PROVE Down(k', h.rec)
      OBVIOUS
    <3>2. k' = NbdDisconnect(k, h.rec)
      BY <1>4, <3>1
    <3>3. k'.backend[h.rec.dev] = Absent /\ h.rec.nonce \in 1..MaxConn
      BY <1>1, <3>2, DisconnectYields, RecordFields
    <3> QED
      BY <3>3 DEF Down, Connected, Absent
  <2>2. t = "unplug" => Len(PartCalls(t)) = 2 /\ m = 2
    BY PartsAre
  <2>4. t = "unplug" => ~(m < Len(PartCalls(t)))
    <3>1. PICK L : L = Len(PartCalls(t))
      OBVIOUS
    <3>2. t = "unplug" => L = 2 /\ m = 2
      BY <2>2, <3>1
    <3>3. t = "unplug" => ~(m < L)
      BY <3>2
    <3> QED
      BY <3>1, <3>3
  <2>3. PartGoes(t, s)
    BY <2>4, <1>4, <2>1, PartOn
  <2> QED
    BY <1>2, <2>3 DEF PartFine
<1> QED
  BY <1>2, <1>3, <1>4

(* A call that only looks. *)
LEMMA PartLooks ==
  ASSUME AInv, h # Idle, NEW t \in Part, NEW m \in 1..7, NEW s \in Seq(Call), InPart(t, m, s),
         k' = k, rec' = rec, nonce' = nonce, env' = env, faults' = faults, NEW K,
         Moved(Tail(h.todo), K) \/ h' = Failed,
         Moved(Tail(h.todo), K) =>
           /\ t = "force" /\ m \in 2..4 => MapOurs'
           /\ t = "unplug" => m = 1 /\ Unused' /\ BackendOurs'
  PROVE  PartFine(t, s)
  BY TearingIs, QuietKept, SameYields, PartOn DEF AttachTypeOK, Counted, PartFine

(* The connection is asked for. *)
LEMMA PartNonce ==
  ASSUME AInv, h # Idle, NEW t \in Part, NEW m \in 1..7, NEW s \in Seq(Call), InPart(t, m, s),
         VerifyConnection,
         (t = "intent") \/ (t = "force" /\ m \in {1, 3, 6}) \/ (t = "unplug" /\ m = 1)
  PROVE  PartFine(t, s)
<1>1. HelperTyped
  BY TearingIs
<1>2. /\ k' = k /\ rec' = rec /\ nonce' = nonce /\ env' = env /\ faults' = faults
      /\ (Connected(k, h.rec) /\ Moved(Tail(h.todo), {"backend"})) \/ h' = Failed
  BY <1>1, AskMoves DEF VerifyConnection
<1>3. CASE h' = Failed
  BY TearingIs, <1>2, <1>3, QuietKept, SameYields DEF PartFine, AttachTypeOK, Counted
<1>4. CASE Connected(k, h.rec) /\ Moved(Tail(h.todo), {"backend"})
  <2>1. h'.rec = h.rec /\ h'.verb = h.verb /\ h'.stale = h.stale \ {"backend"}
    BY <1>4 DEF Moved, Goes
  <2>2. (MapOurs => MapOurs') /\ (Unused => Unused')
    BY <1>2, <2>1, OursKept
  <2>3. BackendOurs'
    BY <1>2, <1>4, <2>1 DEF BackendOurs
  <2>4. (t = "force" /\ m \in 3..5 => MapOurs) /\ (t = "unplug" => Unused)
    BY DEF InPart, InsertedAt
  <2>5. /\ t = "force" /\ m \in 2..4 => MapOurs'
        /\ t = "unplug" => m = 1 /\ Unused' /\ BackendOurs'
    BY <2>2, <2>3, <2>4
  <2> QED
    BY <1>2, <1>4, <2>5, PartLooks
<1> QED
  BY <1>2, <1>3, <1>4

(* The other calls that ask or look. *)
LEMMA PartPlain ==
  ASSUME AInv, h # Idle, NEW t \in Part, NEW m \in 1..7, NEW s \in Seq(Call), InPart(t, m, s),
         t # "unplug", ~(t = "force" /\ m \in 2..4),
         NEW c, NEW good, Ask(c, good) \/ Look(c, good)
  PROVE  PartFine(t, s)
  BY TearingIs, AskMoves, PartLooks, LookMoves

(* The calls that end a teardown hold no end of a forced removal. *)
Unforced(s) == \A i \in 1..Len(s) : s[i] # "forced"

(* The mapping that a teardown may touch, once it was found again. *)
LEMMA RecoverableOurs ==
  ASSUME h \in Helper, h.rec \in TrustedRecord, OwnProof(h.rec), NEW b, Recoverable(k, h.rec, b),
         Active(k, h.rec)
  PROVE  Ours(h.rec.att)
  BY RecordFields DEF Recoverable, Observable, OwnProof, Verified, Clear, Ours

(* Past the forced removal. *)
LEMMA PastForced ==
  ASSUME NEW m \in {2, 4}, NEW s \in Seq(Call), Unforced(s), NEW u, u = Ahead("force", m) \o s
  PROVE  SubSeq(u, 1 + CHOOSE i \in DOMAIN u : u[i] = "forced", Len(u)) = s
<1>1. PICK p \in Seq(Call) : /\ p = Ahead("force", m) /\ Len(p) = 8 - m /\ p[8 - m] = "forced"
                             /\ \A i \in 1..(7 - m) : p[i] # "forced"
  <2>1. /\ ForceCalls \in Seq(Call) /\ Len(ForceCalls) = 7 /\ ForceCalls[7] = "forced"
        /\ \A i \in 1..6 : ForceCalls[i] # "forced"
    BY InsertedAre DEF ForceCalls
  <2>2. Ahead("force", m) = SubSeq(ForceCalls, m, 7)
    BY <2>1 DEF Ahead, PartCalls, Drop
  <2>3. /\ SubSeq(ForceCalls, m, 7) \in Seq(Call) /\ Len(SubSeq(ForceCalls, m, 7)) = 8 - m
        /\ \A i \in 1..(8 - m) : SubSeq(ForceCalls, m, 7)[i] = ForceCalls[i + m - 1]
    <3>1. m \in Int /\ 7 \in Int /\ m <= 7 /\ 7 - m + 1 = 8 - m /\ \A i \in m..7 : ForceCalls[i] \in Call
      <4>1. \A i \in 1..7 : ForceCalls[i] \in Call
        BY <2>1, ElementOfSeq
      <4>2. \A i \in m..7 : i \in 1..7
        OBVIOUS
      <4>3. m \in Int /\ m <= 7 /\ 7 - m + 1 = 8 - m
        OBVIOUS
      <4> QED
        BY <4>1, <4>2, <4>3
    <3>2. /\ SubSeq(ForceCalls, m, 7) \in Seq(Call) /\ Len(SubSeq(ForceCalls, m, 7)) = 7 - m + 1
          /\ \A i \in 1..(7 - m + 1) : SubSeq(ForceCalls, m, 7)[i] = ForceCalls[m + i - 1]
      BY <3>1, SubSeqProperties
    <3>3. \A i \in 1..(8 - m) : m + i - 1 = i + m - 1
      OBVIOUS
    <3> QED
      BY <3>1, <3>2, <3>3
  <2>4. \A i \in 1..(7 - m) : SubSeq(ForceCalls, m, 7)[i] # "forced"
    BY <2>1, <2>3
  <2>5. SubSeq(ForceCalls, m, 7)[8 - m] = "forced"
    BY <2>1, <2>3
  <2> QED
    BY <2>2, <2>3, <2>4, <2>5
<1>2. PICK L \in {4, 6} : L = 8 - m
  OBVIOUS
<1>3. /\ u = p \o s /\ u \in Seq(Call) /\ Len(u) = L + Len(s)
      /\ \A i \in 1..L : u[i] = p[i]
      /\ \A i \in 1..Len(s) : u[L + i] = s[i]
  BY <1>1, <1>2
<1>4. DOMAIN u = 1..(L + Len(s)) /\ Len(s) \in Nat
  BY <1>3
<1>5. \A i \in DOMAIN u : u[i] = "forced" <=> i = L
  <2>1. TAKE i \in DOMAIN u
  <2>2. CASE i < L
    BY <1>1, <1>2, <1>3, <1>4, <2>2
  <2>3. CASE i = L
    BY <1>1, <1>2, <1>3, <2>3
  <2>4. CASE i > L
    BY <1>4, <2>4, <1>3 DEF Unforced
  <2> QED
    BY <1>4, <2>2, <2>3, <2>4
<1>6. (CHOOSE i \in DOMAIN u : u[i] = "forced") = L
  BY <1>4, <1>5
<1>7. SubSeq(u, 1 + L, Len(u)) = s
  BY <1>1, <1>2, <1>3
<1>8. PICK z : z = CHOOSE i \in DOMAIN u : u[i] = "forced"
  OBVIOUS
<1>9. SubSeq(u, 1 + z, Len(u)) = s
  BY <1>6, <1>7, <1>8
<1> QED
  BY <1>8, <1>9

(* The mapping that may be removed directly, if it is still there. *)
LEMMA PartForce ==
  ASSUME AInv, h # Idle, NEW m \in {2, 4}, NEW s \in Seq(Call), InPart("force", m, s), Unforced(s),
         ForceTarget
  PROVE  PartFine("force", s)
<1>1. /\ h \in Helper /\ HelperTyped /\ AttachTypeOK /\ k \in Kernel /\ h.rec \in TrustedRecord
      /\ OwnProof(h.rec) /\ h.todo = Ahead("force", m) \o s /\ "force" \in Part
  BY TearingIs DEF InPart, Part
<1>2. PICK K : K = {"map", "mnt", "holder"}
  OBVIOUS
<1>3. PICK rest : rest = SubSeq(h.todo, 1 + CHOOSE i \in DOMAIN h.todo : h.todo[i] = "forced", Len(h.todo))
  OBVIOUS
<1>4. /\ k' = k /\ rec' = rec /\ nonce' = nonce /\ env' = env /\ faults' = faults /\ At("force")
  BY DEF ForceTarget
<1>5. \/ Recoverable(k, h.rec, FALSE) /\ Active(k, h.rec) /\ h' = On(Seen(K))
      \/ h' = To(rest, Seen(K))
      \/ h' = Failed
  BY <1>2, <1>3 DEF ForceTarget
<1>6. Kept /\ Yields
  BY <1>1, <1>4, QuietKept, SameYields DEF AttachTypeOK, Counted
<1>7. CASE h' = Failed
  BY <1>4, <1>6, <1>7 DEF PartFine
<1>8. CASE Recoverable(k, h.rec, FALSE) /\ Active(k, h.rec) /\ h' = On(Seen(K))
  <2>1. Moved(Tail(h.todo), K)
    BY <1>1, <1>4, AtIs, <1>8, SeenMoves DEF On
  <2>2. h'.rec = h.rec /\ h'.verb = h.verb
    BY <2>1 DEF Moved, Goes
  <2>3. Ours(h.rec.att)
    BY <1>1, <1>8, RecoverableOurs
  <2>4. MapOurs'
    BY <1>4, <2>2, <2>3 DEF MapOurs, Ours
  <2>5. m \in 1..7
    OBVIOUS
  <2> QED
    BY <1>1, <1>4, <2>1, <2>4, <2>5, PartLooks
<1>9. CASE h' = To(rest, Seen(K))
  <2>1. rest = s
    BY <1>1, <1>3, PastForced
  <2>2. Moved(s, K)
    BY <1>1, <1>4, <1>9, <2>1, SeenMoves
  <2>3. Ahead("none", 1) \o s = s /\ InsertedAt("none", 1)' /\ "none" \in Part
    BY NoneAhead, NoneInserted
  <2>4. PartTo("force", "none", 1, s)
    BY <2>2, <2>3 DEF PartTo, Moved, Goes
  <2>5. PartGoes("force", s)
    BY <2>3, <2>4 DEF PartGoes
  <2> QED
    BY <1>4, <1>6, <2>5 DEF PartFine
<1> QED
  BY <1>5, <1>7, <1>8, <1>9

(* A deactivation that failed is followed by a removal. *)
LEMMA PartVgOffFails ==
  ASSUME AInv, h # Idle, NEW s \in Seq(Call), InPart("vgoff", 1, s), VgOffFails
  PROVE  PartFine("vgoff", s)
<1>1. /\ h \in Helper /\ AttachTypeOK /\ k \in Kernel /\ h.rec \in TrustedRecord
      /\ h.todo = Ahead("vgoff", 1) \o s
  BY TearingIs DEF InPart
<1>2. "vgoff" \in Part /\ "force" \in Part /\ 1 \in 1..7 /\ 1 \in 1..Len(PartCalls("vgoff"))
      /\ Len(PartCalls("vgoff")) = 1 /\ 1 \in 1..Len(PartCalls("force"))
  BY PartsAre DEF Part
<1>3. Tail(h.todo) = s
  BY <1>1, <1>2, PartTail, NoneAhead
<1>4. /\ rec' = rec /\ nonce' = nonce /\ env' = env
      /\ faults' = faults \/ (faults' = faults + 1 /\ faults < MaxFaults)
      /\ k' \in {k, Deactivate(k, h.rec)}
      /\ \/ h' = To(<<"nonce", "force", "nonce", "force", "dmremove", "nonce", "forced">> \o Tail(h.todo), h)
         \/ h' = Failed
  BY DEF VgOffFails
<1>5. Yields
  BY <1>1, <1>4, OffYields, SameYields
<1>6. Kept
  BY <1>1, <1>4, AttachAssumption, SameCounted, <1>5, YieldsKept DEF AttachTypeOK
<1>7. Ahead("force", 1) = ForceCalls /\ ForceCalls \in Seq(Call)
  BY <1>2, PartsAre, InsertedAre, DropFirst DEF Ahead
<1>8. PICK calls \in Seq(Call) : calls = ForceCalls \o s
  BY <1>7, ConcatProperties
<1>9. ASSUME h' # Failed PROVE PartTo("vgoff", "force", 1, s)
  <2>1. h' = After(k, calls, h)
    BY <1>3, <1>4, <1>8, <1>9, Zenon DEF To, ForceCalls
  <2>2. /\ h' \in Helper /\ h'.todo = calls /\ h'.rec = h.rec /\ h'.conn = h.conn
        /\ h'.obs = h.obs /\ h'.made = h.made /\ h'.verb = h.verb /\ h'.vol = h.vol
    BY <1>1, AfterIs, <2>1
  <2>3. InsertedAt("force", 1)'
    BY <1>2 DEF InsertedAt
  <2>4. h'.todo = Ahead("force", 1) \o s
    BY <1>7, <1>8, <2>2
  <2> QED
    BY <2>2, <2>3, <2>4 DEF PartTo
<1>10. PartGoes("vgoff", s) \/ h' = Failed
  BY <1>2, <1>9 DEF PartGoes
<1> QED
  BY <1>4, <1>5, <1>6, <1>10 DEF PartFine

(* A step of the calls that were put first. *)
LEMMA PartStepFine ==
  ASSUME AInv, h # Idle, NEW t \in Part, NEW m \in 1..7, NEW s \in Seq(Call), InPart(t, m, s), Unforced(s),
         HelperStep
  PROVE  PartFine(t, s)
<1>1. t # "none" /\ h.todo = Ahead(t, m) \o s /\ m \in 1..Len(PartCalls(t))
  BY DEF InPart, InsertedAt
<1>2. Head(h.todo) = PartHead(t, m)
  BY <1>1, PartTail
<1>16. {"umount", "off", "vgoff", "dmremove", "disconnect"} \subseteq Command \ Builds
  BY DEF Command, Builds
<1>3. CASE t = "umount" /\ RunUmount
  BY <1>3, <1>16, PartTeardown DEF Teardown, RunUmount
<1>4. CASE t = "vgoff" /\ RunVgOff
  BY <1>4, <1>16, PartTeardown DEF Teardown, RunVgOff
<1>5. CASE t = "vgoff" /\ m = 1 /\ VgOffFails
  BY <1>5, PartVgOffFails
<1>6. CASE VerifyConnection /\ (t = "intent" \/ (t = "force" /\ m \in {1, 3, 6}) \/ (t = "unplug" /\ m = 1))
  BY <1>6, PartNonce
<1>7. CASE t = "intent" /\ Intended
  BY <1>7, PartPlain DEF Intended
<1>8. CASE RunOff /\ ((t = "intent" /\ m = 4) \/ (t = "decide" /\ m = 3))
  <2>1. CASE VgUnreadable("off")
    BY <2>1, UnreadableKept DEF PartFine
  <2>2. CASE Run("off", DeactivateScoped(k, h.rec))
    BY <1>8, <1>16, <2>2, PartTeardown DEF Teardown
  <2> QED
    BY <1>8, <2>1, <2>2 DEF RunOff
<1>9. CASE t = "force" /\ m \in {2, 4} /\ ForceTarget
  BY <1>9, PartForce
<1>10. CASE t = "force" /\ m = 5 /\ DmRemove
  BY <1>10, <1>16, PartTeardown DEF Teardown, DmRemove
<1>11. CASE t = "force" /\ m = 7 /\ Forced
  <2>1. ~(m \in 2..4) /\ t # "unplug"
    BY <1>11
  <2> QED
    BY <1>11, <2>1, PartPlain DEF Forced
<1>12. CASE t = "unplug" /\ m = 2 /\ RunDisconnect
  BY <1>12, <1>16, PartTeardown DEF Teardown, RunDisconnect
<1>13. CASE t = "decide" /\ RecIntended
  BY <1>13, PartPlain DEF RecIntended
<1>14. CASE t = "decide" /\ AbsentBackend
  BY <1>14, PartPlain DEF AbsentBackend
<1>15. \/ t = "umount" /\ m = 1 /\ RunUmount
       \/ t = "vgoff" /\ m = 1 /\ RunVgOff
       \/ t = "vgoff" /\ m = 1 /\ VgOffFails
       \/ t = "intent" /\ m \in {1, 3} /\ VerifyConnection
       \/ t = "intent" /\ m = 2 /\ Intended
       \/ t = "intent" /\ m = 4 /\ RunOff
       \/ t = "force" /\ m \in {1, 3, 6} /\ VerifyConnection
       \/ t = "force" /\ m \in {2, 4} /\ ForceTarget
       \/ t = "force" /\ m = 5 /\ DmRemove
       \/ t = "force" /\ m = 7 /\ Forced
       \/ t = "unplug" /\ m = 1 /\ VerifyConnection
       \/ t = "unplug" /\ m = 2 /\ RunDisconnect
       \/ t = "decide" /\ m = 1 /\ RecIntended
       \/ t = "decide" /\ m = 2 /\ AbsentBackend
       \/ t = "decide" /\ m = 3 /\ RunOff
  BY <1>1, <1>2, PartSteps
<1> QED
  BY <1>3, <1>4, <1>5, <1>6, <1>7, <1>8, <1>9, <1>10, <1>11, <1>12, <1>13, <1>14, <1>15

(* What is left of a detach or a recovery has no forced removal. *)
LEMMA RestUnforced ==
  /\ \A n \in 1..11 : Drop(DetachCalls, n) \in Seq(Call) /\ Unforced(Drop(DetachCalls, n))
  /\ \A n \in 1..5 : Drop(RecoverCalls, n) \in Seq(Call) /\ Unforced(Drop(RecoverCalls, n))
<1>1. ASSUME NEW q \in Seq(Call), \A i \in 1..Len(q) : q[i] # "forced", NEW n \in 1..Len(q)
      PROVE  Drop(q, n) \in Seq(Call) /\ Unforced(Drop(q, n))
  <2>1. PICK L \in Nat : L = Len(q)
    OBVIOUS
  <2>2. n \in Int /\ L \in Int /\ n <= L /\ \A i \in n..L : q[i] \in Call
    BY <2>1, ElementOfSeq
  <2>3. /\ SubSeq(q, n, L) \in Seq(Call) /\ Len(SubSeq(q, n, L)) = L - n + 1
        /\ \A i \in 1..(L - n + 1) : SubSeq(q, n, L)[i] = q[n + i - 1]
    BY <2>2, SubSeqProperties
  <2>4. \A i \in 1..(L - n + 1) : n + i - 1 \in 1..L
    BY <2>1
  <2>5. \A i \in 1..(L - n + 1) : SubSeq(q, n, L)[i] # "forced"
    BY <1>1, <2>1, <2>3, <2>4
  <2> QED
    BY <2>1, <2>3, <2>5 DEF Drop, Unforced
<1>2. Len(DetachCalls) = 11 /\ DetachCalls \in Seq(Call) /\ \A i \in 1..11 : DetachCalls[i] # "forced"
  BY OtherCallsAre DEF DetachCalls
<1>3. Len(RecoverCalls) = 5 /\ RecoverCalls \in Seq(Call) /\ \A i \in 1..5 : RecoverCalls[i] # "forced"
  BY OtherCallsAre DEF RecoverCalls
<1> QED
  BY <1>1, <1>2, <1>3

(* A step before the rest of a detach. *)
LEMMA DetachingPart ==
  ASSUME AInv, h # Idle, NEW t \in Part, t # "none", NEW m \in 1..7, NEW n \in 1..11, Detaching(t, m, n),
         HelperStep
  PROVE  Fine
<1>1. PICK s \in Seq(Call) : s = Drop(DetachCalls, n) /\ Unforced(s)
  BY RestUnforced
<1>2. /\ Tearing /\ h.todo = Ahead(t, m) \o s /\ InsertedAt(t, m) /\ n \in {6, 8, 10} /\ h.rec # NoRecord
      /\ rec[h.vol] = h.rec /\ (~h.conn => Down(k, h.rec))
      /\ n = 10 => t = "unplug" /\ Unmapped(k, h.rec)
  BY <1>1 DEF Detaching
<1>3. InPart(t, m, s)
  BY <1>2 DEF InPart
<1>4. Yields /\ Kept /\ rec' = rec /\ (PartGoes(t, s) \/ h' = Failed)
  BY <1>1, <1>3, PartStepFine DEF PartFine
<1>5. CASE h' = Failed
  BY <1>2, <1>4, <1>5, TearingStops
<1>6. CASE PartGoes(t, s)
  BY <1>6, <1>2, TearingIs, <1>4, YieldsKeeps, <1>1 DEF PartGoes, PartTo, Tearing, Detaching, Fine,
     HelperTyped, Stage
<1> QED
  BY <1>4, <1>5, <1>6

(* A step before the rest of a recovery. *)
LEMMA RecoveringPart ==
  ASSUME AInv, h # Idle, NEW t \in Part, t # "none", NEW m \in 1..7, NEW n \in 1..5, Recovering(t, m, n),
         HelperStep
  PROVE  Fine
<1>1. PICK s \in Seq(Call) : s = Drop(RecoverCalls, n) /\ Unforced(s)
  BY RestUnforced
<1>2. /\ Tearing /\ h.todo = Ahead(t, m) \o s /\ InsertedAt(t, m) /\ n = 2 /\ h.rec # NoRecord
      /\ rec[h.vol] = h.rec
  BY <1>1 DEF Recovering
<1>3. InPart(t, m, s)
  BY <1>2 DEF InPart
<1>4. Yields /\ Kept /\ rec' = rec /\ (PartGoes(t, s) \/ h' = Failed)
  BY <1>1, <1>3, PartStepFine DEF PartFine
<1>5. CASE h' = Failed
  BY <1>2, <1>4, <1>5, TearingStops
<1>6. CASE PartGoes(t, s)
  <2>1. PICK u \in Part, j \in 1..7 : PartTo(t, u, j, s)
    BY <1>6 DEF PartGoes
  <2>2. /\ h' \in Helper /\ h'.todo = Ahead(u, j) \o s /\ h'.rec = h.rec
        /\ h'.made = h.made /\ h'.verb = h.verb /\ h'.vol = h.vol
        /\ InsertedAt(u, j)'
    BY <2>1 DEF PartTo
  <2>3. Tearing'
    BY <1>2, <2>2 DEF Tearing
  <2>4. Recovering(u, j, 2)'
    BY <1>1, <1>2, <1>4, <2>2, <2>3 DEF Recovering
  <2>5. 2 \in 1..5
    OBVIOUS
  <2> QED
    BY <1>4, <2>1, <2>2, <2>4, <2>5 DEF Fine, HelperTyped, Stage
<1> QED
  BY <1>4, <1>5, <1>6

-----------------------------------------------------------------------------
(* Detach. *)

(* The record is read. *)
LEMMA ReadMoves ==
  ASSUME HelperTyped, AttachTypeOK, ReadRecord
  PROVE  /\ k' = k /\ rec' = rec /\ nonce' = nonce /\ env' = env /\ faults' = faults
         /\ \/ /\ rec[h.vol] # NoRecord /\ Goes(Tail(h.todo), {}) /\ h'.rec = rec[h.vol]
               /\ h'.made = h.made /\ h'.conn = h.conn /\ h'.obs = h.obs
            \/ h' = Failed
<1>1. At("record") /\ k' = k /\ rec' = rec /\ nonce' = nonce /\ env' = env /\ faults' = faults
  BY DEF ReadRecord
<1>2. h \in Helper
  BY <1>1, AtIs
<1>3. PICK r \in {NoRecord} \cup TrustedRecord : r = rec[h.vol]
  BY <1>2, TypeIs, HelperFields
<1>4. PICK calls \in Seq(Call) : calls = Tail(h.todo)
  BY <1>1, AtIs
<1>5. (r # NoRecord /\ h' = After(k, calls, WithRecord(h, r))) \/ h' = Failed
  BY <1>3, <1>4 DEF ReadRecord, On, To, WithRecord
<1>6. CASE h' = Failed
  BY <1>1, <1>6
<1>7. CASE r # NoRecord /\ h' = After(k, calls, WithRecord(h, r))
  <2>1. h' = After(k', calls, WithRecord(h, r)) /\ h.stale = h.stale \ {}
    BY <1>1, <1>7
  <2>2. Goes(calls, {}) /\ h'.rec = r /\ h'.made = h.made /\ h'.conn = h.conn /\ h'.obs = h.obs
    BY <1>2, <2>1, RecordGoes
  <2> QED
    BY <1>1, <1>3, <1>4, <1>7, <2>2
<1> QED
  BY <1>5, <1>6, <1>7

WithConn(g, b) == [g EXCEPT !.conn = b]

(* The backend is asked for, and what was found is noted. *)
LEMMA BackendMoves ==
  ASSUME HelperTyped, AskBackend
  PROVE  /\ k' = k /\ rec' = rec /\ nonce' = nonce /\ env' = env /\ faults' = faults
         /\ \/ /\ Goes(Tail(h.todo), {"backend"})
               /\ h'.rec = h.rec /\ h'.made = h.made /\ h'.obs = h.obs /\ (h'.conn <=> Connected(k, h.rec))
            \/ h' = Failed
<1>1. At("backend") /\ k' = k /\ rec' = rec /\ nonce' = nonce /\ env' = env /\ faults' = faults
  BY DEF AskBackend
<1>2. PICK g : g = Seen({"backend"})
  OBVIOUS
<1>3. PICK o \in BOOLEAN : o = Connected(k, h.rec)
  BY DEF Connected
<1>4. h \in Helper /\ Tail(h.todo) \in Seq(Call)
  BY <1>1, AtIs
<1>5. h' = After(k, Tail(h.todo), WithConn(g, o)) \/ h' = Failed
  BY <1>2, <1>3 DEF AskBackend, On, To, WithConn
<1>6. CASE h' = Failed
  BY <1>1, <1>6
<1>7. CASE h' = After(k, Tail(h.todo), WithConn(g, o))
  <2>1. /\ g \in Helper /\ g.vol = h.vol /\ g.att = h.att /\ g.rec = h.rec
        /\ g.verb = h.verb /\ g.conn = h.conn /\ g.obs = h.obs /\ g.tried = h.tried
        /\ g.made = h.made /\ g.back = h.back /\ g.whole = h.whole
        /\ g.stale = h.stale \ {"backend"}
    BY <1>2, <1>4, SeenIs
  <2>2. PICK f : f = WithConn(g, o)
    OBVIOUS
  <2>3. /\ f \in Helper /\ f.vol = g.vol /\ f.att = g.att /\ f.rec = g.rec
        /\ f.verb = g.verb /\ f.conn = o /\ f.obs = g.obs /\ f.tried = g.tried
        /\ f.made = g.made /\ f.back = g.back /\ f.whole = g.whole /\ f.stale = g.stale
    BY <2>1, <2>2 DEF WithConn, Helper
  <2>4. PICK e : e = h'
    OBVIOUS
  <2>5. PICK calls \in Seq(Call) : calls = Tail(h.todo)
    BY <1>4
  <2>6. e = After(k, calls, f)
    BY <1>7, <2>2, <2>4, <2>5
  <2>7. /\ e \in Helper /\ e.todo = calls /\ e.vol = f.vol /\ e.att = f.att /\ e.rec = f.rec
        /\ e.verb = f.verb /\ e.conn = f.conn /\ e.obs = f.obs /\ e.tried = f.tried
        /\ e.made = f.made /\ e.back = f.back /\ e.stale = f.stale
        /\ e.whole <=> (f.whole \/ (f.rec # NoRecord /\ Whole(k, f.rec)))
    BY <2>3, <2>6, AfterIs
  <2>8. Goes(Tail(h.todo), {"backend"})
    BY <1>1, <2>1, <2>3, <2>4, <2>5, <2>7 DEF Goes
  <2>9. h'.rec = h.rec /\ h'.made = h.made /\ h'.obs = h.obs /\ h'.conn = o
    BY <2>1, <2>3, <2>4, <2>7
  <2> QED
    BY <1>1, <1>3, <2>8, <2>9
<1> QED
  BY <1>5, <1>6, <1>7

(* A step is made, skipped, or refused. *)
LEMMA NeededMoves ==
  ASSUME HelperTyped, NEW c, NEW good, NEW needed, NEW calls \in Seq(Call), Needed(c, good, needed, calls)
  PROVE  /\ k' = k /\ rec' = rec /\ nonce' = nonce /\ env' = env /\ faults' = faults
         /\ \/ DetachState /\ good /\ needed /\ Moved(calls \o Tail(h.todo), {"map", "mnt", "holder"})
            \/ DetachState /\ good /\ ~needed /\ Moved(Tail(h.todo), {"map", "mnt", "holder"})
            \/ h' = Failed
  BY AtIs, ConcatProperties, ConcatEmptySeq, SeenMoves DEF Needed

(* What a detach still has to do. *)
LEMMA DetachingIs ==
  ASSUME AInv, h # Idle, NEW m \in 1..7, NEW n \in 1..11, Detaching("none", m, n)
  PROVE  /\ h \in Helper /\ HelperTyped /\ AttachTypeOK /\ k \in Kernel /\ OpenedActive /\ Tearing
         /\ h.vol \in Vol /\ OwnProof(rec[h.vol])
         /\ Tail(h.todo) = Drop(DetachCalls, n + 1)
         /\ n > 1 => h.rec \in TrustedRecord
         /\ n \in 2..10 => rec[h.vol] = h.rec
         /\ n > 2 => (~h.conn => Down(k, h.rec))
<1>1. /\ Tearing /\ (n > 1 => h.rec # NoRecord) /\ (n \in 2..10 => rec[h.vol] = h.rec)
      /\ n > 2 => (~h.conn => Down(k, h.rec))
  BY DEF Detaching
<1>2. Tail(h.todo) = Ahead("none", 1) \o Drop(DetachCalls, n + 1)
  BY NoneInserted, DetachingHead
<1>3. PICK s \in Seq(Call) : s = Drop(DetachCalls, n + 1)
  <2>1. n + 1 \in 1..(Len(DetachCalls) + 1) /\ DetachCalls \in Seq(Call)
    BY OtherCallsAre
  <2>2. PICK i \in 1..(Len(DetachCalls) + 1) : i = n + 1
    BY <2>1
  <2> QED
    BY <2>1, <2>2, DropCalls
<1>4. Tail(h.todo) = s
  BY <1>2, <1>3, NoneAhead
<1> QED
  BY <1>1, <1>3, <1>4, TearingIs

(* The next step of a detach. *)
LEMMA DetachingGoes ==
  ASSUME Tearing, NEW calls, NEW K, Goes(calls, K), h'.made = h.made, Kept,
         NEW t \in Part, NEW j \in 1..7, NEW n \in 1..11,
         calls = Ahead(t, j) \o Drop(DetachCalls, n), InsertedAt(t, j)',
         t # "none" => n \in {6, 8, 10},
         n > 1 => h'.rec # NoRecord,
         n \in 2..10 => rec'[h.vol] = h'.rec,
         n > 2 => (~h'.conn => Down(k', h'.rec)),
         n = 10 => /\ t \in {"none", "unplug"} /\ Unmapped(k', h'.rec) /\ (t = "none" => Down(k', h'.rec)),
         n = 11 => rec'[h.vol] = NoRecord /\ Gone(k', h'.rec)
  PROVE  Fine
  BY DEF Goes, Tearing, Detaching, Fine, HelperTyped, Stage

(* A detach that goes on with the call that follows. *)
LEMMA DetachingNext ==
  ASSUME AInv, h # Idle, NEW n \in 1..8, Detaching("none", 1, n), NEW K, Goes(Tail(h.todo), K), h'.made = h.made,
         k' = k, rec' = rec, Kept, h'.rec # NoRecord, rec[h.vol] = h'.rec,
         n > 1 => (~h'.conn => Down(k, h'.rec))
  PROVE  Fine
<1>1. 1 \in 1..7 /\ n \in 1..11
  OBVIOUS
<1>2. Tearing /\ Tail(h.todo) = Drop(DetachCalls, n + 1)
  BY <1>1, DetachingIs
<1>3. PICK i \in 1..11 : i = n + 1 /\ i \in 2..9
  OBVIOUS
<1>4. PICK s \in Seq(Call) : s = Drop(DetachCalls, i)
  BY RestUnforced
<1>5. Tail(h.todo) = Ahead("none", 1) \o Drop(DetachCalls, i)
  BY <1>2, <1>3, <1>4, NoneAhead
<1>6. "none" \in Part /\ InsertedAt("none", 1)'
  BY NoneInserted
<1>7. /\ i > 1 /\ i \in 2..10 /\ i # 10 /\ i # 11 /\ (i > 2 => n > 1)
  BY <1>3
<1>8. Goes(Tail(h.todo), K) /\ h'.made = h.made /\ Kept /\ (i > 2 => (~h'.conn => Down(k', h'.rec)))
  BY <1>7
<1> QED
  BY <1>1, <1>2, <1>5, <1>6, <1>7, <1>8, DetachingGoes

(* The record is read. *)
LEMMA DetachingRecord ==
  ASSUME AInv, h # Idle, Detaching("none", 1, 1), ReadRecord
  PROVE  Fine
<1>1. 1 \in 1..7 /\ 1 \in 1..11 /\ 1 \in 1..8 /\ ~(1 > 1)
  OBVIOUS
<1>2. HelperTyped /\ AttachTypeOK /\ Tearing
  BY <1>1, DetachingIs
<1>3. /\ k' = k /\ rec' = rec /\ nonce' = nonce /\ env' = env /\ faults' = faults
      /\ \/ /\ rec[h.vol] # NoRecord /\ Goes(Tail(h.todo), {}) /\ h'.rec = rec[h.vol] /\ h'.made = h.made
         \/ h' = Failed
  BY <1>2, ReadMoves
<1>4. Kept
  BY <1>2, <1>3, QuietKept DEF AttachTypeOK, Counted
<1>5. CASE h' = Failed
  BY <1>2, <1>4, <1>5, TearingStops
<1>6. CASE rec[h.vol] # NoRecord /\ Goes(Tail(h.todo), {}) /\ h'.rec = rec[h.vol] /\ h'.made = h.made
  BY <1>1, <1>3, <1>4, <1>6, DetachingNext
<1> QED
  BY <1>3, <1>5, <1>6

(* The backend is asked for. *)
LEMMA DetachingBackend ==
  ASSUME AInv, h # Idle, NEW n \in {2, 4, 6, 8}, Detaching("none", 1, n), AskBackend
  PROVE  Fine
  BY DetachingIs, RecordFields, BackendMoves, QuietKept, TearingStops, DetachingNext DEF AttachTypeOK,
     Counted, Down

(* The state is looked at. *)
LEMMA DetachingState ==
  ASSUME AInv, h # Idle, Detaching("none", 1, 3), State
  PROVE  Fine
<1>1. 1 \in 1..7 /\ 3 \in 1..11 /\ 3 \in 1..8 /\ 3 > 1 /\ 3 \in 2..10 /\ 3 > 2
  OBVIOUS
<1>2. /\ HelperTyped /\ AttachTypeOK /\ Tearing /\ h.rec \in TrustedRecord /\ rec[h.vol] = h.rec /\ h.rec # NoRecord
      /\ ~h.conn => Down(k, h.rec)
  BY <1>1, DetachingIs, RecordFields
<1>3. /\ k' = k /\ rec' = rec /\ nonce' = nonce /\ env' = env /\ faults' = faults
      /\ Moved(Tail(h.todo), {"map", "mnt", "holder"}) \/ h' = Failed
  BY <1>2, LookMoves DEF State
<1>4. Kept
  BY <1>2, <1>3, QuietKept DEF AttachTypeOK, Counted
<1>5. CASE h' = Failed
  BY <1>2, <1>4, <1>5, TearingStops
<1>6. CASE Moved(Tail(h.todo), {"map", "mnt", "holder"})
  BY <1>6, <1>1, <1>2, <1>3, <1>4, DetachingNext DEF Moved
<1> QED
  BY <1>3, <1>5, <1>6

(* The calls that a step puts first. *)
LEMMA PartFirst ==
  /\ Ahead("umount", 1) = <<"umount">> /\ Ahead("vgoff", 1) = <<"vgoff">>
  /\ Ahead("intent", 1) = IntentCalls /\ Ahead("unplug", 1) = UnplugCalls /\ Ahead("decide", 1) = DecideCalls
  /\ <<"umount">> \in Seq(Call) /\ <<"vgoff">> \in Seq(Call)
<1>1. \A t \in Part : Ahead(t, 1) = PartCalls(t) /\ PartCalls(t) \in Seq(Call)
  BY PartsAre, DropFirst DEF Ahead
<1>2. {"umount", "vgoff", "intent", "unplug", "decide"} \subseteq Part
  BY DEF Part
<1>3. PartCalls("umount") = <<"umount">> /\ PartCalls("vgoff") = <<"vgoff">>
  BY DEF PartCalls
<1>4. PartCalls("intent") = IntentCalls /\ PartCalls("unplug") = UnplugCalls /\ PartCalls("decide") = DecideCalls
  BY DEF PartCalls
<1> QED
  BY <1>1, <1>2, <1>3, <1>4

(* A call put first may be made. *)
LEMMA PartStarts ==
  ASSUME NEW t \in Part, t # "none", t = "umount" => MountOurs', t = "vgoff" => MapOurs', t = "unplug" => Unused'
  PROVE  InsertedAt(t, 1)'
<1>1. PICK L \in 1..7 : L = Len(PartCalls(t))
  BY PartsAre
<1>2. 1 \in 1..L /\ ~(1 \in 3..5) /\ 1 # 2
  OBVIOUS
<1> QED
  BY <1>1, <1>2 DEF InsertedAt

(* The mapping that a detach may take down. *)
LEMMA DetachOurs ==
  ASSUME h \in Helper, Tearing, h.rec \in TrustedRecord, OwnProof(h.rec), Detachable(k, h.rec), Active(k, h.rec)
  PROVE  Ours(h.rec.att)
  BY RecoverableOurs DEF Detachable, Observable, Ours, Tearing

(* What was needed is put first, or is left out. *)
LEMMA DetachingNeeds ==
  ASSUME AInv, h # Idle, NEW n \in {5, 7, 9}, Detaching("none", 1, n), NEW t \in Part,
         k' = k, rec' = rec, nonce' = nonce, env' = env, faults' = faults,
         NEW K, Moved(Ahead(t, 1) \o Tail(h.todo), K), InsertedAt(t, 1)',
         n = 9 => t \in {"none", "unplug"} /\ Unmapped(k, h.rec) /\ (t = "none" => ~h.conn)
  PROVE  Fine
<1>1. 1 \in 1..7 /\ n \in 1..11 /\ n > 1 /\ n \in 2..10 /\ n > 2
  OBVIOUS
<1>2. /\ HelperTyped /\ AttachTypeOK /\ Tearing /\ h.rec \in TrustedRecord /\ rec[h.vol] = h.rec /\ h.rec # NoRecord
      /\ ~h.conn => Down(k, h.rec)
      /\ Tail(h.todo) = Drop(DetachCalls, n + 1)
  BY <1>1, DetachingIs, RecordFields
<1>3. Kept
  BY <1>2, QuietKept DEF AttachTypeOK, Counted
<1>4. PICK i \in 1..11 : i = n + 1 /\ i \in {6, 8, 10} /\ (i = 10 => n = 9)
  OBVIOUS
<1>5. PICK calls : calls = Ahead(t, 1) \o Drop(DetachCalls, i)
  OBVIOUS
<1>6. Goes(calls, K) /\ h'.made = h.made /\ h'.rec = h.rec /\ h'.conn = h.conn
  BY <1>2, <1>4, <1>5 DEF Moved
<1>7. i > 1 /\ i \in 2..10 /\ i # 11 /\ i > 2
  BY <1>4
<1>8. /\ h'.rec # NoRecord /\ rec'[h.vol] = h'.rec /\ (~h'.conn => Down(k', h'.rec))
      /\ i = 10 => /\ t \in {"none", "unplug"} /\ Unmapped(k', h'.rec) /\ (t = "none" => Down(k', h'.rec))
  BY <1>2, <1>4, <1>6
<1> QED
  BY <1>1, <1>2, <1>3, <1>4, <1>5, <1>6, <1>7, <1>8, DetachingGoes

(* A step that is left out. *)
LEMMA DetachingSkips ==
  ASSUME AInv, h # Idle, NEW n \in {5, 7, 9}, Detaching("none", 1, n),
         k' = k, rec' = rec, nonce' = nonce, env' = env, faults' = faults,
         NEW K, Moved(Tail(h.todo), K),
         n = 9 => Unmapped(k, h.rec) /\ ~h.conn
  PROVE  Fine
<1>1. PICK s \in Seq(Call) : s = Tail(h.todo)
  <2>1. h \in Helper /\ 1 \in 1..7 /\ n \in 1..11
    BY TearingIs
  <2>2. Tail(h.todo) = Drop(DetachCalls, n + 1)
    BY <2>1, DetachingIs
  <2>3. PICK i \in 1..11 : i = n + 1
    OBVIOUS
  <2> QED
    BY <2>2, <2>3, RestUnforced
<1>2. Ahead("none", 1) \o Tail(h.todo) = Tail(h.todo)
  BY <1>1, NoneAhead
<1>3. Moved(Ahead("none", 1) \o Tail(h.todo), K)
  BY <1>2
<1>4. "none" \in Part /\ InsertedAt("none", 1)'
  BY NoneInserted
<1> QED
  BY <1>3, <1>4, DetachingNeeds

(* A mounted filesystem is unmounted. *)
LEMMA DetachingUmount ==
  ASSUME AInv, h # Idle, Detaching("none", 1, 5), NeedUmount
  PROVE  Fine
<1>1. 1 \in 1..7 /\ 5 \in 1..11 /\ 5 \in 2..10 /\ 5 > 1 /\ 5 \in {5, 7, 9} /\ 5 # 9
  OBVIOUS
<1>2. /\ h \in Helper /\ HelperTyped /\ AttachTypeOK /\ Tearing /\ h.rec \in TrustedRecord /\ OwnProof(h.rec)
      /\ OpenedActive /\ rec[h.vol] = h.rec
  BY <1>1, DetachingIs
<1>3. PICK K : K = {"map", "mnt", "holder"}
  OBVIOUS
<1>4. /\ k' = k /\ rec' = rec /\ nonce' = nonce /\ env' = env /\ faults' = faults
      /\ \/ DetachState /\ Mounted(k, h.rec) /\ Moved(<<"umount">> \o Tail(h.todo), K)
         \/ Moved(Tail(h.todo), K)
         \/ h' = Failed
  <2>1. PICK calls \in Seq(Call) : calls = <<"umount">>
    BY PartFirst
  <2>4. PICK good \in BOOLEAN : good = TRUE
    OBVIOUS
  <2>2. Needed("needUmount", good, Mounted(k, h.rec), calls)
    BY <2>1, <2>4 DEF NeedUmount
  <2>3. /\ k' = k /\ rec' = rec /\ nonce' = nonce /\ env' = env /\ faults' = faults
        /\ \/ DetachState /\ Mounted(k, h.rec) /\ Moved(calls \o Tail(h.todo), K)
           \/ Moved(Tail(h.todo), K)
           \/ h' = Failed
    BY <1>2, <1>3, <2>2, NeededMoves
  <2> QED
    BY <2>1, <2>3
<1>5. CASE h' = Failed
  BY <1>2, <1>4, <1>5, FailedFine DEF AttachTypeOK, Counted
<1>6. CASE Moved(Tail(h.todo), K)
  BY <1>1, <1>4, <1>6, DetachingSkips
<1>7. CASE DetachState /\ Mounted(k, h.rec) /\ Moved(<<"umount">> \o Tail(h.todo), K)
  <2>1. Moved(Ahead("umount", 1) \o Tail(h.todo), K)
    BY <1>7, PartFirst
  <2>2. h'.rec = h.rec /\ h'.verb = h.verb
    BY <1>7 DEF Moved, Goes
  <2>3. Active(k, h.rec) /\ Detachable(k, h.rec)
    BY <1>2, <1>7, RecordFields DEF OpenedActive, Opened, Mounted, Active, DetachState
  <2>4. Ours(h.rec.att)
    BY <1>2, <2>3, DetachOurs
  <2>5. MountOurs'
    BY <1>4, <1>7, <2>2, <2>4 DEF MountOurs, Ours
  <2>6. "umount" \in Part /\ InsertedAt("umount", 1)'
    BY <2>5, PartStarts DEF Part
  <2> QED
    BY <1>1, <1>4, <2>1, <2>6, DetachingNeeds
<1> QED
  BY <1>4, <1>5, <1>6, <1>7

(* A mapping is deactivated. *)
LEMMA DetachingDeactivate ==
  ASSUME AInv, h # Idle, Detaching("none", 1, 7), NeedDeactivate
  PROVE  Fine
<1>1. 1 \in 1..7 /\ 7 \in 1..11 /\ 7 \in 2..10 /\ 7 > 1 /\ 7 \in {5, 7, 9} /\ 7 # 9
  OBVIOUS
<1>2. /\ h \in Helper /\ HelperTyped /\ AttachTypeOK /\ Tearing /\ h.rec \in TrustedRecord /\ OwnProof(h.rec)
      /\ rec[h.vol] = h.rec
  BY <1>1, DetachingIs
<1>3. PICK K : K = {"map", "mnt", "holder"}
  OBVIOUS
<1>4. PICK t \in {"intent", "vgoff"} : Ahead(t, 1) = IF h.rec.intent THEN <<"nonce", "intended", "nonce", "off">> ELSE <<"vgoff">>
  BY PartFirst DEF IntentCalls
<1>5. PICK calls \in Seq(Call) : calls = Ahead(t, 1)
  BY PartFirst, InsertedAre
<1>6. /\ k' = k /\ rec' = rec /\ nonce' = nonce /\ env' = env /\ faults' = faults
      /\ \/ DetachState /\ Active(k, h.rec) /\ Moved(calls \o Tail(h.todo), K)
         \/ Moved(Tail(h.todo), K)
         \/ h' = Failed
  BY <1>4, <1>5, <1>2, <1>3, NeededMoves DEF NeedDeactivate
<1>7. CASE h' = Failed
  BY <1>2, <1>6, <1>7, FailedFine DEF AttachTypeOK, Counted
<1>8. CASE Moved(Tail(h.todo), K)
  BY <1>1, <1>6, <1>8, DetachingSkips
<1>9. CASE DetachState /\ Active(k, h.rec) /\ Moved(calls \o Tail(h.todo), K)
  <2>1. Moved(Ahead(t, 1) \o Tail(h.todo), K)
    BY <1>5, <1>9
  <2>2. h'.rec = h.rec /\ h'.verb = h.verb
    BY <1>9 DEF Moved, Goes
  <2>3. Ours(h.rec.att)
    BY <1>2, <1>9, DetachOurs DEF DetachState
  <2>4. MapOurs'
    BY <1>6, <2>2, <2>3 DEF MapOurs, Ours
  <2>5. t \in Part /\ t \notin {"none", "umount", "unplug"}
    BY DEF Part
  <2>6. InsertedAt(t, 1)'
    BY <2>4, <2>5, PartStarts
  <2> QED
    BY <1>1, <1>6, <2>1, <2>5, <2>6, DetachingNeeds
<1> QED
  BY <1>6, <1>7, <1>8, <1>9

(* The device is disconnected. *)
LEMMA DetachingDisconnect ==
  ASSUME AInv, h # Idle, Detaching("none", 1, 9), NeedDisconnect
  PROVE  Fine
<1>1. 1 \in 1..7 /\ 9 \in 1..11 /\ 9 \in 2..10 /\ 9 > 1 /\ 9 \in {5, 7, 9}
  OBVIOUS
<1>2. /\ h \in Helper /\ HelperTyped /\ AttachTypeOK /\ Tearing /\ h.rec \in TrustedRecord
  BY <1>1, DetachingIs
<1>3. PICK K : K = {"map", "mnt", "holder"}
  OBVIOUS
<1>4. PICK calls \in Seq(Call) : calls = <<"nonce", "disconnect">>
  BY InsertedAre DEF UnplugCalls
<1>5. /\ k' = k /\ rec' = rec /\ nonce' = nonce /\ env' = env /\ faults' = faults
      /\ \/ Clear(k, h.rec) /\ Moved(calls \o Tail(h.todo), K)
         \/ Clear(k, h.rec) /\ ~h.conn /\ Moved(Tail(h.todo), K)
         \/ h' = Failed
  <2>1. Needed("needDisconnect", Clear(k, h.rec), h.conn, calls)
    BY <1>4 DEF NeedDisconnect
  <2> QED
    BY <1>2, <1>3, <2>1, NeededMoves
<1>6. Clear(k, h.rec) => Unmapped(k, h.rec) /\ ~InUse(k, h.rec.dev)
  BY <1>2, SeenFacts DEF Clear
<1>7. CASE h' = Failed
  BY <1>2, <1>5, <1>7, FailedFine DEF AttachTypeOK, Counted
<1>8. CASE Clear(k, h.rec) /\ ~h.conn /\ Moved(Tail(h.todo), K)
  BY <1>1, <1>5, <1>6, <1>8, DetachingSkips
<1>9. CASE Clear(k, h.rec) /\ Moved(calls \o Tail(h.todo), K)
  BY <1>4, <1>9, PartFirst, <1>5, <1>6, PartStarts, <1>1, DetachingNeeds DEF UnplugCalls, Moved, Unused, Part
<1> QED
  BY <1>5, <1>7, <1>8, <1>9

(* The record is retired. *)
LEMMA RetireMoves ==
  ASSUME AInv, h # Idle, Tearing, h.rec \in TrustedRecord, rec[h.vol] = h.rec, Gone(k, h.rec), Retire("retire")
  PROVE  /\ Kept /\ k' = k /\ rec'[h.vol] = NoRecord
         /\ Moved(Tail(h.todo), {}) \/ h' = Failed
<1>1. h \in Helper /\ HelperTyped /\ AttachTypeOK /\ h.vol \in Vol
  BY TearingIs
<1>2. faults \in 0..MaxFaults /\ rec \in [Vol -> {NoRecord} \cup TrustedRecord]
  BY <1>1 DEF AttachTypeOK
<1>3. /\ k' = k /\ nonce' = nonce /\ env' = env /\ faults' \in 0..MaxFaults /\ At("retire")
      /\ rec' = [rec EXCEPT ![h.vol] = NoRecord]
      /\ h' = After(k', Tail(h.todo), h) \/ h' = Failed
  BY <1>1, <1>2, WriteMoves DEF Retire
<1>4. Counted
  BY <1>1, <1>3, SameCounted
<1>5. OwnProof(NoRecord)
  BY DEF OwnProof
<1>6. PICK v \in Vol : v = h.vol
  BY <1>1
<1>7. Kept
  BY <1>3, <1>4, <1>5, <1>6, WriteKept
<1>8. rec'[h.vol] = NoRecord
  BY <1>1, <1>2, <1>3
<1>9. PICK calls \in Seq(Call) : calls = Tail(h.todo)
  BY <1>1, <1>3, AtIs
<1>10. h' = After(k', Tail(h.todo), h) => Moved(Tail(h.todo), {})
  BY <1>1, <1>9, PlainMoves
<1> QED
  BY <1>3, <1>7, <1>8, <1>10

(* A detach retires the record. *)
LEMMA DetachingRetire ==
  ASSUME AInv, h # Idle, Detaching("none", 1, 10), Retire("retire")
  PROVE  Fine
<1>1. 1 \in 1..7 /\ 10 \in 1..11 /\ 11 \in 1..11 /\ 10 \in 2..10 /\ 10 > 1 /\ 10 + 1 = 11 /\ 11 > 1 /\ 11 > 2
      /\ 11 \notin 2..10 /\ 11 # 10
  OBVIOUS
<1>2. /\ Tearing /\ h.rec \in TrustedRecord /\ h.rec # NoRecord /\ rec[h.vol] = h.rec
      /\ Tail(h.todo) = Drop(DetachCalls, 11)
  BY <1>1, DetachingIs, RecordFields
<1>3. Gone(k, h.rec)
  BY DEF Detaching, Gone
<1>4. /\ Kept /\ k' = k /\ rec'[h.vol] = NoRecord
      /\ Moved(Tail(h.todo), {}) \/ h' = Failed
  BY <1>2, <1>3, RetireMoves
<1>5. CASE h' = Failed
  BY <1>2, <1>4, <1>5, TearingStops
<1>6. CASE Moved(Tail(h.todo), {})
  BY <1>1, RestUnforced, <1>2, NoneAhead, <1>6, NoneInserted, <1>3, <1>4, DetachingGoes DEF Moved, Gone
<1> QED
  BY <1>4, <1>5, <1>6

(* A step of a detach. *)
LEMMA DetachingFine ==
  ASSUME AInv, h # Idle, NEW t \in Part, NEW m \in 1..7, NEW n \in 1..11, Detaching(t, m, n), HelperStep
  PROVE  Fine
<1>1. CASE t # "none"
  BY <1>1, DetachingPart
<1>2. CASE t = "none"
  <2>1. m = 1
    BY <1>2 DEF Detaching, InsertedAt
  <2>2. Detaching("none", 1, n)
    BY <1>2, <2>1
  <2>3. \/ n = 1 /\ ReadRecord
        \/ n \in {2, 4, 6, 8} /\ AskBackend
        \/ n = 3 /\ State
        \/ n = 5 /\ NeedUmount
        \/ n = 7 /\ NeedDeactivate
        \/ n = 9 /\ NeedDisconnect
        \/ n = 10 /\ Retire("retire")
        \/ n = 11 /\ Done
    BY <1>2, DetachingSteps
  <2> QED
    BY <2>2, <2>3, DetachingRecord, DetachingBackend, DetachingState, DetachingUmount, DetachingDeactivate,
       DetachingDisconnect, DetachingRetire, DoneFine
<1> QED
  BY <1>1, <1>2

-----------------------------------------------------------------------------
(* Recovery. *)

(* What a recovery still has to do. *)
LEMMA RecoveringIs ==
  ASSUME AInv, h # Idle, NEW m \in 1..7, NEW n \in 1..5, Recovering("none", m, n)
  PROVE  /\ h \in Helper /\ HelperTyped /\ AttachTypeOK /\ k \in Kernel /\ OpenedActive /\ Tearing
         /\ h.vol \in Vol /\ OwnProof(rec[h.vol])
         /\ n < 5 => Tail(h.todo) = Ahead("none", 1) \o Drop(RecoverCalls, n + 1)
         /\ n > 1 => h.rec \in TrustedRecord /\ h.rec # NoRecord /\ rec[h.vol] = h.rec
  BY NoneInserted, RecoveringHead, TearingIs DEF Recovering

(* The next step of a recovery. *)
LEMMA RecoveringGoes ==
  ASSUME Tearing, NEW calls, NEW K, Goes(calls, K), h'.made = h.made, Kept,
         NEW t \in Part, NEW j \in 1..7, NEW n \in 1..5,
         calls = Ahead(t, j) \o Drop(RecoverCalls, n), InsertedAt(t, j)',
         t # "none" => n = 2,
         n > 1 => h'.rec # NoRecord /\ rec'[h.vol] = h'.rec,
         n > 3 => /\ h'.obs = "mounted" => MountOurs'
                  /\ h'.obs = "active" /\ ~h'.rec.intent => MapOurs'
  PROVE  Fine
  BY DEF Goes, Tearing, Recovering, Fine, HelperTyped, Stage

(* A recovery that goes on with the call that follows. *)
LEMMA RecoveringNext ==
  ASSUME AInv, h # Idle, NEW n \in 1..4, Recovering("none", 1, n), NEW K, Goes(Tail(h.todo), K), h'.made = h.made,
         rec' = rec, Kept, h'.rec # NoRecord, rec[h.vol] = h'.rec,
         n > 2 => /\ h'.obs = "mounted" => MountOurs'
                  /\ h'.obs = "active" /\ ~h'.rec.intent => MapOurs'
  PROVE  Fine
<1>1. 1 \in 1..7 /\ n \in 1..5 /\ n < 5
  OBVIOUS
<1>2. Tearing /\ Tail(h.todo) = Ahead("none", 1) \o Drop(RecoverCalls, n + 1)
  BY <1>1, RecoveringIs
<1>3. PICK i \in 1..5 : i = n + 1 /\ (i > 3 => n > 2)
  OBVIOUS
<1>4. PICK calls : calls = Tail(h.todo) /\ calls = Ahead("none", 1) \o Drop(RecoverCalls, i)
  BY <1>2, <1>3
<1>5. "none" \in Part /\ InsertedAt("none", 1)'
  BY NoneInserted
<1>6. Goes(calls, K)
  BY <1>4
<1>7. h'.rec # NoRecord /\ rec'[h.vol] = h'.rec
  OBVIOUS
<1> QED
  BY <1>1, <1>2, <1>3, <1>4, <1>5, <1>6, <1>7, RecoveringGoes

(* The record is read. *)
LEMMA RecoveringRecord ==
  ASSUME AInv, h # Idle, Recovering("none", 1, 1), ReadRecord
  PROVE  Fine
<1>1. 1 \in 1..7 /\ 1 \in 1..5 /\ 1 \in 1..4 /\ ~(1 > 2)
  OBVIOUS
<1>2. HelperTyped /\ AttachTypeOK /\ Tearing
  BY <1>1, RecoveringIs
<1>3. /\ k' = k /\ rec' = rec /\ nonce' = nonce /\ env' = env /\ faults' = faults
      /\ \/ /\ rec[h.vol] # NoRecord /\ Goes(Tail(h.todo), {}) /\ h'.rec = rec[h.vol] /\ h'.made = h.made
         \/ h' = Failed
  BY <1>2, ReadMoves
<1>4. Kept
  BY <1>2, <1>3, QuietKept DEF AttachTypeOK, Counted
<1>5. CASE h' = Failed
  BY <1>2, <1>4, <1>5, TearingStops
<1>6. CASE rec[h.vol] # NoRecord /\ Goes(Tail(h.todo), {}) /\ h'.rec = rec[h.vol] /\ h'.made = h.made
  BY <1>1, <1>3, <1>4, <1>6, RecoveringNext
<1> QED
  BY <1>3, <1>5, <1>6

(* The device has no backend any more. *)
LEMMA RecoveringAbsent ==
  ASSUME AInv, h # Idle, NEW n \in {2, 4}, Recovering("none", 1, n), AbsentBackend
  PROVE  Fine
<1>1. 1 \in 1..7 /\ n \in 1..5 /\ n \in 1..4 /\ n > 1
  OBVIOUS
<1>2. HelperTyped /\ AttachTypeOK /\ Tearing /\ h.rec # NoRecord /\ rec[h.vol] = h.rec
  BY <1>1, RecoveringIs
<1>3. /\ k' = k /\ rec' = rec /\ nonce' = nonce /\ env' = env /\ faults' = faults
      /\ Moved(Tail(h.todo), {"backend"}) \/ h' = Failed
  BY <1>2, AskMoves DEF AbsentBackend
<1>4. Kept
  BY <1>2, <1>3, QuietKept DEF AttachTypeOK, Counted
<1>5. CASE h' = Failed
  BY <1>2, <1>4, <1>5, TearingStops
<1>6. CASE Moved(Tail(h.todo), {"backend"})
  <2>1. /\ Goes(Tail(h.todo), {"backend"}) /\ h'.rec = h.rec /\ h'.made = h.made /\ h'.obs = h.obs
        /\ h'.verb = h.verb /\ h'.stale = h.stale \ {"backend"}
    BY <1>6 DEF Moved, Goes
  <2>2. (MountOurs => MountOurs') /\ (MapOurs => MapOurs')
    BY <1>3, <2>1, OursKept
  <2>3. n > 3 => /\ h.obs = "mounted" => MountOurs
                 /\ h.obs = "active" /\ ~h.rec.intent => MapOurs
    BY DEF Recovering
  <2>4. n > 2 => n > 3
    OBVIOUS
  <2>5. n > 2 => /\ h'.obs = "mounted" => MountOurs'
                 /\ h'.obs = "active" /\ ~h'.rec.intent => MapOurs'
    BY <2>1, <2>2, <2>3, <2>4
  <2> QED
    BY <1>1, <1>2, <1>3, <1>4, <2>1, <2>5, RecoveringNext
<1> QED
  BY <1>3, <1>5, <1>6

(* What is left above the device is observed. *)
LEMMA RecoveringObserve ==
  ASSUME AInv, h # Idle, Recovering("none", 1, 3), Disconnected
  PROVE  Fine
<1>1. 1 \in 1..7 /\ 3 \in 1..5 /\ 3 \in 1..4 /\ 3 > 1
  OBVIOUS
<1>2. /\ h \in Helper /\ HelperTyped /\ AttachTypeOK /\ Tearing /\ h.rec # NoRecord /\ rec[h.vol] = h.rec
      /\ h.rec \in TrustedRecord /\ OwnProof(h.rec) /\ OpenedActive
  BY <1>1, RecoveringIs
<1>3. PICK K : K = {"map", "mnt", "holder"}
  OBVIOUS
<1>8. PICK b \in BOOLEAN : b = TRUE
  OBVIOUS
<1>9. Observed("disconnected", Recoverable(k, h.rec, b))
  BY <1>8 DEF Disconnected
<1>4. /\ k' = k /\ rec' = rec /\ nonce' = nonce /\ env' = env /\ faults' = faults
      /\ \/ /\ Recoverable(k, h.rec, b) /\ Goes(Tail(h.todo), K)
            /\ h'.rec = h.rec /\ h'.made = h.made /\ h'.obs = TopLayer
         \/ h' = Failed
  BY <1>2, <1>3, <1>9, ObservedMoves
<1>5. Kept
  BY <1>2, <1>4, QuietKept DEF AttachTypeOK, Counted
<1>6. CASE h' = Failed
  BY <1>2, <1>5, <1>6, TearingStops
<1>7. CASE /\ Recoverable(k, h.rec, b) /\ Goes(Tail(h.todo), K)
           /\ h'.rec = h.rec /\ h'.made = h.made /\ h'.obs = TopLayer
  BY <1>7, <1>2, RecoverableOurs, RecordFields, TopLayerIs, <1>4, <1>1, <1>5, RecoveringNext DEF Goes,
     OpenedActive, Opened, Mounted, Active, MountOurs, Ours, MapOurs
<1> QED
  BY <1>4, <1>6, <1>7

(* The calls that a decision leaves. *)
LEMMA DecisionCalls ==
  /\ RecoverLoop = Drop(RecoverCalls, 2) /\ Drop(RecoverCalls, 2) \in Seq(Call)
  /\ ConfirmCalls = Drop(ConfirmCalls, 1)
<1>1. 1 \in 1..Len(RecoverCalls) /\ 1 + 1 = 2
  BY OtherCallsAre
<1>2. Drop(RecoverCalls, 1) = RecoverCalls /\ Drop(ConfirmCalls, 1) = ConfirmCalls
  BY OtherCallsAre, DropFirst
<1>3. Tail(Drop(RecoverCalls, 1)) = Drop(RecoverCalls, 2)
  BY <1>1, OtherCallsAre, DropIs
<1>4. 2 \in 1..5
  OBVIOUS
<1> QED
  BY <1>2, <1>3, <1>4, RestUnforced DEF RecoverLoop

(* A decision to take a layer down. *)
LEMMA DecideLayer ==
  ASSUME AInv, h # Idle, Recovering("none", 1, 5), NEW t \in {"umount", "decide", "vgoff"},
         h' = To(Ahead(t, 1) \o RecoverLoop, h), k' = k, rec' = rec, Kept,
         t = "umount" => MountOurs, t = "vgoff" => MapOurs
  PROVE  Fine
<1>1. 1 \in 1..7 /\ 5 \in 1..5 /\ 5 > 1 /\ 2 \in 1..5 /\ ~(2 > 3)
  OBVIOUS
<1>2. h \in Helper /\ Tearing /\ h.rec # NoRecord /\ rec[h.vol] = h.rec
  BY <1>1, RecoveringIs
<1>3. t \in Part /\ t \notin {"none", "unplug"}
  BY DEF Part
<1>4. PICK first \in Seq(Call) : first = Ahead(t, 1)
  BY PartFirst, InsertedAre
<1>5. PICK calls \in Seq(Call) : calls = Ahead(t, 1) \o Drop(RecoverCalls, 2)
  BY <1>4, DecisionCalls, ConcatProperties
<1>6. h' = After(k', calls, h)
  BY <1>5, DecisionCalls DEF To
<1>7. Goes(calls, {}) /\ h'.rec = h.rec /\ h'.made = h.made /\ h'.verb = h.verb /\ h'.stale = h.stale \ {}
  BY <1>2, <1>6, PlainMoves DEF Moved, Goes
<1>8. (MountOurs => MountOurs') /\ (MapOurs => MapOurs')
  BY <1>7, OursKept
<1>9. InsertedAt(t, 1)'
  BY <1>3, <1>8, PartStarts
<1>10. h'.rec # NoRecord /\ rec'[h.vol] = h'.rec
  BY <1>2, <1>7
<1> QED
  BY <1>1, <1>2, <1>3, <1>5, <1>7, <1>9, <1>10, RecoveringGoes

(* A decision that nothing is left. *)
LEMMA DecideClear ==
  ASSUME AInv, h # Idle, Recovering("none", 1, 5), h' = To(ConfirmCalls, h), k' = k, rec' = rec, Kept
  PROVE  Fine
<1>1. 1 \in 1..7 /\ 5 \in 1..5 /\ 5 > 1 /\ 1 \in 1..4
  OBVIOUS
<1>2. h \in Helper /\ Tearing /\ h.rec # NoRecord /\ rec[h.vol] = h.rec
  BY <1>1, RecoveringIs
<1>3. PICK calls \in Seq(Call) : calls = ConfirmCalls /\ calls = Drop(ConfirmCalls, 1)
  BY OtherCallsAre, DecisionCalls
<1>4. h' = After(k', calls, h)
  BY <1>3 DEF To
<1>5. h' \in Helper /\ h'.todo = calls /\ h'.rec = h.rec /\ h'.made = h.made /\ h'.verb = h.verb /\ h'.vol = h.vol
  BY <1>2, <1>4, PlainMoves DEF Moved, Goes
<1>6. Tearing'
  BY <1>2, <1>5 DEF Tearing
<1>7. Confirming(1)'
  BY <1>1, <1>2, <1>3, <1>5, <1>6 DEF Confirming
<1> QED
  BY <1>1, <1>5, <1>7 DEF Fine, HelperTyped, Stage

(* What to do next is decided. *)
LEMMA RecoveringDecide ==
  ASSUME AInv, h # Idle, Recovering("none", 1, 5), Decide
  PROVE  Fine
<1>1. 1 \in 1..7 /\ 5 \in 1..5 /\ 5 > 3
  OBVIOUS
<1>2. AttachTypeOK /\ Tearing
  BY <1>1, RecoveringIs
<1>3. k' = k /\ rec' = rec /\ nonce' = nonce /\ env' = env /\ faults' = faults
  BY DEF Decide
<1>4. Kept
  BY <1>2, <1>3, QuietKept DEF AttachTypeOK, Counted
<1>5. /\ h.obs = "mounted" => MountOurs
      /\ h.obs = "active" /\ ~h.rec.intent => MapOurs
  BY <1>1 DEF Recovering
<1>6. \/ h.obs = "mounted" /\ h' = To(<<"umount">> \o RecoverLoop, h)
      \/ h' = To(DecideCalls \o RecoverLoop, h)
      \/ h.obs = "active" /\ ~h.rec.intent /\ h' = To(<<"vgoff">> \o RecoverLoop, h)
      \/ h' = To(ConfirmCalls, h)
      \/ h' = Failed
  BY Zenon DEF Decide, DecideCalls, ConfirmCalls
<1>7. CASE h' = Failed
  BY <1>2, <1>4, <1>7, TearingStops
<1>8. CASE h.obs = "mounted" /\ h' = To(<<"umount">> \o RecoverLoop, h)
  BY <1>8, PartFirst, <1>3, <1>4, <1>5, DecideLayer
<1>9. CASE h' = To(DecideCalls \o RecoverLoop, h)
  BY <1>9, PartFirst, <1>3, <1>4, DecideLayer
<1>10. CASE h.obs = "active" /\ ~h.rec.intent /\ h' = To(<<"vgoff">> \o RecoverLoop, h)
  BY <1>10, PartFirst, <1>3, <1>4, <1>5, DecideLayer
<1>11. CASE h' = To(ConfirmCalls, h)
  BY <1>3, <1>4, <1>11, DecideClear
<1> QED
  BY <1>6, <1>7, <1>8, <1>9, <1>10, <1>11

(* A step of a recovery. *)
LEMMA RecoveringFine ==
  ASSUME AInv, h # Idle, NEW t \in Part, NEW m \in 1..7, NEW n \in 1..5, Recovering(t, m, n), HelperStep
  PROVE  Fine
<1>1. CASE t # "none"
  BY <1>1, RecoveringPart
<1>2. CASE t = "none"
  <2>1. m = 1
    BY <1>2 DEF Recovering, InsertedAt
  <2>2. Recovering("none", 1, n)
    BY <1>2, <2>1
  <2>3. \/ n = 1 /\ ReadRecord
        \/ n \in {2, 4} /\ AbsentBackend
        \/ n = 3 /\ Disconnected
        \/ n = 5 /\ Decide
    BY <1>2, RecoveringSteps
  <2> QED
    BY <2>2, <2>3, RecoveringRecord, RecoveringAbsent, RecoveringObserve, RecoveringDecide
<1> QED
  BY <1>1, <1>2

-----------------------------------------------------------------------------
(* The end of a recovery, cleanup, grow and verify. *)

(* A step that ends a recovery. *)
LEMMA ConfirmingGoes ==
  ASSUME AInv, h # Idle, NEW n \in 1..3, Confirming(n), NEW K, Moved(Tail(h.todo), K), Kept,
         rec'[h.vol] = IF n = 3 THEN NoRecord ELSE h.rec, k' = k,
         n = 1 => Unmapped(k, h.rec),
         n = 2 => Down(k, h.rec)
  PROVE  Fine
<1>1. PICK i \in 1..4 : i = n + 1 /\ i \in 2..4
  OBVIOUS
<1>2. n \in 1..4
  OBVIOUS
<1>3. Tail(h.todo) = Drop(ConfirmCalls, i)
  BY <1>1, <1>2, ConfirmingHead
<1>4. /\ h' \in Helper /\ h'.todo = Drop(ConfirmCalls, i) /\ h'.rec = h.rec /\ h'.made = h.made
      /\ h'.verb = h.verb /\ h'.vol = h.vol
  BY <1>3 DEF Moved, Goes
<1>5. /\ Tearing /\ h.rec # NoRecord
      /\ n > 1 => Unmapped(k, h.rec)
      /\ n > 2 => Down(k, h.rec)
  BY DEF Confirming
<1>6. Tearing'
  BY <1>4, <1>5 DEF Tearing
<1>7. Unmapped(k', h'.rec) /\ (i > 2 => Down(k', h'.rec))
  BY <1>1, <1>4, <1>5
<1>8. rec'[h'.vol] = IF i = 4 THEN NoRecord ELSE h'.rec
  BY <1>1, <1>4
<1>9. Confirming(i)'
  BY <1>4, <1>5, <1>6, <1>7, <1>8 DEF Confirming
<1> QED
  BY <1>4, <1>9 DEF Fine, HelperTyped, Stage

(* A step of the end of a recovery. *)
LEMMA ConfirmingFine ==
  ASSUME AInv, h # Idle, NEW n \in 1..4, Confirming(n), HelperStep
  PROVE  Fine
<1>1. /\ h \in Helper /\ HelperTyped /\ AttachTypeOK /\ h.rec \in TrustedRecord /\ h.rec # NoRecord
  BY TearingIs DEF Confirming
<1>2. Tearing /\ (n < 4 => rec[h.vol] = h.rec)
  BY DEF Confirming
<1>3. ASSUME k' = k, rec' = rec, nonce' = nonce, env' = env, faults' = faults
      PROVE  Kept
  BY <1>1, <1>3, QuietKept DEF AttachTypeOK, Counted
<1>4. CASE n = 1 /\ Confirm
  <2>1. 1 \in 1..3 /\ 1 # 3 /\ 1 < 4
    OBVIOUS
  <2>2. PICK b \in BOOLEAN : b = TRUE
    OBVIOUS
  <2>3. Look("confirm", Recoverable(k, h.rec, b) /\ Clear(k, h.rec))
    BY <1>4, <2>2 DEF Confirm
  <2>4. /\ k' = k /\ rec' = rec /\ nonce' = nonce /\ env' = env /\ faults' = faults
        /\ (Clear(k, h.rec) /\ Moved(Tail(h.todo), {"map", "mnt", "holder"})) \/ h' = Failed
    BY <1>1, <2>3, LookMoves
  <2>5. CASE h' = Failed
    BY <1>2, <1>3, <2>4, <2>5, TearingStops
  <2>6. CASE Clear(k, h.rec) /\ Moved(Tail(h.todo), {"map", "mnt", "holder"})
    BY <1>1, <2>6, SeenFacts, <1>2, <1>3, <1>4, <2>1, <2>4, ConfirmingGoes DEF Clear
  <2> QED
    BY <2>4, <2>5, <2>6
<1>5. CASE n = 2 /\ AbsentBackend
  <2>1. 2 \in 1..3 /\ 2 # 3 /\ 2 < 4 /\ 2 # 1
    OBVIOUS
  <2>2. /\ k' = k /\ rec' = rec /\ nonce' = nonce /\ env' = env /\ faults' = faults
        /\ (k.backend[h.rec.dev] = Absent /\ Moved(Tail(h.todo), {"backend"})) \/ h' = Failed
    BY <1>1, <1>5, AskMoves DEF AbsentBackend
  <2>3. CASE h' = Failed
    BY <1>2, <1>3, <2>2, <2>3, TearingStops
  <2>4. CASE k.backend[h.rec.dev] = Absent /\ Moved(Tail(h.todo), {"backend"})
    BY <1>1, <2>4, SeenFacts, <1>2, <1>3, <1>5, <2>1, <2>2, ConfirmingGoes
  <2> QED
    BY <2>2, <2>3, <2>4
<1>6. CASE n = 3 /\ Retire("retire")
  BY <1>6, <1>1, <1>2, RetireMoves, TearingStops, ConfirmingGoes DEF Gone, Confirming
<1>7. CASE Done
  BY <1>7, DoneFine
<1> QED
  BY <1>4, <1>5, <1>6, <1>7, ConfirmingSteps

(* The record of the volume is looked up. *)
LEMMA CleaningRecord ==
  ASSUME AInv, h # Idle, Cleaning, AnyRecord, Tail(h.todo) = Drop(CleanupCalls, 2), h.rec = NoRecord
  PROVE  Fine
<1>1. h \in Helper /\ HelperTyped /\ AttachTypeOK /\ h.vol \in Vol
  BY TearingIs
<1>2. k' = k /\ rec' = rec /\ nonce' = nonce /\ env' = env /\ faults' = faults /\ At("anyRecord")
  BY DEF AnyRecord
<1>3. Kept
  BY <1>1, <1>2, QuietKept DEF AttachTypeOK, Counted
<1>4. h.verb = "cleanup" /\ ~h.made
  BY DEF Cleaning
<1>5. PICK r \in {NoRecord} \cup TrustedRecord : r = rec[h.vol]
  BY <1>1, TypeIs
<1>6. \/ r = NoRecord /\ h' = To(<<"done">>, h)
      \/ h' = To(Tail(h.todo), WithRecord(h, r))
  BY <1>5 DEF AnyRecord, On, WithRecord
<1>7. CASE r = NoRecord /\ h' = To(<<"done">>, h)
  <2>1. PICK calls \in Seq(Call) : calls = <<"done">>
    <3>1. <<"done">> \in Seq(Call)
      BY DEF Call
    <3> QED
      BY <3>1
  <2>2. h' = After(k', calls, h)
    BY <1>2, <1>7, <2>1 DEF To
  <2>3. h' \in Helper /\ h'.todo = calls /\ h'.rec = h.rec /\ h'.made = h.made /\ h'.verb = h.verb /\ h'.vol = h.vol
    BY <1>1, <2>2, PlainMoves DEF Moved, Goes
  <2>4. Cleaning'
    BY <1>2, <1>4, <1>5, <1>7, <2>1, <2>3 DEF Cleaning
  <2> QED
    BY <1>3, <2>3, <2>4 DEF Fine, HelperTyped, Stage
<1>8. CASE h' = To(Tail(h.todo), WithRecord(h, r))
  <2>1. PICK calls \in Seq(Call) : calls = Tail(h.todo)
    BY <1>1, <1>2, AtIs
  <2>2. h' = After(k', calls, WithRecord(h, r)) /\ h.stale = h.stale \ {}
    BY <1>2, <1>8, <2>1 DEF To
  <2>3. Goes(calls, {}) /\ h'.made = h.made
    BY <1>1, <2>2, RecordGoes
  <2>4. h' \in Helper /\ h'.todo = Drop(CleanupCalls, 2) /\ h'.verb = h.verb
    BY <2>1, <2>3 DEF Goes
  <2>5. Cleaning'
    BY <1>4, <2>3, <2>4 DEF Cleaning
  <2> QED
    BY <1>3, <2>4, <2>5 DEF Fine, HelperTyped, Stage
<1> QED
  BY <1>6, <1>7, <1>8

(* The teardown is chosen. *)
LEMMA CleaningWhich ==
  ASSUME AInv, h # Idle, Cleaning, Which
  PROVE  Fine
<1>1. h \in Helper /\ HelperTyped /\ AttachTypeOK
  BY TearingIs
<1>2. k' = k /\ rec' = rec /\ nonce' = nonce /\ env' = env /\ faults' = faults
  BY DEF Which
<1>3. Kept
  BY <1>1, <1>2, QuietKept DEF AttachTypeOK, Counted
<1>4. h.verb = "cleanup" /\ ~h.made /\ Tearing
  BY DEF Cleaning, Tearing
<1>5. \/ h' = To(DetachCalls, Seen({"backend"}))
      \/ h' = To(RecoverCalls, Seen({"backend"}))
      \/ h' = Failed
  BY DEF Which
<1>6. "none" \in Part /\ InsertedAt("none", 1)'
  BY NoneInserted
<1>7. 1 \in 1..7 /\ 1 \in 1..11 /\ 1 \in 1..5 /\ ~(1 > 1) /\ 1 \notin 2..10 /\ ~(1 > 2) /\ ~(1 > 3) /\ 1 # 10 /\ 1 # 11
  OBVIOUS
<1>8. CASE h' = Failed
  BY <1>3, <1>4, <1>8, TearingStops
<1>9. CASE h' = To(DetachCalls, Seen({"backend"}))
  BY OtherCallsAre, DropFirst, <1>1, <1>2, <1>9, SeenMoves, NoneAhead, <1>3, <1>4, <1>6, <1>7, DetachingGoes
     DEF Moved
<1>10. CASE h' = To(RecoverCalls, Seen({"backend"}))
  BY OtherCallsAre, DropFirst, <1>1, <1>2, <1>10, SeenMoves, NoneAhead, <1>3, <1>4, <1>6, <1>7,
     RecoveringGoes DEF Moved
<1> QED
  BY <1>5, <1>8, <1>9, <1>10

(* A step of a cleanup. *)
LEMMA CleaningFine ==
  ASSUME AInv, h # Idle, Cleaning, HelperStep
  PROVE  Fine
BY CleaningSteps, CleaningRecord, CleaningWhich, DoneFine

(* The calls of a grow. *)
LEMMA GrowingCalls ==
  /\ \A s \in Seq(GrowCall) : s \in Seq(Call)
  /\ LiveAttachment \o <<"extend">> \in Seq(GrowCall) /\ << >> \in Seq(GrowCall)
  BY ConcatProperties DEF GrowCall, Call, LiveAttachment

(* A grow that goes on. *)
LEMMA GrowingGoes ==
  ASSUME Growing, NEW calls \in Seq(GrowCall), NEW K, Goes(calls, K), h'.made = h.made, Kept
  PROVE  Fine
  BY DEF Goes, Growing, Fine, HelperTyped, Stage

(* The size is read, and the volume extended where it has to be. *)
LEMMA GrowingSize ==
  ASSUME AInv, h # Idle, Growing, Tail(h.todo) \in Seq(GrowCall), LvSize, Kept
  PROVE  Fine
  BY TearingIs, GrowingCalls, ConcatProperties, PlainMoves, GrowingGoes DEF LvSize, To, Moved

(* A step of a grow. *)
LEMMA GrowingFine ==
  ASSUME AInv, h # Idle, Growing, HelperStep
  PROVE  Fine
<1>1. k' = k /\ rec' = rec /\ nonce' = nonce /\ env' = env /\ faults' = faults => Kept /\ Counted
  BY TearingIs, SameCounted, QuietKept DEF AttachTypeOK
<1> QED
  BY <1>1, TearingIs, GrowingSteps, FailedFine, ReadMoves, GrowingGoes, BackendMoves, LookMoves,
     AskMoves, GrowingSize, DoneFine DEF Live, Moved, LvExtend, XfsGrowfs, LvSize

(* A verification that goes on. *)
LEMMA VerifyingGoes ==
  ASSUME AInv, h # Idle, NEW n \in 1..13, Verifying(n), h' \in Helper, h'.todo = Tail(h.todo), h'.made = h.made,
         h'.verb = h.verb, k' = k, Kept,
         h'.rec # NoRecord, OwnProof(h'.rec), n > 1 => h'.rec = h.rec,
         n = 12 => h'.whole \/ Down(k, h.rec),
         n = 13 => h'.whole \/ StrayConnect(k, h.rec.nonce)
  PROVE  Fine
<1>1. PICK i \in 1..14 : i = n + 1 /\ (i > 2 => n > 1) /\ (i = 13 => n = 12) /\ (i = 14 => n = 13)
  OBVIOUS
<1>2. n \in 1..14
  OBVIOUS
<1>3. h'.todo = Drop(VerifyCalls, i)
  BY <1>1, <1>2, VerifyingHead
<1>4. h.verb = "verify" /\ ~h.made
  BY DEF Verifying
<1>5. /\ i = 13 => h'.whole \/ Down(k', h'.rec)
      /\ i = 14 => h'.whole \/ StrayConnect(k', h'.rec.nonce)
  BY <1>1, <1>4
<1>6. Verifying(i)'
  BY <1>3, <1>4, <1>5 DEF Verifying
<1> QED
  BY <1>6 DEF Fine, HelperTyped, Stage

(* The whole stack is seen. *)
LEMMA CompleteWhole ==
  ASSUME h \in Helper, k \in Kernel, h.rec \in TrustedRecord, OwnProof(h.rec), Complete(k, h.rec)
  PROVE  Whole(k, h.rec) \/ Down(k, h.rec)
  BY RecordFields DEF Complete, Active, Recoverable, Observable, OwnProof, TrustedRecord, Mounted, Whole, Down

(* A call that asks or looks. *)
LEMMA VerifyingLooks ==
  ASSUME AInv, h # Idle, NEW n \in 2..13, n # 10, Verifying(n), k' = k, rec' = rec, nonce' = nonce, env' = env,
         faults' = faults, NEW K, Moved(Tail(h.todo), K) \/ h' = Failed,
         Moved(Tail(h.todo), K) => /\ n = 12 => Complete(k, h.rec)
                                   /\ n = 13 => Connected(k, h.rec)
  PROVE  Fine
<1>1. n \in 1..13 /\ n > 1
  OBVIOUS
<1>2. h.rec # NoRecord /\ OwnProof(h.rec)
  BY <1>1 DEF Verifying
<1>3. h \in Helper /\ AttachTypeOK /\ k \in Kernel /\ h.rec \in TrustedRecord
  BY <1>2, TearingIs
<1>4. Kept
  BY <1>3, QuietKept DEF AttachTypeOK, Counted
<1>5. CASE h' = Failed
  BY <1>3, <1>5, FailedFine DEF AttachTypeOK, Counted
<1>6. CASE Moved(Tail(h.todo), K)
  <2>1. /\ h' \in Helper /\ h'.todo = Tail(h.todo) /\ h'.made = h.made /\ h'.verb = h.verb /\ h'.rec = h.rec
        /\ h'.whole <=> (h.whole \/ (h'.rec # NoRecord /\ Whole(k', h'.rec)))
    BY <1>6 DEF Moved, Goes
  <2>2. n = 12 => h'.whole \/ Down(k, h.rec)
    <3>1. SUFFICES ASSUME n = 12 PROVE h'.whole \/ Down(k, h.rec)
      OBVIOUS
    <3>2. Complete(k, h.rec)
      BY <1>6, <3>1
    <3>3. Whole(k, h.rec) \/ Down(k, h.rec)
      BY <1>2, <1>3, <3>2, CompleteWhole
    <3> QED
      BY <1>2, <2>1, <3>3
  <2>3. n = 13 => h'.whole \/ StrayConnect(k, h.rec.nonce)
    <3>1. SUFFICES ASSUME n = 13 PROVE h'.whole \/ StrayConnect(k, h.rec.nonce)
      OBVIOUS
    <3>2. Connected(k, h.rec) /\ (h.whole \/ Down(k, h.rec))
      BY <1>6, <3>1 DEF Verifying
    <3>3. h.whole \/ StrayConnect(k, h.rec.nonce)
      BY <3>2 DEF Down
    <3> QED
      BY <2>1, <3>3
  <2> QED
    BY <1>1, <1>2, <1>4, <2>1, <2>2, <2>3, VerifyingGoes
<1> QED
  BY <1>5, <1>6

(* The record is read. *)
LEMMA VerifyingRecord ==
  ASSUME AInv, h # Idle, Verifying(1), ReadRecord
  PROVE  Fine
  BY TearingIs, ReadMoves, QuietKept, FailedFine, VerifyingGoes DEF AttachTypeOK, Counted, Goes

(* The sentinel is read. *)
LEMMA VerifyingSentinel ==
  ASSUME AInv, h # Idle, Verifying(10), Sentinel
  PROVE  Fine
<1>1. 10 \in 1..13 /\ 10 > 1 /\ 10 \notin {12, 13}
  OBVIOUS
<1>2. HelperTyped /\ AttachTypeOK /\ h \in Helper
  BY TearingIs
<1>3. /\ k' = k /\ rec' = rec /\ nonce' = nonce /\ env' = env /\ faults' = faults /\ At("sentinel")
      /\ \/ h' = [h EXCEPT !.todo = Tail(h.todo), !.whole = FALSE]
         \/ h' = Failed
  BY DEF Sentinel
<1>4. Kept
  BY <1>2, <1>3, QuietKept DEF AttachTypeOK, Counted
<1>5. CASE h' = Failed
  BY <1>2, <1>3, <1>5, FailedFine DEF AttachTypeOK, Counted
<1>6. CASE h' = [h EXCEPT !.todo = Tail(h.todo), !.whole = FALSE]
  BY <1>2, <1>3, AtIs, <1>6, <1>1, <1>4, VerifyingGoes DEF Helper, Verifying
<1> QED
  BY <1>3, <1>5, <1>6

(* A step of a verification. *)
LEMMA VerifyingFine ==
  ASSUME AInv, h # Idle, NEW n \in 1..14, Verifying(n), HelperStep
  PROVE  Fine
  BY TearingIs, AskMoves, VerifyingLooks, FailedFine, LookMoves, VerifyingRecord, VerifyingSentinel,
     DoneFine, VerifyingSteps DEF Proved, VerifyConnection, AttachTypeOK, Counted, MountComplete, FsProbe

-----------------------------------------------------------------------------
(* Commands that have lost their helper. *)

(* What the end of one may change. *)
Came(w, kind) ==
    /\ w \in Kernel /\ w.late = k.late /\ w.loose = k.loose /\ w.holder = k.holder
    /\ kind # "backend" => w.backend = k.backend
    /\ kind # "map" => w.map = k.map
    /\ kind # "mnt" => w.mnt = k.mnt
    /\ \A d \in Dev : \/ w.backend[d] = k.backend[d] \/ w.backend[d] = Absent
                      \/ StrayConnect(k, w.backend[d])
    /\ \A a \in Att : \/ w.map[a] = k.map[a]
                      \/ /\ ~Opened(k, a)
                         /\ \/ w.map[a] = NoMap
                            \/ w.map[a].own = TRUE /\ w.map[a] # NoMap /\ StrayMap(k, a, w.map[a].dev)
    /\ \A a \in Att : \/ w.mnt[a] = k.mnt[a] \/ w.mnt[a] = "none"
                      \/ w.mnt[a] # "elsewhere" /\ k.map[a] # NoMap /\ StrayMount(k, a)

(* It leaves everything as it was. *)
LEMMA SameCame == ASSUME k \in Kernel, NEW kind PROVE Came(k, kind)
  BY DEF Came

(* It connects or disconnects. *)
LEMMA BackendCame ==
  ASSUME k \in Kernel, NEW d \in Dev, NEW x \in Backend, x = Absent \/ StrayConnect(k, x),
         NEW w, w = BackendTo(k, d, x)
  PROVE  Came(w, "backend")
<1>1. /\ w \in Kernel /\ w.backend = [k.backend EXCEPT ![d] = x]
      /\ w.map = k.map /\ w.mnt = k.mnt /\ w.holder = k.holder
      /\ w.late = k.late /\ w.loose = k.loose
  BY BackendSet
<1>2. k.backend \in [Dev -> Backend]
  BY DEF Kernel
<1> QED
  BY <1>1, <1>2 DEF Came

(* It activates or deactivates. *)
LEMMA MapCame ==
  ASSUME k \in Kernel, NEW a \in Att, NEW x \in Mapping, ~Opened(k, a),
         x = NoMap \/ (x.own = TRUE /\ x # NoMap /\ StrayMap(k, a, x.dev)), NEW w, w = MapTo(k, a, x)
  PROVE  Came(w, "map")
<1>1. /\ w \in Kernel /\ w.map = [k.map EXCEPT ![a] = x]
      /\ w.backend = k.backend /\ w.mnt = k.mnt /\ w.holder = k.holder
      /\ w.late = k.late /\ w.loose = k.loose
  BY MapSet
<1>2. k.map \in [Att -> Mapping]
  BY DEF Kernel
<1> QED
  BY <1>1, <1>2 DEF Came

(* It mounts or unmounts. *)
LEMMA MountCame ==
  ASSUME k \in Kernel, NEW a \in Att, NEW x \in {"none", "lv", "wrong"},
         x = "none" \/ (k.map[a] # NoMap /\ StrayMount(k, a)), NEW w, w = MountTo(k, a, x)
  PROVE  Came(w, "mnt")
<1>1. x \in MountState
  BY DEF MountState
<1>2. /\ w \in Kernel /\ w.mnt = [k.mnt EXCEPT ![a] = x]
      /\ w.backend = k.backend /\ w.map = k.map /\ w.holder = k.holder
      /\ w.late = k.late /\ w.loose = k.loose
  BY <1>1, MountSet
<1>3. k.mnt \in [Att -> MountState]
  BY DEF Kernel
<1> QED
  BY <1>2, <1>3 DEF Came

(* The effect of a command. *)
LEMMA EffectCame ==
  ASSUME AInv, NEW c \in k.late, NEW w, w = Effect(k, c)
  PROVE  Came(w, Kind(c.call))
<1>1. k \in Kernel /\ OpenedActive /\ (c.call \in Builds => c \in k.loose)
  BY NoOrphanIs, TypeIs DEF AInv, LateLoose
<1>2. c.call \in Command /\ c.rec \in TrustedRecord
  BY <1>1, LateFields DEF Kernel
<1>3. PICK d \in Dev, a \in Att, n \in 1..MaxConn : d = c.rec.dev /\ a = c.rec.att /\ n = c.rec.nonce
  BY <1>2, RecordFields
<1>4. CASE c.call = "connect"
  <2>1. n \in Backend /\ StrayConnect(k, n) /\ Kind(c.call) = "backend"
    BY <1>1, <1>3, <1>4 DEF Backend, StrayConnect, Builds, Kind
  <2>2. w = k \/ w = BackendTo(k, d, n)
    BY <1>3, <1>4 DEF Effect, NbdConnect, BackendTo
  <2> QED
    BY <1>1, <2>1, <2>2, SameCame, BackendCame
<1>5. CASE c.call = "vgchange"
  <2>1. PICK x \in Mapping : x = [dev |-> d, own |-> TRUE]
    BY DEF Mapping
  <2>2. x.own = TRUE /\ x # NoMap /\ StrayMap(k, a, x.dev) /\ Kind(c.call) = "map"
    BY <1>1, <1>3, <1>5, <2>1, NoMapIs DEF StrayMap, Builds, Kind
  <2>3. w = k \/ (w = MapTo(k, a, x) /\ k.map[a] = NoMap)
    BY <1>3, <1>5, <2>1 DEF Effect, Activate, MapTo, Active
  <2>4. k.map[a] = NoMap => ~Opened(k, a)
    BY <1>1 DEF OpenedActive
  <2> QED
    BY <1>1, <2>2, <2>3, <2>4, SameCame, MapCame
<1>6. CASE c.call = "mount"
  <2>1. StrayMount(k, a) /\ Kind(c.call) = "mnt"
    BY <1>1, <1>3, <1>6 DEF StrayMount, Builds, Kind
  <2>2. w = k \/ \E x \in {"lv", "wrong"} : w = MountTo(k, a, x) /\ k.map[a] # NoMap
    BY <1>3, <1>6 DEF Effect, MountXfs, MountTo, Active
  <2> QED
    BY <1>1, <2>1, <2>2, SameCame, MountCame
<1>7. CASE c.call = "umount"
  <2>1. Kind(c.call) = "mnt" /\ (w = k \/ w = MountTo(k, a, "none"))
    BY <1>3, <1>7 DEF Effect, Umount, MountTo, Kind
  <2> QED
    BY <1>1, <2>1, SameCame, MountCame
<1>8. CASE c.call \in {"off", "vgoff", "dmremove"}
  <2>1. Kind(c.call) = "map" /\ NoMap \in Mapping
    BY <1>8, NoMapIs DEF Kind
  <2>2. w = k \/ (w = MapTo(k, a, NoMap) /\ ~Opened(k, a))
    BY <1>3, <1>8 DEF Effect, DeactivateScoped, Deactivate, MapTo
  <2> QED
    BY <1>1, <2>1, <2>2, SameCame, MapCame
<1>9. CASE c.call = "disconnect"
  <2>1. Absent \in Backend /\ Kind(c.call) = "backend" /\ w = BackendTo(k, d, Absent)
    BY <1>3, <1>9 DEF Effect, NbdDisconnect, BackendTo, Kind, Backend
  <2> QED
    BY <1>1, <2>1, BackendCame
<1> QED
  BY <1>2, <1>4, <1>5, <1>6, <1>7, <1>8, <1>9 DEF Command

(* One of them ends. *)
LEMMA LateEndsYields ==
  ASSUME AInv, LateEnds
  PROVE  Yielded /\ env' = env
<1>1. k \in Kernel /\ HelperTyped
  BY NoOrphanIs, TypeIs DEF AInv
<1>2. PICK c \in k.late :
        \/ k' = [k EXCEPT !.late = @ \ {c}] /\ h' = h
        \/ k' = [Effect(k, c) EXCEPT !.late = @ \ {c}] /\ Stale(Kind(c.call))
  BY DEF LateEnds
<1>3. rec' = rec /\ nonce' = nonce /\ env' = env /\ faults' = faults
  BY DEF LateEnds
<1>4. PICK kind : kind = Kind(c.call)
  OBVIOUS
<1>5. kind \in {"backend", "map", "mnt", "holder"}
  BY <1>4 DEF Kind
<1>6. PICK w : /\ Came(w, kind) /\ k' = [w EXCEPT !.late = w.late \ {c}]
               /\ (w = k /\ h' = h) \/ Stale(kind)
  <2>1. PICK e : e = Effect(k, c)
    OBVIOUS
  <2>2. Came(e, kind) /\ Came(k, kind)
    BY <1>1, <1>4, <2>1, EffectCame, SameCame
  <2>3. CASE k' = [k EXCEPT !.late = @ \ {c}] /\ h' = h
    BY <2>2, <2>3
  <2>4. CASE k' = [e EXCEPT !.late = @ \ {c}] /\ Stale(kind)
    BY <2>2, <2>4
  <2> QED
    BY <1>2, <1>4, <2>1, <2>3, <2>4
<1>7. PICK x \in SUBSET LateCommand : x = w.late \ {c} /\ x \subseteq k.late
  <2>1. w.late = k.late
    BY <1>6 DEF Came
  <2>2. k.late \subseteq LateCommand
    BY <1>1 DEF Kernel
  <2>3. w.late \ {c} \in SUBSET LateCommand /\ w.late \ {c} \subseteq k.late
    BY <2>1, <2>2
  <2> QED
    BY <2>3
<1>8. PICK v : v = k'
  OBVIOUS
<1>9. w \in Kernel /\ v = [w EXCEPT !.late = x]
  BY <1>6, <1>7, <1>8 DEF Came
<1>10. /\ v \in Kernel /\ v.late = x /\ v.loose = w.loose /\ v.holder = w.holder
       /\ v.backend = w.backend /\ v.map = w.map /\ v.mnt = w.mnt
  BY <1>9 DEF Kernel
<1>11. /\ k' \in Kernel /\ k'.late \subseteq k.late /\ k'.loose = k.loose /\ k'.holder = k.holder
       /\ k'.backend = w.backend /\ k'.map = w.map /\ k'.mnt = w.mnt
       /\ kind # "backend" => k'.backend = k.backend
       /\ kind # "map" => k'.map = k.map
       /\ kind # "mnt" => k'.mnt = k.mnt
  BY <1>6, <1>7, <1>8, <1>10 DEF Came
<1>12. YieldBackend
  BY <1>6, <1>11 DEF Came, YieldBackend
<1>13. YieldMap
  <2>1. ASSUME NEW a \in Att, k'.map[a] # k.map[a] PROVE kind = "map" /\ k'.mnt = k.mnt
    BY <1>11, <2>1
  <2> QED
    BY <1>6, <1>11, <2>1, NoMapIs DEF Came, YieldMap
<1>14. YieldMount
  <2>1. ASSUME NEW a \in Att, k'.mnt[a] # k.mnt[a] PROVE kind = "mnt" /\ k'.map = k.map
    BY <1>11, <2>1
  <2> QED
    BY <1>6, <1>11, <2>1 DEF Came, YieldMount
<1>15. Noted
  <2>1. CASE Stale(kind)
    BY <1>1, <1>5, <1>11, <2>1, StaleNoted
  <2>2. CASE w = k /\ h' = h
    BY <1>1, <1>11, <2>2 DEF Noted, HelperTyped
  <2> QED
    BY <1>6, <2>1, <2>2
<1> QED
  BY <1>3, <1>11, <1>12, <1>13, <1>14, <1>15 DEF Yielded, Yields, YieldLate

-----------------------------------------------------------------------------
(* The invariant. *)

(* A call of the helper, whatever it is doing. *)
LEMMA HelperFine ==
  ASSUME AInv, HelperStep
  PROVE  Fine
  BY StepIs, DetachingFine, RecoveringFine, AttachingFine, ConfirmingFine, VerifyingFine, RollbackFine,
     CleaningFine, GrowingFine DEF Idle, AInv, Stage

(* Where it starts. *)
LEMMA AttachInitInv == AttachInit => AInv
<1> SUFFICES ASSUME AttachInit PROVE AInv
  OBVIOUS
<1>1. /\ k = [backend |-> [d \in Dev |-> Absent], map |-> [a \in Att |-> NoMap],
              mnt |-> [a \in Att |-> "none"], holder |-> {}, dead |-> {}, late |-> {}, loose |-> {}]
      /\ rec = [v \in Vol |-> NoRecord] /\ h = Idle /\ nonce = 0 /\ env = 0 /\ faults = 0
  BY DEF AttachInit
<1>2. /\ \A d \in Dev : k.backend[d] = Absent
      /\ \A a \in Att : k.map[a] = NoMap /\ k.mnt[a] = "none"
      /\ \A v \in Vol : rec[v] = NoRecord
      /\ k.late = {} /\ k.loose = {}
  BY <1>1
<1>3. k \in Kernel
  BY <1>1 DEF Kernel, Backend, Mapping, MountState
<1>4. AttachTypeOK
  BY <1>1, <1>3, AttachAssumption, TypeIs
<1>5. Traced
  BY <1>2, NoMapIs DEF Traced, Absent
<1>6. OpenedActive /\ RecordsOwn /\ LooseUsed /\ LateLoose
  BY <1>2 DEF OpenedActive, Opened, RecordsOwn, OwnProof, LooseUsed, LateLoose
<1> QED
  BY <1>1, <1>4, <1>5, <1>6, NoOrphanIs DEF AInv, HelperTyped, Stage

(* Nothing happens. *)
LEMMA UnchangedStage ==
  ASSUME AttachTypeOK, HelperTyped, Stage, k' = k, rec' = rec, h' = h, nonce' = nonce, faults' = faults
  PROVE  Stage'
  BY TypeIs, SameYields, OthersStage DEF Noted, HelperTyped, Yielded

(* The commands that take something down, and what holds before them. *)
Ready(c) ==
    /\ c \in {"connect", "vgchange", "mount", "umount", "off", "vgoff", "dmremove", "disconnect"} => h.rec # NoRecord
    /\ c = "umount" => MountOurs
    /\ c \in {"vgoff", "dmremove"} => MapOurs
    /\ c = "disconnect" => BackendOurs /\ Unused
    /\ c \in Builds => h.rec.nonce <= nonce

(* Before a command of those that were put first. *)
LEMMA PartReady ==
  ASSUME NEW t \in Part, NEW m \in 1..7, t # "none", m \in 1..Len(PartCalls(t)), InsertedAt(t, m), h.rec # NoRecord
  PROVE  Ready(PartHead(t, m))
  BY PartHeads DEF InsertedAt, Ready, Builds, InsertedCall

(* Before a command, whatever the helper is doing. *)
LEMMA CallReady ==
  ASSUME AInv, h # Idle, h.todo # << >>
  PROVE  Ready(Head(h.todo))
<1>1. ASSUME NEW n \in 1..38, Attaching(n) PROVE Ready(Head(h.todo))
  <2>1. PICK c : c = Head(h.todo) /\ c = AttachCalls[n]
    BY <1>1, AttachingHead
  <2>2. c \notin {"umount", "vgoff", "dmremove", "disconnect", "off"}
        /\ (c \in {"connect", "vgchange", "mount"} => n \in {7, 18, 34})
    BY <2>1, AttachPlaces
  <2>3. n \in {7, 18, 34} => h.rec # NoRecord /\ h.rec.nonce <= nonce
    BY <1>1 DEF Attaching
  <2> QED
    BY <2>1, <2>2, <2>3 DEF Ready, Builds
<1>2. ASSUME RollingBack PROVE Ready(Head(h.todo))
  BY <1>2, RbLoopHead, RbPlaces, RbUnplugHead, RbUnplugPlaces, RbPartHead DEF RollingBack, Named, Ready,
     RbUnplug, RbUmount, Builds
<1>3. ASSUME NEW t \in Part, NEW m \in 1..7, NEW n \in 1..11, Detaching(t, m, n) PROVE Ready(Head(h.todo))
  <2>1. CASE t = "none"
    <3>1. Head(h.todo) \in {"record", "backend", "state", "needUmount", "needDeactivate", "needDisconnect", "retire", "done"}
      <4>1. Head(h.todo) = DetachCalls[n]
        BY <1>3, <2>1, DetachingHead
      <4> QED
        BY <4>1, DetachPlaces
    <3> QED
      BY <3>1 DEF Ready, Builds
  <2>2. CASE t # "none"
    <3>1. n \in {6, 8, 10} /\ InsertedAt(t, m) /\ (n > 1 => h.rec # NoRecord)
      BY <1>3, <2>2 DEF Detaching
    <3>2. Head(h.todo) = PartHead(t, m) /\ m \in 1..Len(PartCalls(t))
      BY <1>3, <2>2, DetachingHead
    <3> QED
      BY <2>2, <3>1, <3>2, PartReady
  <2> QED
    BY <2>1, <2>2
<1>4. ASSUME NEW t \in Part, NEW m \in 1..7, NEW n \in 1..5, Recovering(t, m, n) PROVE Ready(Head(h.todo))
  <2>1. CASE t = "none"
    <3>1. Head(h.todo) \in {"record", "absent", "disconnected", "decide"}
      <4>1. Head(h.todo) = RecoverCalls[n]
        BY <1>4, <2>1, RecoveringHead
      <4> QED
        BY <4>1, RecoverPlaces
    <3> QED
      BY <3>1 DEF Ready, Builds
  <2>2. CASE t # "none"
    <3>1. n = 2 /\ InsertedAt(t, m) /\ (n > 1 => h.rec # NoRecord)
      BY <1>4, <2>2 DEF Recovering
    <3>2. Head(h.todo) = PartHead(t, m) /\ m \in 1..Len(PartCalls(t))
      BY <1>4, <2>2, RecoveringHead
    <3> QED
      BY <2>2, <3>1, <3>2, PartReady
  <2> QED
    BY <2>1, <2>2
<1>5. ASSUME NEW n \in 1..4, Confirming(n) PROVE Ready(Head(h.todo))
  BY <1>5, ConfirmingHead, ConfirmPlaces DEF Ready, Builds
<1>6. ASSUME Cleaning PROVE Ready(Head(h.todo))
  BY <1>6, CleaningHead DEF Ready, Builds
<1>7. ASSUME Growing PROVE Ready(Head(h.todo))
  BY <1>7 DEF Growing, Ready, GrowCall, Builds
<1>8. ASSUME NEW n \in 1..14, Verifying(n) PROVE Ready(Head(h.todo))
  BY <1>8, VerifyingHead, VerifyPlaces DEF Ready, Builds
<1> QED
  BY <1>1, <1>2, <1>3, <1>4, <1>5, <1>6, <1>7, <1>8 DEF AInv, Stage

(* The helper is killed, and its command may go on. *)
LEMMA KilledKept ==
  ASSUME AInv, Killed
  PROVE  Kept /\ h' = Idle /\ k'.backend = k.backend /\ k'.map = k.map /\ k'.mnt = k.mnt
<1>1. AttachTypeOK /\ k \in Kernel /\ faults \in 0..MaxFaults
  BY NoOrphanIs, TypeIs DEF AInv
<1>2. Counted /\ rec' = rec /\ h' = Idle /\ h # Idle /\ h.todo # << >>
  <2>1. nonce' = nonce /\ env' = env /\ faults' \in 0..MaxFaults
    BY <1>1, AttachAssumption DEF Killed
  <2> QED
    BY <1>1, <2>1, SameCounted DEF Killed, Idle
<1>3. CASE k' = k
  BY <1>2, <1>3, QuietKept
<1>4. CASE Head(h.todo) \in Command /\ k' = LeftRunning(TRUE)
  <2>1. Ready(Head(h.todo))
    BY <1>2, CallReady
  <2>2. h.rec \in TrustedRecord
    BY <1>2, <1>4, <2>1, TearingIs DEF Ready, Command
  <2>3. k'.backend = k.backend /\ k'.map = k.map /\ k'.mnt = k.mnt
    BY <1>1, <1>4, <2>2, LeftIs, Zenon
  <2>4. CASE Head(h.todo) \in Builds
    <3>1. h.rec.nonce <= nonce
      BY <2>1, <2>4 DEF Ready
    <3>2. Kept
      BY <1>2, <1>4, <2>2, <3>1, LeftKept, Zenon
    <3> QED
      BY <1>2, <2>3, <3>2
  <2>5. CASE Head(h.todo) \notin Builds
    <3>1. Yields
      BY <1>1, <1>4, <2>2, <2>5, LeftYields, Zenon
    <3> QED
      BY <1>2, <2>3, <3>1, YieldsKept
  <2> QED
    BY <2>4, <2>5
<1> QED
  BY <1>2, <1>3, <1>4 DEF Killed

(* Every step of the helper and of others keeps it. *)
LEMMA AttachNextInv == AInv /\ [AttachNext]_attachVars => AInv'
<1> SUFFICES ASSUME AInv, [AttachNext]_attachVars PROVE AInv'
  OBVIOUS
<1>1. AttachTypeOK /\ HelperTyped /\ OpenedActive /\ Stage /\ k \in Kernel
      /\ nonce \in 0..MaxConn /\ env \in 0..MaxEnv /\ faults \in 0..MaxFaults
  BY NoOrphanIs, TypeIs DEF AInv
<1>2. ASSUME NEW verb \in Verb, NEW v \in Vol, NEW a \in Att, Start(verb, v, a) PROVE AInv'
  <2>1. Kept
    BY <1>1, <1>2, QuietKept, SameCounted DEF Start
  <2> QED
    BY <1>1, <1>2, <2>1, StartStage DEF Start, AInv, Kept
<1>3. CASE HelperStep
  BY <1>3, HelperFine DEF Fine, Kept, AInv
<1>4. CASE CallFails
  <2>1. Counted
    BY <1>1, <1>4, AttachAssumption, SameCounted DEF CallFails
  <2> QED
    BY <1>4, <2>1, FailedFine DEF CallFails, Idle, Fine, Kept, AInv
<1>5. CASE Killed
  BY <1>5, KilledKept DEF AInv, Kept, HelperTyped, Stage
<1>6. CASE Elsewhere \/ OthersLeave \/ LateEnds
  <2>1. Yielded /\ env' \in 0..MaxEnv
    BY <1>1, <1>6, ElsewhereYields, OthersLeaveYields, LateEndsYields
  <2>2. Counted
    BY <1>1, <2>1, AttachAssumption DEF Yielded, Counted
  <2>3. Kept
    BY <2>1, <2>2, YieldsKept DEF Yielded
  <2> QED
    BY <1>1, <2>1, <2>3, OthersStage DEF Yielded, Noted, HelperTyped, AInv, Kept
<1>7. CASE UNCHANGED attachVars
  <2>1. Kept
    BY <1>1, <1>7, QuietKept, SameCounted DEF attachVars
  <2> QED
    BY <1>7, <1>1, <2>1, UnchangedStage DEF attachVars, HelperTyped, AInv, Kept
<1> QED
  BY <1>2, <1>3, <1>4, <1>5, <1>6, <1>7 DEF AttachNext

(* What a verb that reports success has done. *)
LEMMA SuccessIs == AInv => SuccessEarned
<1> SUFFICES ASSUME AInv, At("done") PROVE SuccessEarned
  BY DEF SuccessEarned
<1>1. h.todo # << >> /\ Head(h.todo) = "done" /\ h # Idle
  BY DEF At, Idle
<1>2. ASSUME NEW n \in 1..38, Attaching(n) PROVE SuccessEarned
  <2>1. n = 38
    BY <1>1, <1>2, AttachingHead, AttachPlaces
  <2>2. h.verb = "attach" /\ rec[h.vol] = h.rec /\ (h.whole \/ ~FsPinned[h.vol] \/ StrayMount(k, h.rec.att))
    BY <1>2, <2>1 DEF Attaching
  <2> QED
    BY <2>2 DEF SuccessEarned
<1>3. ASSUME RollingBack PROVE FALSE
  BY <1>1, RbLoopHead, RbPlaces, RbUnplugHead, RbUnplugPlaces, RbPartHead, <1>3 DEF RollingBack
<1>4. ASSUME NEW t \in Part, NEW m \in 1..7, t # "none", m \in 1..Len(PartCalls(t)), Head(h.todo) = PartHead(t, m)
      PROVE  FALSE
  BY <1>1, <1>4, PartHeads DEF InsertedCall
<1>5. ASSUME NEW t \in Part, NEW m \in 1..7, NEW n \in 1..11, Detaching(t, m, n) PROVE SuccessEarned
  <2>1. t = "none"
    BY <1>4, <1>5, DetachingHead
  <2>2. Head(h.todo) = DetachCalls[n]
    BY <1>5, <2>1, DetachingHead
  <2>3. n = 11
    BY <1>1, <2>2, DetachPlaces
  <2>4. Tearing /\ h.rec # NoRecord /\ rec[h.vol] = NoRecord /\ Gone(k, h.rec)
    BY <1>5, <2>3 DEF Detaching
  <2> QED
    BY <2>4 DEF SuccessEarned, Tearing, Gone, Down, Unmapped, OwnMap
<1>6. ASSUME NEW t \in Part, NEW m \in 1..7, NEW n \in 1..5, Recovering(t, m, n) PROVE FALSE
  BY <1>4, <1>6, RecoveringHead, <1>1, RecoverPlaces
<1>7. ASSUME NEW n \in 1..4, Confirming(n) PROVE SuccessEarned
  BY <1>1, <1>7, ConfirmingHead, ConfirmPlaces DEF Confirming, SuccessEarned, Tearing, Down, Unmapped, OwnMap
<1>8. ASSUME Cleaning PROVE SuccessEarned
  BY <1>1, <1>8, CleaningHead DEF Cleaning, SuccessEarned
<1>9. ASSUME Growing PROVE SuccessEarned
  BY <1>9 DEF Growing, SuccessEarned
<1>10. ASSUME NEW n \in 1..14, Verifying(n) PROVE SuccessEarned
  BY <1>1, <1>10, VerifyingHead, VerifyPlaces DEF Verifying, SuccessEarned
<1> QED
  BY <1>1, <1>2, <1>3, <1>5, <1>6, <1>7, <1>8, <1>9, <1>10 DEF AInv, Stage

(* What a step takes down. *)
TakesBackend ==
    \A d \in Dev : k'.backend[d] # k.backend[d] /\ k'.backend[d] = Absent =>
      /\ k.backend[d] = h.rec.nonce \/ "backend" \in h.stale
      /\ ~InUse(k, d) \/ h.stale \cap {"map", "holder"} # {}
TakesMap ==
    \A a \in Att : k'.map[a] # k.map[a] /\ k'.map[a] = NoMap => Ours(a) \/ "map" \in h.stale
TakesMount ==
    \A a \in Att : k'.mnt[a] # k.mnt[a] /\ k'.mnt[a] = "none" =>
      (k.mnt[a] \in {"lv", "wrong"} /\ Ours(a)) \/ h.stale \cap {"map", "mnt"} # {}
TakesOwn == TakesBackend /\ TakesMap /\ TakesMount

(* A step that leaves the kernel alone takes nothing down. *)
LEMMA SameTakes == ASSUME k' = k PROVE TakesOwn
BY DEF TakesOwn, TakesBackend, TakesMap, TakesMount

(* A command that brings something up takes nothing down. *)
LEMMA UpTakes ==
  ASSUME k \in Kernel, h.rec \in TrustedRecord,
         k' \in {NbdConnect(k, h.rec), Activate(k, h.rec), MountXfs(k, h.rec)}
  PROVE  TakesOwn
<1>1. /\ h.rec.nonce \in 1..MaxConn /\ h.rec.dev \in Dev /\ h.rec.att \in Att
  BY RecordFields
<1>2. CASE k' = k
  BY <1>2, SameTakes
<1>3. CASE k' = BackendTo(k, h.rec.dev, h.rec.nonce)
  <2>1. PICK w : w = k'
    OBVIOUS
  <2>2. w.backend = [k.backend EXCEPT ![h.rec.dev] = h.rec.nonce] /\ w.map = k.map /\ w.mnt = k.mnt
    BY <1>1, <1>3, <2>1, BackendSet DEF Backend
  <2>3. \A d \in Dev : w.backend[d] # k.backend[d] => w.backend[d] # Absent
    BY <1>1, <2>2 DEF Kernel, Absent
  <2> QED
    BY <2>1, <2>2, <2>3 DEF TakesOwn, TakesBackend, TakesMap, TakesMount
<1>4. CASE k' = MapTo(k, h.rec.att, [dev |-> h.rec.dev, own |-> TRUE])
  <2>1. PICK w : w = k'
    OBVIOUS
  <2>2. PICK x \in Mapping : x = [dev |-> h.rec.dev, own |-> TRUE] /\ x # NoMap
    <3>1. [dev |-> h.rec.dev, own |-> TRUE] \in Mapping
      BY <1>1 DEF Mapping
    <3>2. [dev |-> h.rec.dev, own |-> TRUE].own = TRUE
      OBVIOUS
    <3> QED
      BY <3>1, <3>2, NoMapIs
  <2>3. w.map = [k.map EXCEPT ![h.rec.att] = x] /\ w.backend = k.backend /\ w.mnt = k.mnt
    BY <1>1, <1>4, <2>1, <2>2, MapSet
  <2>4. \A a \in Att : w.map[a] # k.map[a] => w.map[a] # NoMap
    BY <1>1, <2>2, <2>3 DEF Kernel
  <2> QED
    BY <2>1, <2>3, <2>4 DEF TakesOwn, TakesBackend, TakesMap, TakesMount
<1>5. ASSUME NEW x \in {"lv", "wrong"}, k' = MountTo(k, h.rec.att, x) PROVE TakesOwn
  <2>1. PICK w : w = k'
    OBVIOUS
  <2>2. x \in MountState
    BY DEF MountState
  <2>3. w.mnt = [k.mnt EXCEPT ![h.rec.att] = x] /\ w.backend = k.backend /\ w.map = k.map
    BY <1>1, <1>5, <2>1, <2>2, MountSet
  <2>4. \A a \in Att : w.mnt[a] # k.mnt[a] => w.mnt[a] # "none"
    BY <1>1, <2>3 DEF Kernel
  <2> QED
    BY <2>1, <2>3, <2>4 DEF TakesOwn, TakesBackend, TakesMap, TakesMount
<1>6. CASE k' = NbdConnect(k, h.rec)
  BY <1>6, <1>2, <1>3 DEF NbdConnect, BackendTo
<1>7. CASE k' = Activate(k, h.rec)
  BY <1>7, <1>2, <1>4 DEF Activate, MapTo
<1>8. CASE k' = MountXfs(k, h.rec)
  BY <1>8, <1>2, <1>5 DEF MountXfs, MountTo
<1> QED
  BY <1>6, <1>7, <1>8

(* A filesystem is unmounted. *)
LEMMA UmountTakes ==
  ASSUME k \in Kernel, h.rec \in TrustedRecord, MountOurs, k' = Umount(k, h.rec)
  PROVE  TakesOwn
<1>1. h.rec.att \in Att
  BY RecordFields
<1>2. CASE k' = k
  BY <1>2, SameTakes
<1>3. CASE k' = MountTo(k, h.rec.att, "none")
  <2>1. PICK w : w = k'
    OBVIOUS
  <2>2. "none" \in MountState
    BY DEF MountState
  <2>3. w.mnt = [k.mnt EXCEPT ![h.rec.att] = "none"] /\ w.backend = k.backend /\ w.map = k.map
    BY <1>1, <1>3, <2>1, <2>2, MountSet
  <2>4. \A a \in Att : w.mnt[a] # k.mnt[a] => a = h.rec.att
    BY <1>1, <2>3 DEF Kernel
  <2>5. TakesMount
    BY <2>1, <2>4 DEF TakesMount, MountOurs, Mounted
  <2> QED
    BY <2>1, <2>3, <2>5 DEF TakesOwn, TakesBackend, TakesMap
<1> QED
  BY <1>2, <1>3 DEF Umount, MountTo

(* A mapping is taken down. *)
LEMMA OffTakes ==
  ASSUME k \in Kernel, h.rec \in TrustedRecord,
         k' = DeactivateScoped(k, h.rec) \/ (MapOurs /\ k' = Deactivate(k, h.rec))
  PROVE  TakesOwn
<1>1. h.rec.att \in Att
  BY RecordFields
<1>2. CASE k' = k
  BY <1>2, SameTakes
<1>3. CASE k' = MapTo(k, h.rec.att, NoMap) /\ (Active(k, h.rec) => Ours(h.rec.att) \/ "map" \in h.stale)
  <2>1. PICK w : w = k'
    OBVIOUS
  <2>2. w.map = [k.map EXCEPT ![h.rec.att] = NoMap] /\ w.backend = k.backend /\ w.mnt = k.mnt
    BY <1>1, <1>3, <2>1, NoMapIs, MapSet
  <2>3. \A a \in Att : w.map[a] # k.map[a] => a = h.rec.att /\ k.map[a] # NoMap
    BY <1>1, <2>2 DEF Kernel
  <2>4. TakesMap
    BY <1>3, <2>1, <2>3 DEF TakesMap, Active
  <2> QED
    BY <2>1, <2>2, <2>4 DEF TakesOwn, TakesBackend, TakesMount
<1>4. CASE k' = DeactivateScoped(k, h.rec)
  BY <1>4, <1>2, <1>3 DEF DeactivateScoped, MapTo, Ours
<1>5. CASE MapOurs /\ k' = Deactivate(k, h.rec)
  BY <1>5, <1>2, <1>3 DEF Deactivate, MapTo, MapOurs
<1> QED
  BY <1>4, <1>5

(* A device is disconnected. *)
LEMMA DisconnectTakes ==
  ASSUME k \in Kernel, h.rec \in TrustedRecord, BackendOurs, Unused, k' = NbdDisconnect(k, h.rec)
  PROVE  TakesOwn
<1>1. PICK w, d, x : w = k' /\ d = h.rec.dev /\ x = Absent
  OBVIOUS
<1>2. d \in Dev /\ x \in Backend /\ w = BackendTo(k, d, x)
  BY <1>1, RecordFields DEF NbdDisconnect, BackendTo, Backend
<1>3. w.backend = [k.backend EXCEPT ![d] = x] /\ w.map = k.map /\ w.mnt = k.mnt
  BY <1>2, BackendSet
<1>4. \A e \in Dev : w.backend[e] # k.backend[e] => e = d
  BY <1>2, <1>3 DEF Kernel
<1> QED
  BY <1>1, <1>3, <1>4 DEF TakesBackend, BackendOurs, Connected, Unused, TakesOwn, TakesMap, TakesMount

(* The steps that change the kernel. *)
Commands ==
    Connect \/ VgChange \/ Mount \/ RunUmount \/ RunOff \/ RunDisconnect \/ RunVgOff \/ VgOffFails \/ DmRemove

(* Every other call leaves it alone. *)
LEMMA QuietCalls ==
  ASSUME HelperStep
  PROVE  k' = k \/ Commands
<1>1. ASSUME NEW c, NEW good, Ask(c, good) \/ Look(c, good) \/ Observed(c, good) PROVE k' = k
  BY <1>1 DEF Ask, Look, Observed
<1>2. ASSUME NEW c, NEW r, NEW g, Write(c, r, g) PROVE k' = k
  BY <1>2 DEF Write
<1>3. ASSUME NEW c, NEW good, NEW needed, NEW calls, Needed(c, good, needed, calls) PROVE k' = k
  BY <1>3 DEF Needed
<1>4. CASE Prior \/ PriorClear \/ Allocate \/ NoDevice \/ DeviceFree \/ Before \/ Publish
  BY <1>1, <1>2, <1>4 DEF Prior, PriorClear, Allocate, NoDevice, DeviceFree, Before, Publish
<1>5. CASE SetBlockSize \/ Preflight \/ EnsureInactive \/ Intend \/ Mapped \/ Capture \/ Prove
  BY <1>1, <1>2, <1>5 DEF SetBlockSize, Preflight, EnsureInactive, Intend, Mapped, Capture, Prove
<1>6. CASE Unmounted \/ Blkid \/ MountDevice \/ WriteSentinel \/ MountIdentity
  BY <1>1, <1>6, Zenon DEF Unmounted, Blkid, MountDevice, WriteSentinel, MountIdentity
<1>7. CASE RbObserve \/ RbIdentity \/ RbBackend \/ RbGone \/ RbRetire
  BY <1>1, <1>7 DEF RbObserve, RbIdentity, RbBackend, RbGone, RbRetire
<1>8. CASE AskBackend \/ State \/ NeedUmount \/ NeedDeactivate \/ NeedDisconnect \/ Intended
  BY <1>1, <1>3, <1>8 DEF AskBackend, State, NeedUmount, NeedDeactivate, NeedDisconnect, Intended
<1>9. CASE ForceTarget \/ Forced \/ AbsentBackend \/ Disconnected
  BY <1>1, <1>9 DEF ForceTarget, Forced, AbsentBackend, Disconnected
<1>10. CASE Decide \/ RecIntended \/ Confirm \/ Retire("retire") \/ AnyRecord \/ Which
  BY <1>1, <1>2, <1>10 DEF Decide, RecIntended, Confirm, Retire, AnyRecord, Which
<1>11. CASE ReadRecord \/ VerifyConnection \/ Done \/ Live \/ LvSize
  BY <1>1, <1>11 DEF ReadRecord, VerifyConnection, Done, Live, LvSize
<1>12. CASE LvExtend \/ XfsGrowfs \/ Proved \/ MountComplete \/ FsProbe \/ Sentinel
  BY <1>1, <1>12 DEF LvExtend, XfsGrowfs, Proved, MountComplete, FsProbe, Sentinel
<1> QED
  BY <1>4, <1>5, <1>6, <1>7, <1>8, <1>9, <1>10, <1>11, <1>12
     DEF HelperStep, AttachStep, TeardownStep, Commands

(* A command of the helper leaves the kernel, has its effect or goes on. *)
Ends(effect) == k' \in {k, effect, LeftRunning(FALSE)}
LEMMA CommandEffect ==
  /\ Connect => Ends(NbdConnect(k, h.rec))
  /\ VgChange => Ends(Activate(k, h.rec))
  /\ Mount => Ends(MountXfs(k, h.rec))
  /\ RunUmount => Ends(Umount(k, h.rec))
  /\ RunOff => Ends(DeactivateScoped(k, h.rec))
  /\ RunDisconnect => Ends(NbdDisconnect(k, h.rec))
  /\ RunVgOff => Ends(Deactivate(k, h.rec))
  /\ VgOffFails => Ends(Deactivate(k, h.rec))
  /\ DmRemove => Ends(Deactivate(k, h.rec))
<1>1. ASSUME NEW c, NEW effect, Run(c, effect) PROVE Ends(effect)
  BY <1>1, Zenon DEF Run, Ends
<1>2. VgChange => Ends(Activate(k, h.rec))
  BY Zenon DEF VgChange, Ends
<1>3. VgOffFails => Ends(Deactivate(k, h.rec))
  BY Zenon DEF VgOffFails, Ends
<1>4. RunOff => Ends(DeactivateScoped(k, h.rec))
  BY <1>1, Zenon DEF RunOff, VgUnreadable, Ends
<1> QED
  BY <1>1, <1>2, <1>3, <1>4, Zenon DEF Connect, Mount, RunUmount, RunVgOff, DmRemove, RunDisconnect

(* A command that goes on has taken nothing down yet. *)
LEMMA LeftTakes ==
  ASSUME k \in Kernel, h.rec \in TrustedRecord, Head(h.todo) \in Command, k' = LeftRunning(FALSE)
  PROVE  TakesOwn
<1>1. k'.backend = k.backend /\ k'.map = k.map /\ k'.mnt = k.mnt
  BY LeftIs, Zenon
<1> QED
  BY <1>1 DEF TakesOwn, TakesBackend, TakesMap, TakesMount

(* The helper takes down only what is its own. *)
LEMMA HelperTakes ==
  ASSUME AInv, HelperStep
  PROVE  TakesOwn
<1>1. h # Idle /\ h.todo # << >>
  BY StepIs DEF Idle
<1>2. k \in Kernel /\ (h.rec # NoRecord => h.rec \in TrustedRecord) /\ Ready(Head(h.todo))
  BY <1>1, TearingIs, CallReady
<1>3. ASSUME Commands PROVE Head(h.todo) \in Command
  BY <1>3, AttachStepCalls, TeardownStepCalls DEF Commands, At, Command
<1>4. CASE k' = k
  BY <1>4, SameTakes
<1>5. CASE Commands
  <2>1. Head(h.todo) \in Command /\ h.rec \in TrustedRecord
    BY <1>2, <1>3, <1>5 DEF Ready, Command
  <2>2. CASE k' = LeftRunning(FALSE)
    BY <1>2, <2>1, <2>2, LeftTakes, Zenon
  <2>3. CASE Connect \/ VgChange \/ Mount
    <3>1. \/ k' \in {NbdConnect(k, h.rec), Activate(k, h.rec), MountXfs(k, h.rec)}
          \/ k' = k \/ k' = LeftRunning(FALSE)
      BY <2>3, CommandEffect, Zenon DEF Ends
    <3> QED
      BY <1>2, <1>4, <2>1, <2>2, <3>1, UpTakes, Zenon
  <2>4. CASE RunUmount
    <3>1. MountOurs
      BY <1>2, <2>4, TeardownStepCalls DEF Ready, At
    <3> QED
      BY <1>2, <1>4, <2>1, <2>2, <2>4, <3>1, CommandEffect, UmountTakes, Zenon DEF Ends
  <2>5. CASE RunOff \/ RunVgOff \/ VgOffFails \/ DmRemove
    <3>1. RunVgOff \/ VgOffFails \/ DmRemove => MapOurs
      BY <1>2, <2>5, TeardownStepCalls DEF Ready, At
    <3>2. \/ k' = DeactivateScoped(k, h.rec) \/ (MapOurs /\ k' = Deactivate(k, h.rec))
          \/ k' = k \/ k' = LeftRunning(FALSE)
      BY <2>5, <3>1, CommandEffect, Zenon DEF Ends
    <3> QED
      BY <1>2, <1>4, <2>1, <2>2, <3>2, OffTakes, Zenon
  <2>6. CASE RunDisconnect
    <3>1. BackendOurs /\ Unused
      BY <1>2, <2>6, TeardownStepCalls DEF Ready, At
    <3> QED
      BY <1>2, <1>4, <2>1, <2>2, <2>6, <3>1, CommandEffect, DisconnectTakes, Zenon DEF Ends
  <2> QED
    BY <1>5, <2>3, <2>4, <2>5, <2>6 DEF Commands
<1> QED
  BY <1>4, <1>5, QuietCalls

(* No other step goes on with the calls and takes anything down. *)
LEMMA StepTakes ==
  ASSUME AInv, AttachNext
  PROVE  h'.todo # h.todo => TakesOwn
<1>1. ASSUME NEW verb \in Verb, NEW v \in Vol, NEW a \in Att, Start(verb, v, a) PROVE TakesOwn
  <2>1. k' = k
    BY <1>1 DEF Start
  <2> QED
    BY <2>1, SameTakes
<1>2. CASE HelperStep
  BY <1>2, HelperTakes
<1>3. CASE CallFails
  BY <1>3, SameTakes DEF CallFails
<1>4. CASE Elsewhere \/ OthersLeave \/ LateEnds
  BY NoOrphanIs, TypeIs, <1>4, ElsewhereYields, OthersLeaveYields, LateEndsYields DEF AInv, Yielded, Noted
<1>5. CASE Killed
  <2>1. k'.backend = k.backend /\ k'.map = k.map /\ k'.mnt = k.mnt
    BY <1>5, KilledKept
  <2> QED
    BY <2>1 DEF TakesOwn, TakesBackend, TakesMap, TakesMount
<1> QED
  BY <1>1, <1>2, <1>3, <1>4, <1>5 DEF AttachNext

(* AInv is an invariant. *)
THEOREM AttachInvariant == AttachSpec => []AInv
<1>1. AttachInit => AInv
  BY AttachInitInv
<1>2. AInv /\ [AttachNext]_attachVars => AInv'
  BY AttachNextInv
<1> QED
  BY <1>1, <1>2, PTL DEF AttachSpec

(* Whatever is killed, fails or is changed by others (Attach.tla models *)
(* exec.rs, recover.rs, state.rs and plan.rs), every connection that the *)
(* helper made and every mapping that it activated has a trusted record *)
(* that names it, and the mapping an identity under which it may go, *)
(* unless the command that made it had outlived its helper or the time *)
(* the helper gave it (command.rs). *)
THEOREM AttachNoOrphan == AttachSpec => []NoOrphan
<1>1. AInv => NoOrphan
  BY DEF AInv
<1> QED
  BY <1>1, AttachInvariant, PTL

(* A verb that reports success has earned it: verify, and attach where the *)
(* configuration names the UUID of the filesystem, have seen the complete *)
(* stack of their connection at one moment; detach, recover and cleanup *)
(* leave neither a record nor anything of the attachment.  Excepted is *)
(* what a command makes that was left running. *)
THEOREM AttachSuccessEarned == AttachSpec => []SuccessEarned
<1>1. AInv => SuccessEarned
  BY SuccessIs
<1> QED
  BY <1>1, AttachInvariant, PTL

(* No call of the helper unmounts, deactivates or disconnects what its *)
(* record does not name, except where others, or commands left running, *)
(* changed it after the last look of the helper that succeeded. *)
THEOREM AttachOwnOnly == AttachSpec => OwnOnly
<1>1. AInv /\ AttachNext =>
        (h'.todo # h.todo =>
           /\ \A d \in Dev : k'.backend[d] # k.backend[d] /\ k'.backend[d] = Absent =>
                /\ k.backend[d] = h.rec.nonce \/ "backend" \in h.stale
                /\ ~InUse(k, d) \/ h.stale \cap {"map", "holder"} # {}
           /\ \A a \in Att : k'.map[a] # k.map[a] /\ k'.map[a] = NoMap =>
                Ours(a) \/ "map" \in h.stale
           /\ \A a \in Att : k'.mnt[a] # k.mnt[a] /\ k'.mnt[a] = "none" =>
                (k.mnt[a] \in {"lv", "wrong"} /\ Ours(a)) \/ h.stale \cap {"map", "mnt"} # {})
  BY StepTakes DEF TakesOwn, TakesBackend, TakesMap, TakesMount
<1> QED
  BY <1>1, AttachInvariant, PTL DEF AttachSpec, OwnOnly
=============================================================================
