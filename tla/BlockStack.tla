----------------------------- MODULE BlockStack -----------------------------
(***************************************************************************)
(* What the privileged helper sees of the kernel (maki-privileged          *)
(* detach.rs, recover.rs, lvm_preflight.rs, allocation.rs): network block  *)
(* devices with the identifier of their backend, those of them whose       *)
(* server is dead while the kernel is still connected (k.dead), the        *)
(* device-mapper mapping of each volume group name, what is mounted at     *)
(* each mountpoint, other users of a device, and the commands that outlive *)
(* their helper: k.late are those still running, k.loose all there were.   *)
(* Every operator reads a kernel state k and an attachment record r.       *)
(*                                                                         *)
(* Abstractions.  An attachment stands for one volume group name, logical  *)
(* volume name and mountpoint; a volume group has one mapping, on a whole  *)
(* device.  A mapping is "own" when its LVM identifiers are those that the *)
(* helper verified before it activated it.                                 *)
(***************************************************************************)
EXTENDS Integers, FiniteSets, FiniteSetsExt

CONSTANTS Att,  \* attachment identities (VG, LV and mountpoint)
          Dev   \* numbers of /dev/nbdN

Absent == 0    \* no backend is connected
Foreign == -1  \* a backend that the helper did not connect
NoMap == [dev |-> -1, own |-> FALSE]
Outside == -2  \* the device of a mapping that is on no nbd device

\* What is mounted: the logical volume at the mountpoint ("lv", or "wrong" if
\* its content came from a foreign backend), something else there, or the
\* logical volume at another path only.
MountState == {"none", "lv", "wrong", "other", "elsewhere"}

ASSUME StackAssumption == Dev \subseteq Nat /\ IsFiniteSet(Dev) /\ IsFiniteSet(Att)

Active(k, r) == k.map[r.att] # NoMap

Mounted(k, r) == k.mnt[r.att] \in {"lv", "wrong"}

UsedBy(k, d) == {a \in Att : k.map[a].dev = d}

InUse(k, d) == d \in k.holder \/ UsedBy(k, d) # {}

Clear(k, r) == ~Mounted(k, r) /\ ~Active(k, r) /\ ~InUse(k, r.dev)

\* nbd_backend_at: is the connection of the record there?
Connected(k, r) == k.backend[r.dev] = r.nonce

-----------------------------------------------------------------------------
(* Observations.  Each operator says whether the observation succeeds; what *)
(* it reports is Mounted, Active and InUse.                                *)

\* observe_kernel: the mapping is on the recorded device only, and nothing
\* else is mounted at the mountpoint.
Observable(k, r) ==
    /\ Active(k, r) => k.map[r.att].dev = r.dev
    /\ k.mnt[r.att] # "other"

\* inventory: every user of the device is a mapping of the recorded group.
OnlyUser(k, r) == r.dev \notin k.holder /\ UsedBy(k, r.dev) \subseteq {r.att}

\* check_mounts
NotElsewhere(k, r) == k.mnt[r.att] # "elsewhere"

\* verify_recovery_devices: Linux resets the size of a device that lost its
\* backend and its last user.
GeometryReset(k, r) == k.backend[r.dev] = Absent /\ ~InUse(k, r.dev)

\* verify_mappings, without requiring the target
Verified(k, r) == Active(k, r) => k.map[r.att].own

\* capture, before the mount
Capturable(k, r) ==
    /\ Observable(k, r) /\ ~Mounted(k, r) /\ Active(k, r)
    /\ OnlyUser(k, r) /\ NotElsewhere(k, r)

\* Mutant: the size of a disconnected device must be the recorded one.
RecoverableSized(k, r, disconnected) ==
    /\ Observable(k, r) /\ OnlyUser(k, r) /\ NotElsewhere(k, r)
    /\ IF r.proof # NoMap THEN Active(k, r) => k.map[r.att] = r.proof
       ELSE ~Mounted(k, r) /\ ~GeometryReset(k, r) /\ Verified(k, r)

\* observe_with_empty_reset, for a record with a proof, with an intent, and
\* for one of neither.
Recoverable(k, r, disconnected) ==
    /\ Observable(k, r)
    /\ IF r.proof # NoMap
       THEN /\ OnlyUser(k, r) /\ NotElsewhere(k, r)
            /\ Active(k, r) => k.map[r.att] = r.proof
       ELSE IF r.intent
       THEN /\ ~Mounted(k, r)
            /\ GeometryReset(k, r) => disconnected
            /\ Verified(k, r)
            /\ ~Active(k, r) => ~InUse(k, r.dev)
            /\ OnlyUser(k, r) /\ NotElsewhere(k, r)
       ELSE Clear(k, r)

\* The observation verify_detach_state makes.
Detachable(k, r) ==
    IF r.intent \/ r.proof # NoMap THEN Recoverable(k, r, FALSE) ELSE Observable(k, r)

\* observe_complete
Complete(k, r) ==
    /\ r.proof # NoMap /\ Recoverable(k, r, FALSE)
    /\ Mounted(k, r) /\ k.map[r.att] = r.proof

\* ensure_inactive
Inactive(k, r) == Observable(k, r) /\ Clear(k, r)

\* discover_at: the device has a size and no users.
Discovered(k, r) == k.backend[r.dev] # Absent /\ ~InUse(k, r.dev)

\* A server answers what is read through the device.
Served(k, d) == k.backend[d] # Absent /\ d \notin k.dead

\* read_labels and validate: only the volume's own daemon serves the labels
\* and the metadata that were pinned.
Labelled(k, r) == Connected(k, r) /\ Served(k, r.dev)
Readable(k, r) == Connected(k, r) /\ Served(k, r.dev)

\* The physical volume below the mapping cannot be read: vgchange may fail.
PvLost(k, r) == k.map[r.att].dev \in Dev /\ ~Served(k, k.map[r.att].dev)

\* sysfs_leaf_devices: the mounted filesystem is on the recorded device.
Backed(k, r) == k.map[r.att].dev = r.dev

\* The mounted filesystem is that of the volume.
Genuine(k, r) == k.mnt[r.att] = "lv"

\* choose: the lowest device without a connection and without users
FreeDevices(k) == {d \in Dev : k.backend[d] = Absent /\ ~InUse(k, d)}

Allocated(k) == Min(FreeDevices(k))

-----------------------------------------------------------------------------
(* The commands run_step starts, by the state they leave; each fails, and  *)
(* leaves the state alone, where its operand is not there.                 *)

Opened(k, a) == k.mnt[a] \in {"lv", "wrong", "elsewhere"}

\* A new connection has a live server, and none has a dead one.
SetBackend(k, d, x) == [k EXCEPT !.backend[d] = x, !.dead = @ \ {d}]

NbdConnect(k, r) ==
    IF k.backend[r.dev] = Absent THEN SetBackend(k, r.dev, r.nonce) ELSE k

NbdDisconnect(k, r) == SetBackend(k, r.dev, Absent)

\* The scoped vgchange of activate, and the one of deactivate.
Activate(k, r) ==
    IF Connected(k, r) /\ Served(k, r.dev) /\ ~Active(k, r)
    THEN [k EXCEPT !.map[r.att] = [dev |-> r.dev, own |-> TRUE]] ELSE k

DeactivateScoped(k, r) ==
    IF ~Opened(k, r.att) /\ k.map[r.att] = [dev |-> r.dev, own |-> TRUE]
    THEN [k EXCEPT !.map[r.att] = NoMap] ELSE k

\* vgchange -an and dmsetup remove go by the name.
Deactivate(k, r) == IF ~Opened(k, r.att) THEN [k EXCEPT !.map[r.att] = NoMap] ELSE k

MountXfs(k, r) ==
    IF Active(k, r) /\ k.mnt[r.att] = "none" /\ k.map[r.att].dev \in Dev
       /\ Served(k, k.map[r.att].dev)
    THEN [k EXCEPT !.mnt[r.att] = IF Connected(k, r) /\ Backed(k, r) THEN "lv" ELSE "wrong"] ELSE k

Umount(k, r) ==
    IF Mounted(k, r) \/ k.mnt[r.att] = "other" THEN [k EXCEPT !.mnt[r.att] = "none"] ELSE k
=============================================================================
