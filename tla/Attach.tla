------------------------------- MODULE Attach -------------------------------
(***************************************************************************)
(* The privileged attach helper (maki-privileged exec.rs, recover.rs,      *)
(* workload_verify.rs, state.rs, plan.rs and the maki-attach command):     *)
(* attach, detach, recover, cleanup, grow and verify, one helper at a time *)
(* under the attach lock, over a kernel that other root processes and      *)
(* dying daemons change between any two of its calls.                      *)
(*                                                                         *)
(* h.todo lists the calls the running verb has still to make.  Each call   *)
(* is one step: an observation, a command, or a write of the trusted       *)
(* record.  Any call may fail, and a failed command or write may have had  *)
(* its effect.  A command has a process group of its own: when the helper  *)
(* is killed, or gives up waiting, it may go on and end at any time later. *)
(***************************************************************************)
EXTENDS BlockStack, Sequences

CONSTANTS
    Vol,        \* volumes
    Pinned,     \* the device each volume's configuration names, or AutoDevice
    FsPinned,   \* whether its configuration names the UUID of the filesystem
    MaxConn,    \* bound on attaches, which use a nonce each
    MaxEnv,     \* bound on what others change
    MaxFaults   \* bound on failed calls and killed helpers

AutoDevice == -1

ASSUME AttachAssumption ==
    /\ Pinned \in [Vol -> Dev \cup {AutoDevice}] /\ FsPinned \in [Vol -> BOOLEAN]
    /\ MaxConn \in Nat /\ MaxEnv \in Nat /\ MaxFaults \in Nat

VARIABLES
    k,       \* the kernel
    rec,     \* the trusted record of each volume in /run/maki-attach
    h,       \* the helper that holds the attach lock
    nonce,   \* the connection identifiers used so far
    env,     \* changes by others so far
    faults   \* faults so far

attachVars == <<k, rec, h, nonce, env, faults>>

NoRecord == [nonce |-> 0]
Idle == [todo |-> << >>]

TrustedRecord == [nonce : 1..MaxConn, dev : Dev, att : Att, intent : BOOLEAN,
                  proof : {NoMap} \cup [dev : Dev, own : BOOLEAN]]

\* The commands that change the kernel, and what each of them changes.
Command == {"connect", "vgchange", "mount", "umount", "off", "vgoff", "dmremove", "disconnect"}
Builds == {"connect", "vgchange", "mount"}
LateCommand == [call : Command, rec : TrustedRecord, killed : BOOLEAN]

Kind(call) == CASE call \in {"connect", "disconnect"} -> "backend"
                [] call \in {"mount", "umount"}       -> "mnt"
                [] OTHER                              -> "map"

AttachTypeOK ==
    /\ k \in [backend : [Dev -> {Absent, Foreign} \cup 1..MaxConn],
              map : [Att -> {NoMap} \cup [dev : Dev \cup {Outside}, own : BOOLEAN]],
              mnt : [Att -> MountState], holder : SUBSET Dev, dead : SUBSET Dev,
              late : SUBSET LateCommand, loose : SUBSET LateCommand]
    /\ rec \in [Vol -> {NoRecord} \cup TrustedRecord]
    /\ nonce \in 0..MaxConn /\ env \in 0..MaxEnv /\ faults \in 0..MaxFaults

-----------------------------------------------------------------------------
(* The verbs, as the calls they make.                                      *)

\* verify_live_attachment
LiveAttachment == <<"backend", "live">>

\* Mutant: the record is written when the device is connected.
AttachLateCalls ==
    <<"prior", "priorClear", "allocate", "free", "before", "connect", "publish", "nonce", "bsize",
      "nonce", "preflight", "nonce", "intend", "nonce",
      "preflight", "inactive", "nonce", "vgchange",
      "nonce", "mapped", "capture", "nonce", "prove",
      "nonce", "unmounted", "nonce", "blkid", "nonce", "unmounted", "nonce",
      "nonce", "unmounted", "nonce", "mount", "device", "writeSentinel", "identity", "done">>

\* plan_attach, with the checks that execute_with_options adds; "nonce",
\* "unmounted", "nonce" is verify_mount_target.
AttachCalls ==
    <<"prior", "priorClear", "allocate", "free", "before", "publish",
      "connect", "nonce", "bsize",
      "nonce", "preflight", "nonce", "intend", "nonce",
      "preflight", "inactive", "nonce", "vgchange",
      "nonce", "mapped", "capture", "nonce", "prove",
      "nonce", "unmounted", "nonce", "blkid", "nonce", "unmounted", "nonce",
      "nonce", "unmounted", "nonce", "mount", "device", "writeSentinel", "identity", "done">>

Rollback == <<"rbObserve", "rbIdentity", "rbBackend">>

\* A detach checks the whole state first and again before each of its steps.
DetachCalls ==
    <<"record", "backend", "state", "backend", "needUmount",
      "backend", "needDeactivate", "backend", "needDisconnect", "retire", "done">>

RecoverCalls == <<"record", "absent", "disconnected", "absent", "decide">>
RecoverLoop == Tail(RecoverCalls)

CleanupCalls == <<"anyRecord", "which">>

GrowCalls ==
    <<"record">> \o LiveAttachment \o LiveAttachment \o <<"size">>
    \o LiveAttachment \o <<"growfs", "done">>

\* "nonce", "complete", "nonce" is live_mount.
VerifyCalls ==
    <<"record", "proved", "nonce", "complete", "nonce", "probe",
      "nonce", "complete", "nonce", "sentinel", "nonce", "complete", "nonce", "done">>

Calls(verb) ==
    CASE verb = "attach"  -> AttachCalls
      [] verb = "detach"  -> DetachCalls
      [] verb = "recover" -> RecoverCalls
      [] verb = "cleanup" -> CleanupCalls
      [] verb = "grow"    -> GrowCalls
      [] verb = "verify"  -> VerifyCalls

Verb == {"attach", "detach", "recover", "cleanup", "grow", "verify"}

-----------------------------------------------------------------------------
(* How a call ends.                                                        *)

At(call) == h.todo # << >> /\ Head(h.todo) = call

\* The whole stack of the record is up.
Whole(ker, r) ==
    Connected(ker, r) /\ Mounted(ker, r) /\ ker.map[r.att] = [dev |-> r.dev, own |-> TRUE]

\* The calls that are left; `whole' notes that the stack was seen complete.
After(ker, calls, g) == [g EXCEPT !.todo = calls,
                                  !.whole = @ \/ (g.rec # NoRecord /\ Whole(ker, g.rec))]
To(calls, g) == After(k, calls, g)
On(g) == To(Tail(h.todo), g)

\* A failed attach that has published its record rolls back, once.
Failed == IF h.made /\ ~h.back THEN [h EXCEPT !.todo = Rollback, !.back = TRUE] ELSE Idle

\* What a helper has looked at is not stale until others change it again.
Seen(kinds) == [h EXCEPT !.stale = @ \ kinds]

\* A call that looks at the backend, and one that looks at what is above it.
Ask(call, good) ==
    /\ At(call)
    /\ h' = IF good THEN On(Seen({"backend"})) ELSE Failed
    /\ UNCHANGED <<k, rec, nonce, env, faults>>

Look(call, good) ==
    /\ At(call)
    /\ h' = IF good THEN On(Seen({"map", "mnt", "holder"})) ELSE Failed
    /\ UNCHANGED <<k, rec, nonce, env, faults>>

\* The command of the moment goes on without the helper, which was killed or
\* has given it up.
LeftRunning(killed) ==
    LET c == [call |-> Head(h.todo), rec |-> h.rec, killed |-> killed]
    IN  [k EXCEPT !.late = @ \cup {c},
                  !.loose = IF c.call \in Builds THEN @ \cup {c} ELSE @]

\* run: the command reports success only after its effect; a failure may have
\* had it, and one that exceeds its deadline is killed, but a task that does
\* not die is left behind.
Run(call, effect) ==
    /\ At(call)
    /\ \/ effect # k /\ k' = effect /\ h' = After(effect, Tail(h.todo), h) /\ UNCHANGED faults
       \/ effect = k /\ UNCHANGED <<k, faults>> /\ h' = Failed
       \/ /\ faults < MaxFaults /\ faults' = faults + 1 /\ h' = Failed
          /\ (effect # k /\ k' = effect) \/ k' = LeftRunning(FALSE)
    /\ UNCHANGED <<rec, nonce, env>>

\* vgchange cannot read the physical volume.
VgUnreadable(call) ==
    /\ At(call) /\ PvLost(k, h.rec)
    /\ h' = Failed
    /\ UNCHANGED <<k, rec, nonce, env, faults>>

\* TrustedState::write: a rename, so a failed write leaves the old or the new.
Write(call, r, g) ==
    /\ At(call)
    /\ \/ rec' = [rec EXCEPT ![h.vol] = r] /\ h' = On(g) /\ UNCHANGED faults
       \/ rec' = [rec EXCEPT ![h.vol] = r] /\ faults < MaxFaults
          /\ faults' = faults + 1 /\ h' = Failed
    /\ UNCHANGED <<k, nonce, env>>

\* Any call may fail before it does anything: a read, a probe, a command.
CallFails ==
    /\ h.todo \notin {<< >>, <<"done">>} /\ faults < MaxFaults
    /\ faults' = faults + 1
    /\ h' = Failed
    /\ UNCHANGED <<k, rec, nonce, env>>

\* The attach lock goes with the helper, the command it waits for does not.
Killed ==
    /\ h.todo # << >> /\ faults < MaxFaults
    /\ faults' = faults + 1
    /\ h' = Idle
    /\ UNCHANGED k \/ (Head(h.todo) \in Command /\ k' = LeftRunning(TRUE))
    /\ UNCHANGED <<rec, nonce, env>>

-----------------------------------------------------------------------------
(* Starting and ending.                                                    *)

AttachInit ==
    /\ k = [backend |-> [d \in Dev |-> Absent], map |-> [a \in Att |-> NoMap],
            mnt |-> [a \in Att |-> "none"], holder |-> {}, dead |-> {}, late |-> {}, loose |-> {}]
    /\ rec = [v \in Vol |-> NoRecord]
    /\ h = Idle
    /\ nonce = 0 /\ env = 0 /\ faults = 0

\* lock_attach, under the configuration of the moment.
Start(verb, v, a) ==
    /\ h = Idle
    /\ verb = "attach" => nonce < MaxConn
    /\ h' = [todo |-> Calls(verb), vol |-> v, att |-> a, rec |-> NoRecord, verb |-> verb,
             conn |-> FALSE, obs |-> "clear", tried |-> FALSE, made |-> FALSE, back |-> FALSE,
             whole |-> FALSE, stale |-> {}]
    /\ UNCHANGED <<k, rec, nonce, env, faults>>

Done == At("done") /\ h' = Idle /\ UNCHANGED <<k, rec, nonce, env, faults>>

\* state.read, and the comparison with the configuration.
ReadRecord ==
    /\ At("record")
    /\ h' = IF rec[h.vol] # NoRecord /\ rec[h.vol].att = h.att
            THEN On([h EXCEPT !.rec = rec[h.vol]]) ELSE Failed
    /\ UNCHANGED <<k, rec, nonce, env, faults>>

\* TrustedState::remove
Retire(call) == Write(call, NoRecord, h)

\* verify_connection
VerifyConnection == Ask("nonce", Connected(k, h.rec))

-----------------------------------------------------------------------------
(* Attach.                                                                 *)

Prior == Ask("prior", rec[h.vol] # NoRecord => k.backend[rec[h.vol].dev] = Absent)

PriorClear ==
    Look("priorClear", rec[h.vol] # NoRecord =>
                         Observable(k, rec[h.vol]) /\ Clear(k, rec[h.vol]))

\* allocate, or the pinned device; the new record and its nonce.
Allocate ==
    /\ At("allocate")
    /\ Pinned[h.vol] = AutoDevice => FreeDevices(k) # {}
    /\ LET d == IF Pinned[h.vol] = AutoDevice THEN Allocated(k) ELSE Pinned[h.vol]
           r == [nonce |-> nonce + 1, dev |-> d, att |-> h.att, intent |-> FALSE, proof |-> NoMap]
       IN  h' = On([h EXCEPT !.rec = r])
    /\ nonce' = nonce + 1
    /\ UNCHANGED <<k, rec, env, faults>>

NoDevice ==
    /\ At("allocate") /\ Pinned[h.vol] = AutoDevice /\ FreeDevices(k) = {}
    /\ h' = Idle
    /\ UNCHANGED <<k, rec, nonce, env, faults>>

DeviceFree == Ask("free", k.backend[h.rec.dev] = Absent)

Before == Look("before", Inactive(k, h.rec))

Publish == Write("publish", h.rec, [h EXCEPT !.made = TRUE])

Connect == Run("connect", NbdConnect(k, h.rec))

SetBlockSize == Ask("bsize", TRUE)

Preflight == 
    Look("preflight", Discovered(k, h.rec) /\ Inactive(k, h.rec)
                      /\ Labelled(k, h.rec) /\ Readable(k, h.rec))

EnsureInactive == Look("inactive", Discovered(k, h.rec) /\ Inactive(k, h.rec))

Intend == LET r == [h.rec EXCEPT !.intent = TRUE] IN Write("intend", r, [h EXCEPT !.rec = r])

\* vgchange of activate; from here on a rollback may take the mapping down.
VgChange ==
    /\ At("vgchange")
    /\ LET g == [h EXCEPT !.tried = TRUE]
           up == Activate(k, h.rec)
       IN  \/ up # k /\ k' = up /\ h' = After(up, Tail(h.todo), g) /\ UNCHANGED faults
           \/ /\ faults < MaxFaults /\ faults' = faults + 1
              /\ h' = [g EXCEPT !.todo = Rollback, !.back = TRUE]
              /\ (up # k /\ k' = up) \/ k' = LeftRunning(FALSE)
           \/ up = k /\ h' = [g EXCEPT !.todo = Rollback, !.back = TRUE] /\ UNCHANGED <<k, faults>>
    /\ UNCHANGED <<rec, nonce, env>>

\* verify_activated_lvm
Mapped == Look("mapped", Active(k, h.rec) /\ Verified(k, h.rec))

\* recovery_proof
Capture ==
    /\ At("capture")
    /\ h' = IF Capturable(k, h.rec)
            THEN On([Seen({"map", "mnt", "holder"})
                        EXCEPT !.rec.proof = k.map[h.att], !.rec.intent = FALSE])
            ELSE Failed
    /\ UNCHANGED <<k, rec, nonce, env, faults>>

Prove == Write("prove", h.rec, h)

\* The observation of verify_mount_target
Unmounted == Look("unmounted", Recoverable(k, h.rec, FALSE) /\ ~Mounted(k, h.rec) /\ Active(k, h.rec))

\* VerifyFilesystemIdentity: the type, and the UUID if one is configured.
Blkid ==
    Ask("blkid", Served(k, h.rec.dev) /\ (FsPinned[h.vol] => Connected(k, h.rec)))

Mount == Run("mount", MountXfs(k, h.rec))

\* VerifyMountDevice
MountDevice == Look("device", Mounted(k, h.rec) /\ Backed(k, h.rec))

\* write_sentinel, if the configuration asks for it: it creates the sentinel
\* on whatever is mounted and refuses only another one that is there.
WriteSentinel ==
    /\ At("writeSentinel")
    /\ h' \in {On(h), Failed}
    /\ UNCHANGED <<k, rec, nonce, env, faults>>

\* Mutant: a filesystem of another UUID will do.
MountIdentityAny ==
    \E sentinel \in BOOLEAN :
        Look("identity", /\ Mounted(k, h.rec) /\ Backed(k, h.rec) /\ Served(k, h.rec.dev)
                         /\ sentinel)

\* VerifyMountIdentity: blkid reads the UUID from the device, by what it
\* answers now or by what is cached of the mounted filesystem; any filesystem
\* may have the sentinel, and the volume's own may have lost it.
MountIdentity ==
    \E sentinel \in BOOLEAN :
        Look("identity", /\ Mounted(k, h.rec) /\ Backed(k, h.rec) /\ Served(k, h.rec.dev)
                         /\ FsPinned[h.vol] => Genuine(k, h.rec) \/ Connected(k, h.rec)
                         /\ sentinel)

-----------------------------------------------------------------------------
(* The rollback of a failed attach: observe, check, take one layer down,   *)
(* and again.                                                              *)

TopLayer == CASE Mounted(k, h.rec)         -> "mounted"
              [] ~Mounted(k, h.rec) /\ Active(k, h.rec) -> "active"
              [] ~Mounted(k, h.rec) /\ ~Active(k, h.rec) /\ InUse(k, h.rec.dev) -> "used"
              [] OTHER                     -> "clear"

Observed(call, good) ==
    /\ At(call)
    /\ h' = IF good THEN On([Seen({"map", "mnt", "holder"}) EXCEPT !.obs = TopLayer]) ELSE Failed
    /\ UNCHANGED <<k, rec, nonce, env, faults>>

RbObserve == Observed("rbObserve", Observable(k, h.rec))

RbIdentity ==
    /\ At("rbIdentity")
    /\ h' = IF h.obs \in {"mounted", "active"} => h.tried /\ Verified(k, h.rec) THEN On(h) ELSE Failed
    /\ UNCHANGED <<k, rec, nonce, env, faults>>

\* Mutant: rollback goes on whatever backend the device has.
RbBackendAny ==
    /\ At("rbBackend")
    /\ h' = CASE h.obs = "mounted" -> To(<<"umount">> \o Rollback, h)
              [] h.obs = "active"  -> To(<<"nonce", "off">> \o Rollback, h)
              [] h.obs = "clear"   -> To(<<"disconnect", "gone", "rbRetire">>, h)
              [] OTHER -> Failed
    /\ UNCHANGED <<k, rec, nonce, env, faults>>

RbBackend ==
    /\ At("rbBackend")
    /\ h' = LET g == Seen({"backend"})
            IN  CASE Connected(k, h.rec) /\ h.obs = "mounted" -> To(<<"umount">> \o Rollback, g)
                  [] Connected(k, h.rec) /\ h.obs = "active"  -> To(<<"nonce", "off">> \o Rollback, g)
                  [] Connected(k, h.rec) /\ h.obs = "clear"   -> To(<<"disconnect", "gone", "rbRetire">>, g)
                  [] k.backend[h.rec.dev] = Absent /\ h.obs = "clear" -> To(<<"gone", "rbRetire">>, g)
                  [] OTHER -> Failed
    /\ UNCHANGED <<k, rec, nonce, env, faults>>

\* The record goes only when the device has no backend any more.
RbGone == Ask("gone", k.backend[h.rec.dev] = Absent)

RbRetire ==
    /\ At("rbRetire")
    /\ rec' = [rec EXCEPT ![h.vol] = NoRecord]
    /\ h' = Idle
    /\ UNCHANGED <<k, nonce, env, faults>>

RunUmount == Run("umount", Umount(k, h.rec))
RunOff == Run("off", DeactivateScoped(k, h.rec)) \/ VgUnreadable("off")
RunDisconnect == Run("disconnect", NbdDisconnect(k, h.rec))

-----------------------------------------------------------------------------
(* Detach.  verify_detach_state asks for the backend and observes; it fails *)
(* on a foreign backend, and on an absent one with anything left above it. *)

AskBackend ==
    /\ At("backend")
    /\ h' = IF k.backend[h.rec.dev] \in {Absent, h.rec.nonce}
            THEN On([Seen({"backend"}) EXCEPT !.conn = Connected(k, h.rec)]) ELSE Failed
    /\ UNCHANGED <<k, rec, nonce, env, faults>>

DetachState == Detachable(k, h.rec) /\ (h.conn \/ Clear(k, h.rec))

State == Look("state", DetachState)

\* detach_step_needed: a step is made, skipped, or refused.
Needed(call, good, needed, calls) ==
    /\ At(call)
    /\ h' = IF DetachState /\ good
            THEN To((IF needed THEN calls ELSE << >>) \o Tail(h.todo), Seen({"map", "mnt", "holder"}))
            ELSE Failed
    /\ UNCHANGED <<k, rec, nonce, env, faults>>

NeedUmount == Needed("needUmount", TRUE, Mounted(k, h.rec), <<"umount">>)

NeedDeactivate ==
    Needed("needDeactivate", ~Mounted(k, h.rec), Active(k, h.rec),
           IF h.rec.intent THEN <<"nonce", "intended", "nonce", "off">> ELSE <<"vgoff">>)

NeedDisconnect ==
    Needed("needDisconnect", Clear(k, h.rec), h.conn, <<"nonce", "disconnect">>)

\* The checks before a deactivation that only an intent authorizes.
Intended ==
    Look("intended", Recoverable(k, h.rec, FALSE) /\ ~Mounted(k, h.rec)
                     /\ Active(k, h.rec) /\ Verified(k, h.rec))

RunVgOff == Run("vgoff", Deactivate(k, h.rec))

\* vgchange exits with an error, as it may where it cannot read the physical
\* volume: a cleanup of a connected record then removes the mapping that its
\* proof names, every other verb gives up.
VgOffFails ==
    /\ At("vgoff")
    /\ \/ PvLost(k, h.rec) /\ UNCHANGED <<k, faults>>
       \/ /\ faults < MaxFaults /\ faults' = faults + 1
          /\ k' \in {k, Deactivate(k, h.rec)}
    /\ h' = IF h.verb = "cleanup" /\ h.conn /\ h.rec.proof # NoMap
            THEN To(<<"nonce", "force", "nonce", "force", "dmremove", "nonce", "forced">> \o Tail(h.todo), h)
            ELSE Failed
    /\ UNCHANGED <<rec, nonce, env>>

\* force_deactivation_target_at: the mapping that may be removed directly, if
\* it is still there.
ForceTarget ==
    /\ At("force")
    /\ LET r == h.rec
           good == Recoverable(k, r, FALSE) /\ ~Mounted(k, r) /\ (Active(k, r) \/ ~InUse(k, r.dev))
           first == Len(SelectSeq(h.todo, LAMBDA c : c = "force")) = 2
           rest == SubSeq(h.todo, 1 + CHOOSE i \in DOMAIN h.todo : h.todo[i] = "forced", Len(h.todo))
       IN  h' = CASE good /\ Active(k, r)           -> On(Seen({"map", "mnt", "holder"}))
                  [] good /\ ~Active(k, r) /\ first -> To(rest, Seen({"map", "mnt", "holder"}))
                  [] OTHER                          -> Failed
    /\ UNCHANGED <<k, rec, nonce, env, faults>>

DmRemove == Run("dmremove", Deactivate(k, h.rec))

Forced == Look("forced", Recoverable(k, h.rec, FALSE) /\ Clear(k, h.rec))

-----------------------------------------------------------------------------
(* Recovery of a disconnected attachment, and cleanup.                     *)

AbsentBackend == Ask("absent", k.backend[h.rec.dev] = Absent)

Disconnected == Observed("disconnected", Recoverable(k, h.rec, TRUE))

Decide ==
    /\ At("decide")
    /\ h' = CASE h.obs = "mounted" -> To(<<"umount">> \o RecoverLoop, h)
              [] h.obs = "active" /\ h.rec.intent ->
                   To(<<"recIntended", "absent", "off">> \o RecoverLoop, h)
              [] h.obs = "active" /\ ~h.rec.intent -> To(<<"vgoff">> \o RecoverLoop, h)
              [] h.obs = "clear" -> To(<<"confirm", "absent", "retire", "done">>, h)
              [] OTHER -> Failed
    /\ UNCHANGED <<k, rec, nonce, env, faults>>

\* deactivate_recovery
RecIntended == Look("recIntended", ~GeometryReset(k, h.rec) /\ Verified(k, h.rec))

Confirm == Look("confirm", Recoverable(k, h.rec, TRUE) /\ Clear(k, h.rec))

AnyRecord ==
    /\ At("anyRecord")
    /\ h' = IF rec[h.vol] = NoRecord THEN To(<<"done">>, h) ELSE On([h EXCEPT !.rec = rec[h.vol]])
    /\ UNCHANGED <<k, rec, nonce, env, faults>>

Which ==
    /\ At("which")
    /\ h' = CASE Connected(k, h.rec) -> To(DetachCalls, Seen({"backend"}))
              [] k.backend[h.rec.dev] = Absent -> To(RecoverCalls, Seen({"backend"}))
              [] OTHER -> Failed
    /\ UNCHANGED <<k, rec, nonce, env, faults>>

-----------------------------------------------------------------------------
(* Grow and verify.                                                        *)

Live == Look("live", DetachState /\ h.conn /\ Mounted(k, h.rec) /\ Active(k, h.rec))

\* lv_size: a volume that has the size already is not extended again.
LvSize ==
    /\ At("size")
    /\ \E calls \in {<< >>, LiveAttachment \o <<"extend">>} : h' = To(calls \o Tail(h.todo), h)
    /\ UNCHANGED <<k, rec, nonce, env, faults>>

LvExtend == Ask("extend", Active(k, h.rec))
XfsGrowfs == Ask("growfs", Mounted(k, h.rec))

\* verify_request refuses a configuration without fs_uuid.
Proved == Ask("proved", FsPinned[h.vol] /\ h.rec.proof # NoMap)

MountComplete == Look("complete", Complete(k, h.rec))

FsProbe == Ask("probe", Connected(k, h.rec) /\ Served(k, h.rec.dev))

\* read_mounted_sentinel, and it matches or not; what was seen before does not
\* count as seen after.
Sentinel ==
    /\ At("sentinel")
    /\ \/ Mounted(k, h.rec) /\ h' = [h EXCEPT !.todo = Tail(@), !.whole = FALSE]
       \/ h' = Failed
    /\ UNCHANGED <<k, rec, nonce, env, faults>>

-----------------------------------------------------------------------------
(* Commands without their helper, and everybody else on the host.          *)

Stale(kind) == h' = IF h = Idle THEN h ELSE [h EXCEPT !.stale = @ \cup {kind}]

Others(kind, ker) ==
    /\ ker # k /\ k' = ker /\ Stale(kind)
    /\ UNCHANGED <<rec, nonce, faults>>

Effect(ker, c) ==
    CASE c.call = "connect"  -> NbdConnect(ker, c.rec)
      [] c.call = "vgchange" -> Activate(ker, c.rec)
      [] c.call = "mount"    -> MountXfs(ker, c.rec)
      [] c.call = "umount"   -> Umount(ker, c.rec)
      [] c.call = "off"      -> DeactivateScoped(ker, c.rec)
      [] c.call \in {"vgoff", "dmremove"} -> Deactivate(ker, c.rec)
      [] c.call = "disconnect" -> NbdDisconnect(ker, c.rec)

\* A command that outlived its helper ends, with its effect or without.
LateEnds ==
    \E c \in k.late :
        /\ \/ k' = [k EXCEPT !.late = @ \ {c}] /\ UNCHANGED h
           \/ k' = [Effect(k, c) EXCEPT !.late = @ \ {c}] /\ Stale(Kind(c.call))
        /\ UNCHANGED <<rec, nonce, env, faults>>

\* A daemon is disconnected; a foreign one is connected.
BackendChanges ==
    \E d \in Dev : Others("backend", SetBackend(k, d, IF k.backend[d] = Absent THEN Foreign ELSE Absent))

\* A daemon dies and the kernel stays connected.
ServerDies ==
    \E d \in Dev : /\ Served(k, d) /\ k' = [k EXCEPT !.dead = @ \cup {d}]
                   /\ UNCHANGED <<rec, h, nonce, faults>>

\* Another volume group of the same name, or the mapping is taken down.
MappingChanges ==
    \E a \in Att :
        \/ /\ k.map[a] = NoMap
           /\ \E d \in {Outside} \cup {x \in Dev : k.backend[x] = Foreign} :
                Others("map", [k EXCEPT !.map[a] = [dev |-> d, own |-> FALSE]])
        \/ ~Opened(k, a) /\ Others("map", [k EXCEPT !.map[a] = NoMap])

MountChanges ==
    \E a \in Att, m \in {"none", "other", "elsewhere"} :
        /\ m # "none" => k.mnt[a] = "none"
        /\ m = "elsewhere" => k.map[a] # NoMap
        /\ Others("mnt", [k EXCEPT !.mnt[a] = m])

HolderChanges ==
    \E d \in Dev : k.backend[d] # Absent /\ Others("holder", [k EXCEPT !.holder = @ \cup {d}])

Elsewhere ==
    /\ env < MaxEnv /\ env' = env + 1
    /\ BackendChanges \/ ServerDies \/ MappingChanges \/ MountChanges \/ HolderChanges

\* Others give back what is theirs.
OthersLeave ==
    /\ UNCHANGED env
    /\ \/ \E d \in Dev : k.backend[d] = Foreign /\ Others("backend", SetBackend(k, d, Absent))
       \/ \E a \in Att : ~k.map[a].own /\ ~Opened(k, a)
                         /\ Others("map", [k EXCEPT !.map[a] = NoMap])
       \/ \E a \in Att : k.mnt[a] \in {"other", "elsewhere"} /\ Others("mnt", [k EXCEPT !.mnt[a] = "none"])
       \/ \E d \in k.holder : Others("holder", [k EXCEPT !.holder = @ \ {d}])

-----------------------------------------------------------------------------
AttachStep ==
    \/ Prior \/ PriorClear \/ Allocate \/ NoDevice \/ DeviceFree \/ Before \/ Publish \/ Connect
    \/ SetBlockSize \/ Preflight \/ EnsureInactive \/ Intend \/ VgChange \/ Mapped \/ Capture
    \/ Prove \/ Unmounted \/ Blkid \/ Mount \/ MountDevice \/ WriteSentinel \/ MountIdentity
    \/ RbObserve \/ RbIdentity \/ RbBackend \/ RbGone \/ RbRetire

TeardownStep ==
    \/ RunUmount \/ RunOff \/ RunDisconnect \/ RunVgOff \/ VgOffFails
    \/ AskBackend \/ State \/ NeedUmount \/ NeedDeactivate \/ NeedDisconnect \/ Intended
    \/ ForceTarget \/ DmRemove \/ Forced
    \/ AbsentBackend \/ Disconnected \/ Decide \/ RecIntended \/ Confirm \/ Retire("retire")
    \/ AnyRecord \/ Which

HelperStep ==
    \/ AttachStep \/ TeardownStep \/ ReadRecord \/ VerifyConnection \/ Done
    \/ Live \/ LvSize \/ LvExtend \/ XfsGrowfs
    \/ Proved \/ MountComplete \/ FsProbe \/ Sentinel

AttachNext ==
    \/ \E verb \in Verb, v \in Vol, a \in Att : Start(verb, v, a)
    \/ HelperStep \/ CallFails \/ Killed \/ LateEnds
    \/ Elsewhere \/ OthersLeave

\* A started helper runs on, a command ends, others leave in the end, and the
\* operator runs cleanup for a volume again and again.
AttachFairness ==
    /\ WF_attachVars(HelperStep) /\ WF_attachVars(LateEnds) /\ WF_attachVars(OthersLeave)
    /\ \A v \in Vol : SF_attachVars(\E a \in Att : rec[v] # NoRecord /\ rec[v].att = a
                                                  /\ Start("cleanup", v, a))

AttachSpec == AttachInit /\ [][AttachNext]_attachVars /\ AttachFairness

-----------------------------------------------------------------------------
(* Properties.                                                             *)

\* A command of this kind outlived its helper: connecting this connection,
\* activating this mapping, or mounting at this mountpoint.
StrayConnect(ker, n) == \E c \in ker.loose : c.call = "connect" /\ c.rec.nonce = n
StrayMap(ker, a, d) == \E c \in ker.loose : c.call = "vgchange" /\ c.rec.att = a /\ c.rec.dev = d
StrayMount(ker, a) == \E c \in ker.loose : c.call = "mount" /\ c.rec.att = a

Recorded(d) == \E v \in Vol : rec[v] # NoRecord /\ rec[v].nonce = k.backend[d] /\ rec[v].dev = d

\* Every connection the helper made, and every mapping it activated, has a
\* trusted record that names it and, for a mapping, the identity under which
\* it may be taken down, whatever failed on the way: unless the very command
\* that made it was still running when its helper was killed or gave it up.
NoOrphan ==
    /\ AttachTypeOK
    /\ \A d \in Dev : k.backend[d] > 0 => Recorded(d) \/ StrayConnect(k, k.backend[d])
    /\ \A a \in Att : k.map[a].own =>
         \/ \E v \in Vol : /\ rec[v] # NoRecord /\ rec[v].att = a /\ rec[v].dev = k.map[a].dev
                           /\ rec[v].intent \/ rec[v].proof = k.map[a]
         \/ StrayMap(k, a, k.map[a].dev)

\* What the comment above the write of the record promises (exec.rs): process
\* death cannot leave an unrecorded connection.  It does not hold (README 4).
DeathLeavesRecord ==
    \A c \in k.loose : c.call = "connect" /\ c.killed /\ Connected(k, c.rec) => Recorded(c.rec.dev)

\* The mapping that a teardown may touch: the one that was verified, and for
\* a detach of a record that was published before the verification, the one of
\* that name on the recorded device.
Ours(a) ==
    /\ a = h.rec.att /\ k.map[a].dev = h.rec.dev
    /\ k.map[a].own \/ (h.verb # "attach" /\ ~h.rec.intent /\ h.rec.proof = NoMap)

\* The helper takes down only what its record names, and disconnects no device
\* below a mapping or another user.  (The kernel offers no check and teardown
\* in one: what others, or commands left running, changed after the last look
\* that succeeded is excepted.)
OwnOnly ==
    [][h'.todo # h.todo =>
         /\ \A d \in Dev : k'.backend[d] # k.backend[d] /\ k'.backend[d] = Absent =>
              /\ k.backend[d] = h.rec.nonce \/ "backend" \in h.stale
              /\ ~InUse(k, d) \/ h.stale \cap {"map", "holder"} # {}
         /\ \A a \in Att : k'.map[a] # k.map[a] /\ k'.map[a] = NoMap =>
              Ours(a) \/ "map" \in h.stale
         /\ \A a \in Att : k'.mnt[a] # k.mnt[a] /\ k'.mnt[a] = "none" =>
              (k.mnt[a] \in {"lv", "wrong"} /\ Ours(a)) \/ h.stale \cap {"map", "mnt"} # {}]_attachVars

\* What a verb reports.  A successful verify has seen the complete stack of its
\* own connection at one moment after the sentinel was read, and so has a
\* successful attach at some moment, if its configuration names the UUID of
\* the filesystem and no earlier mount at its mountpoint outlived its helper;
\* a successful detach, recover or cleanup leaves neither a record nor anything
\* of the attachment, but for what a command left running may still make.
SuccessEarned ==
    At("done") =>
      /\ h.verb = "verify" => h.whole \/ StrayConnect(k, h.rec.nonce)
      /\ h.verb = "attach" => /\ rec[h.vol] = h.rec
                              /\ h.whole \/ ~FsPinned[h.vol] \/ StrayMount(k, h.rec.att)
      /\ h.verb \in {"detach", "recover", "cleanup"} =>
           /\ rec[h.vol] = NoRecord
           /\ h.rec # NoRecord =>
                /\ ~Connected(k, h.rec) \/ StrayConnect(k, h.rec.nonce)
                /\ \/ k.map[h.rec.att] # [dev |-> h.rec.dev, own |-> TRUE]
                   \/ StrayMap(k, h.rec.att, h.rec.dev)

\* A record that no cleanup can retire: the physical volume below its mapping
\* is lost and there is no proof, or no connection, for the direct removal; or
\* a command left running has connected its device, or has mounted the volume
\* of a record that has no proof.
Stuck(r) ==
    \/ PvLost(k, r) /\ ~(Connected(k, r) /\ r.proof # NoMap)
    \/ ~Connected(k, r) /\ StrayConnect(k, k.backend[r.dev])
    \/ r.proof = NoMap /\ Mounted(k, r) /\ StrayMount(k, r.att)

\* The record is kept for the operator: it is stuck, or its device is connected
\* for another volume whose record is.
Retained(v) ==
    \/ Stuck(rec[v])
    \/ \E w \in Vol : /\ rec[w] # NoRecord /\ rec[w].dev = rec[v].dev
                      /\ Connected(k, rec[w]) /\ Stuck(rec[w])

\* Cleanup converges: whatever was killed, failed or changed by others, once
\* that stops and others have left, repeated cleanups retire every record,
\* but for the ones that are kept for diagnosis.
Converges == \A v \in Vol : []<>(rec[v] = NoRecord \/ Retained(v))
=============================================================================
