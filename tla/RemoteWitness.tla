--------------------------- MODULE RemoteWitness ---------------------------
(***************************************************************************)
(* Writers of one volume on a shared backing root, fenced by the remote    *)
(* freshness authority (maki-backing rollback/remote.rs, gc.rs and         *)
(* enrollment.rs; the authority's storages in remote_witness.rs and maki-  *)
(* witness etcd.rs; its clients in maki-witness lib.rs and failover.rs).   *)
(* Each session writes only its own namespace of the root, copies into it  *)
(* the generation the authority names current, and is then activated.      *)
(*                                                                         *)
(* Abstractions.  A request that was sent may be served at any later time  *)
(* and any number of times: this covers the retry of transact, the         *)
(* frontends failover tries in turn and requests that arrive after their   *)
(* client gave up.  Inspect reads the record at one instant; the answer is *)
(* used in a later step.  A manifest with the pages it names is one value, *)
(* the set of commits it contains; what an arena does with them is module  *)
(* RollbackBacking.  A root or an authority of another volume is not       *)
(* modelled.                                                               *)
(***************************************************************************)
EXTENDS Authority

CONSTANTS
    Host,       \* processes that open the volume
    Frontend,   \* witness servers in front of etcd
    Setting,    \* storages of the authority, each with bounds on failed or slow
                \* publications, failures of the processes and commits
    MaxFlows    \* bound on the operations started

NoHost == "nobody"

ASSUME RemoteAssumption ==
    /\ NoHost \notin Host /\ MaxFence > 0
    /\ Setting \subseteq [kind : {"file", "etcd"}, publish : Nat, process : Nat, commit : Nat]
    /\ MaxFlows \in Nat
    /\ Op = (0..MaxFlows) \X (1..(MaxGeneration + 4)) /\ Auth = 0..MaxFlows
    /\ Root = [gen : 0..MaxGeneration, data : SUBSET Op]

VARIABLES
    au,      \* the authority's storage: its state as served and as a crash may leave it
    fe,      \* the etcd frontends, each with a request and the state it loaded
    net,     \* the requests sent so far
    dir,     \* the namespaces of the backing root
    marker,  \* the root is marked as a remote backing, its enrollment binding written
    guard,   \* who holds remote.operation.lock
    host,    \* the processes
    backup,  \* the latest snapshot, with the descriptor the operator keeps
    acked,   \* history: the commits answered with success, with their epoch
    granted, \* history: the highest fence a claimer was told
    used     \* the operations so far, the faults and commits left

vars == <<au, fe, net, dir, marker, guard, host, backup, acked, granted, used>>

Idle == [msg |-> NilOp]
Answer(tag, rec) == [tag |-> tag, rec |-> rec]
NoAnswer == Answer("none", Initial.rec)

\* What a process forgets when it ends.
Off == [pc |-> "idle", kind |-> "none", flow |-> 0, step |-> 0, rec |-> Initial.rec, desc |-> NoDescriptor,
        slot |-> 0, ans |-> NoAnswer, gc |-> Initial.rec, target |-> NoNamespace]

\* A namespace with its two manifests and its lifetime lock.
NewSpace(h, r) == [man |-> <<r, NoRoot>>, lock |-> h, tomb |-> FALSE]

\* A volume whose first session, of flow 0, is live: enrolled and activated.
FirstSpace == [fence |-> 1, session |-> <<0, 1>>]
FirstRoot == [gen |-> 0, data |-> {}]
FirstDescriptor == [gen |-> 0, root |-> FirstRoot, epoch |-> 0, ns |-> FirstSpace]
First(st, act, d, k) ==
    [role |-> "writer",
     req |-> [id |-> <<0, k>>, expected |-> st.rec, action |-> act, desc |-> d, auth |-> 0]]
AfterFirst(st, m) == Applied(st, m.role, m.req)
FirstClaimed == AfterFirst(Initial, First(Initial, "claim", NoDescriptor, 1))
FirstActive == AfterFirst(FirstClaimed, First(FirstClaimed, "activate", FirstDescriptor, 2))

InitFresh(k) ==
    /\ au = [kind |-> k, bad |-> FALSE, now |-> Initial, may |-> {Initial}]
    /\ dir = [n \in {} |-> NewSpace(NoHost, NoRoot)] /\ marker = FALSE /\ host = [h \in Host |-> Off] /\ granted = 0

InitHeld(k) ==
    /\ au = [kind |-> k, bad |-> FALSE, now |-> FirstActive, may |-> {FirstActive}]
    /\ marker = TRUE /\ granted = 1
    /\ \E h \in Host : /\ dir = [n \in {FirstSpace} |-> NewSpace(h, FirstRoot)]
                       /\ host = [g \in Host |-> IF g = h THEN [Off EXCEPT !.pc = "active", !.kind = "create",
                                      !.step = 2, !.rec = FirstActive.rec, !.desc = FirstDescriptor, !.slot = 1]
                                   ELSE Off]

Init ==
    /\ \E x \in Setting : /\ InitFresh(x.kind) \/ InitHeld(x.kind)
                          /\ used = [flows |-> 0, publish |-> x.publish, process |-> x.process, commit |-> x.commit]
    /\ fe = [f \in Frontend |-> Idle] /\ net = {} /\ guard = NoHost
    /\ backup = NoDescriptor /\ acked = {}

Spend(k) == used[k] > 0 /\ used' = [used EXCEPT ![k] = @ - 1]
SpendNothing == UNCHANGED used

-----------------------------------------------------------------------------
(* Messages. *)

Waiting == {"claim", "activate", "advance"}

\* The answer to a request reaches a client that still waits for it, or not;
\* to the client a refusal is one more way to fail.
Deliver(m, a) ==
    LET clients == {h \in Host : host[h].pc \in Waiting /\ host[h].ans = NoAnswer
                                 /\ <<host[h].flow, host[h].step>> = m.req.id}
    IN  \/ UNCHANGED host
        \/ \E h \in clients : host' = [host EXCEPT ![h].ans = a]

Answers(m, states) ==
    IF states = {} THEN UNCHANGED host ELSE \E st \in states : Deliver(m, Answer("ok", st.rec))

-----------------------------------------------------------------------------
(* A request is applied at one instant: by the file store, which serves one *)
(* at a time, or by an etcd frontend that nobody overtakes.                 *)

\* StateStore::handle and EtcdStore::handle.  A replay and a refusal write
\* nothing.
Handle(m) ==
    LET states == Apply(au.now, m.role, m.req)
    IN  /\ ~au.bad /\ m \in net
        /\ au' = IF states = {} THEN au
                 ELSE LET st == CHOOSE x \in states : TRUE
                      IN  IF st = au.now THEN au ELSE [au EXCEPT !.now = st, !.may = {st}]
        /\ Answers(m, states) /\ SpendNothing
        /\ UNCHANGED <<fe, net, dir, marker, guard, backup, acked, granted>>

\* publish fails before or after its rename: the handle is poisoned and the
\* directory may show either state after a power loss.
HandleFails(m) ==
    /\ au.kind = "file" /\ ~au.bad /\ m \in net
    /\ \E st \in Apply(au.now, m.role, m.req) \ {au.now} : \E seen \in {au.now, st} :
         au' = [au EXCEPT !.bad = TRUE, !.now = seen, !.may = @ \cup {st}]
    /\ Spend("publish") /\ UNCHANGED <<fe, net, dir, marker, guard, host, backup, acked, granted>>

\* Mutant: what the directory shows is served without writing it again.
Reread(a, st) == [a EXCEPT !.bad = FALSE, !.now = st]

\* open_backing publishes what it read before it serves it.
Republished(a, st) == [a EXCEPT !.bad = FALSE, !.now = st, !.may = {st}]

\* A server whose handle is poisoned is started again, after a power loss or
\* not.  (One that was not poisoned comes back as it was.)
AuthorityRestarts ==
    /\ au.bad /\ \E st \in au.may : au' = Republished(au, st)
    /\ SpendNothing /\ UNCHANGED <<fe, net, dir, marker, guard, host, backup, acked, granted>>

-----------------------------------------------------------------------------
(* The etcd store: a frontend loads the key, applies the request and        *)
(* commits with a transaction on the value and revision it loaded; others   *)
(* change the key in between, perhaps for the same request.                 *)

\* EtcdStore::handle up to its transaction; refusals and replays need none.
Load(f, m) ==
    /\ au.kind = "etcd" /\ fe[f] = Idle /\ m \in net
    /\ ~(Apply(au.now, m.role, m.req) \subseteq {au.now})
    /\ fe' = [fe EXCEPT ![f] = [msg |-> m, snap |-> au.now]]
    /\ Spend("publish") /\ UNCHANGED <<au, net, dir, marker, guard, host, backup, acked, granted>>

\* The transaction's comparison; records never repeat, so the value decides.
Compares(snap) == au.now = snap

\* The transaction of EtcdStore::handle; a loser replays on what it observes.
Commit(f) ==
    LET m == fe[f].msg
        states == Apply(fe[f].snap, m.role, m.req)
        seen == Apply(au.now, m.role, m.req) \cap {au.now}
    IN  /\ fe[f] # Idle /\ fe' = [fe EXCEPT ![f] = Idle]
        /\ IF Compares(fe[f].snap)
           THEN \E st \in states : au' = [au EXCEPT !.now = st, !.may = {st}] /\ Deliver(m, Answer("ok", st.rec))
           ELSE Answers(m, seen) /\ UNCHANGED au
        /\ SpendNothing /\ UNCHANGED <<net, dir, marker, guard, backup, acked, granted>>

-----------------------------------------------------------------------------
(* Steps of a process. *)

InSession == {"collect", "gc", "retire", "active", "checked", "advance", "stopped"}
At(h, pcs) == host[h].pc \in pcs
Become(h, s) == host' = [host EXCEPT ![h] = s]

\* inspect succeeds: the authority can be asked.
Reachable == ~au.bad

\* load_generation
Loads(d) == d.ns \in DOMAIN dir /\ ~dir[d.ns].tomb /\ \E j \in 1..2 : dir[d.ns].man[j] = d.root

\* transact: the next request of a session, expecting its record.
Sent(s, act, d) ==
    [role |-> IF s.kind \in {"takeover", "restore", "recover"} THEN "admin" ELSE "writer",
     req |-> [id |-> <<s.flow, s.step>>, expected |-> s.rec, action |-> act, desc |-> d, auth |-> s.flow]]

Transact(h, s, to, act, d) ==
    LET t == [s EXCEPT !.pc = to, !.step = @ + 1, !.ans = NoAnswer]
    IN  net' = net \cup {Sent(t, act, d)} /\ Become(h, t)

\* Whatever the process held is free, its requests still travel.
Unlocked(h) == [n \in DOMAIN dir |-> IF dir[n].lock = h THEN [dir[n] EXCEPT !.lock = NoHost] ELSE dir[n]]
Unguarded(h) == IF guard = h THEN NoHost ELSE guard

End(h) == Become(h, Off) /\ dir' = Unlocked(h) /\ guard' = Unguarded(h)

\* The records an operation is for: what it does not accept it refuses at once.
Suits(k, rec) ==
    CASE k = "create" -> rec.cur = NoDescriptor /\ rec.phase = "released"
      [] k = "recover" -> rec.cur = NoDescriptor /\ rec.phase \in {"released", "claimed"}
      [] k \in {"open", "takeover", "restore"} -> rec.cur # NoDescriptor

\* What it then requires of the root, the authority and the backup.
Approved(s) ==
    /\ s.kind = "create" <=> ~marker
    /\ s.kind \in {"open", "recover"} => Reachable /\ au.now.rec = s.rec
    /\ s.kind \in {"open", "takeover"} => Loads(s.rec.cur)
    /\ s.kind = "restore" => backup # NoDescriptor

NewFlow == used.flows < MaxFlows /\ used' = [used EXCEPT !.flows = @ + 1]
Begun(k) == [Off EXCEPT !.pc = "approved", !.kind = k, !.flow = used.flows + 1, !.rec = au.now.rec]

\* create_remote inspects before it locks the root; takeover, restore and
\* recovery are given a record that the operator approved earlier.
Approve(h, k) ==
    /\ At(h, {"idle"}) /\ Reachable /\ Suits(k, au.now.rec) /\ NewFlow /\ Become(h, Begun(k))
    /\ UNCHANGED <<au, fe, net, dir, marker, guard, backup, acked, granted>>

ClaimVerb == [create |-> "claim", open |-> "claim", takeover |-> "takeover",
              restore |-> "claim_restore", recover |-> "recover"]

\* The marker and the binding are durable before the authority is claimed.
Enrolled == marker' = TRUE

\* Every operation holds the root's guard; the claim is its first transaction.
Claim(h, s) ==
    /\ guard = NoHost /\ Approved(s) /\ guard' = h /\ Enrolled
    /\ Transact(h, s, "claim", ClaimVerb[s.kind], IF s.kind = "restore" THEN backup ELSE NoDescriptor)
    /\ UNCHANGED <<au, fe, dir, backup, acked, granted>>

\* create_remote, takeover_remote, restore_remote, recover_enrollment_remote
Begin(h) == At(h, {"approved"}) /\ Claim(h, host[h]) /\ SpendNothing

BeginRefused(h) ==
    /\ At(h, {"approved"}) /\ (guard # NoHost \/ ~Approved(host[h])) /\ End(h)
    /\ SpendNothing /\ UNCHANGED <<au, fe, net, marker, backup, acked, granted>>

\* open_remote inspects under the guard.
Open(h) == At(h, {"idle"}) /\ Suits("open", au.now.rec) /\ NewFlow /\ Claim(h, Begun("open"))

\* collect_remote
CollectRemote(h) ==
    /\ At(h, {"idle"}) /\ guard = NoHost /\ marker /\ NewFlow /\ guard' = h
    /\ Become(h, [Begun("gc") EXCEPT !.pc = "collect"])
    /\ UNCHANGED <<au, fe, net, dir, marker, backup, acked, granted>>

Answered(h, pc) == At(h, {pc}) /\ host[h].ans.tag = "ok"

\* The manifest a claimed session starts from and the epoch it claims.
EmptyFork == [root |-> FirstRoot, epoch |-> 0]
CurrentFork(rec) == [root |-> rec.cur.root, epoch |-> rec.cur.epoch]
RestoredFork(rec) == [root |-> [backup.root EXCEPT !.gen = rec.cur.gen + 1], epoch |-> rec.cur.epoch + 1]

Fork(s) ==
    CASE s.kind \in {"create", "recover"} -> EmptyFork
      [] s.kind \in {"open", "takeover"} -> CurrentFork(s.rec)
      [] s.kind = "restore" -> RestoredFork(s.rec)

Granted(rec) == granted' = IF rec.fence > granted THEN rec.fence ELSE granted

\* The root with one more namespace; one of that name that is there stays.
Grown(n, space) == [x \in DOMAIN dir \cup {n} |-> IF x \in DOMAIN dir THEN dir[x] ELSE space]

\* The claim is answered.  activate_fork: a fresh namespace, locked, filled
\* and synced before the authority is asked to make it current.
ActivateFork(h) ==
    LET s == [host[h] EXCEPT !.rec = host[h].ans.rec]
        fork == Fork(s)
        name == Claimed(s.rec)
        d == [gen |-> fork.root.gen, root |-> fork.root, epoch |-> fork.epoch, ns |-> name]
    IN  /\ Answered(h, "claim") /\ Granted(s.rec) /\ name \notin DOMAIN dir
        /\ s.kind \in {"open", "takeover"} => Loads(s.rec.cur)
        /\ dir' = Grown(name, NewSpace(h, fork.root))
        /\ Transact(h, [s EXCEPT !.desc = d, !.slot = 1], "activate", "activate", d)
        /\ SpendNothing /\ UNCHANGED <<au, fe, marker, guard, backup, acked>>

\* The copy fails: the namespace stays, without a manifest.
ForkFails(h) ==
    LET rec == host[h].ans.rec
    IN  /\ Answered(h, "claim") /\ Granted(rec) /\ Become(h, Off) /\ guard' = Unguarded(h)
        /\ dir' = Grown(Claimed(rec), NewSpace(NoHost, NoRoot))
        /\ Spend("process") /\ UNCHANGED <<au, fe, net, marker, backup, acked>>

ActivateDone(h) ==
    LET s == host[h]
    IN  /\ Answered(h, "activate") /\ s.ans.rec.cur = s.desc /\ s.ans.rec.phase = "active"
        /\ Become(h, [s EXCEPT !.pc = "collect", !.rec = s.ans.rec])
        /\ SpendNothing /\ UNCHANGED <<au, fe, net, dir, marker, guard, backup, acked, granted>>

\* A transaction is refused or all its tries fail.
Fails(h) ==
    /\ At(h, Waiting) /\ host[h].ans.tag # "ok"
    /\ IF host[h].pc = "advance"
       THEN Become(h, [host[h] EXCEPT !.pc = "stopped"]) /\ UNCHANGED <<dir, guard>>
       ELSE End(h)
    /\ SpendNothing /\ UNCHANGED <<au, fe, net, marker, backup, acked, granted>>

-----------------------------------------------------------------------------
(* OperationGuard::collect, after an activation or on its own. *)

Collect(h) ==
    /\ At(h, {"collect"}) /\ Reachable /\ au.now.rec.cur # NoDescriptor /\ Loads(au.now.rec.cur)
    /\ Become(h, [host[h] EXCEPT !.pc = "gc", !.gc = au.now.rec])
    /\ SpendNothing /\ UNCHANGED <<au, fe, net, dir, marker, guard, backup, acked, granted>>

\* Mutant: only the namespace of the claim is retained.
RetainedPending(rec) == {Claimed(rec)}

Retained(rec) == {rec.cur.ns, rec.src.ns, Claimed(rec)}

\* A candidate is checked against the authority again just before it goes.
Candidate(h) ==
    /\ At(h, {"gc"}) /\ Reachable /\ au.now.rec = host[h].gc
    /\ \E n \in DOMAIN dir : /\ n.fence < host[h].gc.fence /\ n \notin Retained(host[h].gc)
                             /\ Become(h, [host[h] EXCEPT !.pc = "retire", !.target = n])
    /\ SpendNothing /\ UNCHANGED <<au, fe, net, dir, marker, guard, backup, acked, granted>>

\* Mutant: the lifetime lock is not tried.
RetiresLive(n) == TRUE

Retires(n) == dir[n].lock = NoHost \/ dir[n].tomb

\* gc_retire: renamed, then emptied and removed.
Retire(h) ==
    LET n == host[h].target
    IN  /\ At(h, {"retire"}) /\ Become(h, [host[h] EXCEPT !.pc = "gc", !.target = NoNamespace])
        /\ dir' = IF Retires(n) THEN [x \in DOMAIN dir \ {n} |-> dir[x]] ELSE dir
        /\ SpendNothing /\ UNCHANGED <<au, fe, net, marker, guard, backup, acked, granted>>

\* It fails after the rename; the tombstone waits for a later collection.
RetireFails(h) ==
    LET n == host[h].target
    IN  /\ At(h, {"retire"}) /\ Retires(n)
        /\ Become(h, [host[h] EXCEPT !.pc = "gc", !.target = NoNamespace, !.gc = Initial.rec])
        /\ dir' = [dir EXCEPT ![n].tomb = TRUE]
        /\ Spend("process") /\ UNCHANGED <<au, fe, net, marker, guard, backup, acked, granted>>

\* No candidate is left, or an error stops the collection: neither matters
\* to the caller.
CollectEnds(h) ==
    /\ At(h, {"collect", "gc"}) /\ guard' = Unguarded(h)
    /\ Become(h, IF host[h].kind = "gc" THEN Off ELSE [host[h] EXCEPT !.pc = "active", !.gc = Initial.rec])
    /\ SpendNothing /\ UNCHANGED <<au, fe, net, dir, marker, backup, acked, granted>>

-----------------------------------------------------------------------------
(* The session. *)

\* Witness::verify_current: a mismatch stops the session for good, a witness
\* that cannot be asked only refuses the operation.
Revoked(s) == au.now.rec # s.rec

\* State::check
Check(h) ==
    /\ At(h, {"active"}) /\ Reachable
    /\ Become(h, [host[h] EXCEPT !.pc = IF Revoked(host[h]) THEN "stopped" ELSE "checked"])
    /\ SpendNothing /\ UNCHANGED <<au, fe, net, dir, marker, guard, backup, acked, granted>>

OtherSlot(s) == 3 - s.slot

\* State::commit: the candidate goes to the other manifest, then the
\* authority is advanced.  (The last generation is not attempted.)
CommitWrite(h) ==
    LET s == host[h]
        r == [gen |-> s.desc.gen + 1, data |-> s.desc.root.data \cup {<<s.flow, s.step + 1>>}]
    IN  /\ At(h, {"checked"}) /\ s.desc.gen < MaxGeneration
        /\ dir' = [dir EXCEPT ![s.desc.ns].man[OtherSlot(s)] = r]
        /\ Transact(h, s, "advance", "advance", [s.desc EXCEPT !.gen = r.gen, !.root = r])
        /\ Spend("commit") /\ UNCHANGED <<au, fe, marker, guard, backup, acked, granted>>

CommitFails(h) ==
    LET s == host[h]
    IN  /\ At(h, {"checked"})
        /\ dir' = [dir EXCEPT ![s.desc.ns].man[OtherSlot(s)] = NoRoot]
        /\ Become(h, [s EXCEPT !.pc = "stopped"])
        /\ Spend("process") /\ UNCHANGED <<au, fe, net, marker, guard, backup, acked, granted>>

\* Witness::advance returns and the commit is acknowledged.
AdvanceDone(h) ==
    LET s == host[h]
    IN  /\ Answered(h, "advance") /\ s.ans.rec.fence = s.rec.fence /\ s.ans.rec.phase = "active"
        /\ Become(h, [s EXCEPT !.pc = "active", !.rec = s.ans.rec, !.desc = s.ans.rec.cur, !.slot = OtherSlot(s)])
        /\ acked' = acked \cup {[epoch |-> s.desc.epoch, id |-> <<s.flow, s.step>>]}
        /\ SpendNothing /\ UNCHANGED <<au, fe, net, dir, marker, guard, backup, granted>>

\* snapshot_remote: the copy counts once the second check succeeded.
Snapshot(h) ==
    /\ At(h, {"active"}) /\ Reachable /\ ~Revoked(host[h]) /\ guard = NoHost
    /\ backup' = host[h].desc
    /\ NewFlow /\ UNCHANGED <<au, fe, net, dir, marker, guard, host, acked, granted>>

\* RemoteSession::drop: the release is sent and the process is done, whatever
\* comes of it.
Drop(h) ==
    /\ At(h, {"active", "stopped"}) /\ End(h)
    /\ net' = net \cup {Sent([host[h] EXCEPT !.step = @ + 1], "release", NoDescriptor)}
    /\ SpendNothing /\ UNCHANGED <<au, fe, marker, backup, acked, granted>>

\* The process dies.  (Before its activation that is a failed transaction.)
Crash(h) ==
    /\ At(h, InSession) /\ End(h)
    /\ Spend("process") /\ UNCHANGED <<au, fe, net, marker, backup, acked, granted>>

Next ==
    \/ \E m \in net : Handle(m) \/ HandleFails(m) \/ \E f \in Frontend : Load(f, m)
    \/ AuthorityRestarts
    \/ \E f \in Frontend : Commit(f)
    \/ \E h \in Host : \/ \E k \in DOMAIN ClaimVerb \ {"open"} : Approve(h, k)
                       \/ Begin(h) \/ BeginRefused(h) \/ Open(h) \/ CollectRemote(h)
                       \/ ActivateFork(h) \/ ForkFails(h)
                       \/ ActivateDone(h) \/ Fails(h)
                       \/ Collect(h) \/ Candidate(h) \/ Retire(h) \/ RetireFails(h) \/ CollectEnds(h)
                       \/ Check(h) \/ CommitWrite(h) \/ CommitFails(h) \/ AdvanceDone(h)
                       \/ Snapshot(h) \/ Drop(h) \/ Crash(h)

Spec == Init /\ [][Next]_vars

-----------------------------------------------------------------------------
(* Properties. *)

TypeOK ==
    /\ \A st \in au.may : st.rec \in Record /\ Valid(st.rec)
    /\ au.now \in au.may /\ (au.kind = "etcd" => au.may = {au.now})
    /\ \A m \in net : m.role \in Role /\ m.req \in Request
    /\ DOMAIN dir \subseteq Namespace /\ marker \in BOOLEAN /\ guard \in Host \cup {NoHost}
    /\ \A h \in Host : host[h].rec \in Record /\ Valid(host[h].rec)

\* What the authority has answered survives in every state a crash, a failed
\* publication or a lost answer may leave it in: it never falls below a fence
\* it granted, and its current descriptor contains every commit a writer was
\* told succeeded, unless an administrator's restore raised the epoch.
AckedKept ==
    /\ TypeOK
    /\ \A st \in au.may :
         /\ granted <= st.rec.fence
         /\ \A a \in acked : \/ st.rec.cur.epoch > a.epoch
                             \/ st.rec.cur.epoch = a.epoch /\ a.id \in st.rec.cur.root.data

\* The generation the authority calls current, in every state it may come
\* back with, can be loaded from the backing root: it was copied and synced
\* before it became current, no writer overwrites it, revoked or not, and no
\* collection retires its namespace.
CurrentKept == \A st \in au.may : st.rec.cur # NoDescriptor => Loads(st.rec.cur)

\* A live session, revoked or not, keeps its own namespace with the lock on
\* it and the manifest it committed last; and one whose record the authority
\* still holds serves what the authority calls current.
SessionKept ==
    \A h \in Host : At(h, InSession) /\ host[h].desc # NoDescriptor =>
        LET s == host[h]
        IN  /\ s.desc.ns \in DOMAIN dir /\ ~dir[s.desc.ns].tomb /\ dir[s.desc.ns].lock = h
            /\ dir[s.desc.ns].man[s.slot] = s.desc.root
            /\ \A st \in au.may : st.rec = s.rec => st.rec.cur = s.desc
=============================================================================
