------------------------ MODULE RemoteWitnessProofs ------------------------
(***************************************************************************)
(* The remote authority's safety, for every number of processes, *)
(* frontends, fences, generations and operations, for both storages, and *)
(* whatever requests are delayed, repeated or lost: what the authority has *)
(* answered survives (AckedKept), the generation it calls current can be *)
(* loaded (CurrentKept), and a live session keeps its namespace *)
(* (SessionKept). *)
(* *)
(* None of them is inductive. A state the authority stores is a copy of a *)
(* record made from a request, so everything known of requests still *)
(* travelling matters: what they carry (Asked), which records they expect, *)
(* and that the authority has not fallen behind any record anybody was *)
(* told of (Told). Records never repeat because each accepted request *)
(* makes a later one; Follows orders them by fence, then phase, then *)
(* generation, and says that what was kept is kept. For the root, a *)
(* request that may still be accepted counts like one that was: what it *)
(* would make current is already on the root (Pending), the manifest a *)
(* session is about to overwrite is not the one the authority may come to *)
(* name (Settles), and a locked namespace belongs to its session (Spaces). *)
(* *)
(* The proof has two halves. Steps of the authority (AuthorityMove) change *)
(* only its states and at most one answer; steps of a process (StepOf) *)
(* change only that process, its requests and the root. *)
(***************************************************************************)
EXTENDS RemoteWitness, TLAPS

(* The operations that claim, the places of a process, what it was told, *)
(* and the types of the rest of the state. *)
ClaimKind == {"create", "open", "takeover", "restore", "recover"}
PC == {"idle", "approved"} \cup Waiting \cup InSession
Tell == [tag : {"none", "ok"}, rec : Record]
HostRec ==
    [pc : PC, kind : ClaimKind \cup {"none", "gc"}, flow : 0..MaxFlows, step : 0..(MaxGeneration + 3),
     rec : Record, desc : Descriptor \cup {NoDescriptor}, slot : 0..2, ans : Tell, gc : Record,
     target : Namespace \cup {NoNamespace}]
Message == [role : Role, req : Request]
Space == [man : [1..2 -> Root \cup {NoRoot}], lock : Host \cup {NoHost}, tomb : BOOLEAN]
State == [rec : Record, req : {NoRequest} \cup Message, auth : Auth \cup {NilAuth}]
Authorities == [kind : {"file", "etcd"}, bad : BOOLEAN, now : State, may : SUBSET State]
Budget == [flows : 0..MaxFlows, publish : Nat, process : Nat, commit : Nat]

(* The type invariant; a frontend's request was sent, and only etcd has *)
(* frontends. *)
Types ==
    /\ au \in Authorities /\ net \subseteq Message
    /\ \A f \in Frontend : fe[f] # Idle => fe[f].msg \in net /\ au.kind = "etcd"
    /\ dir \in [DOMAIN dir -> Space] /\ DOMAIN dir \subseteq Namespace
    /\ marker \in BOOLEAN /\ guard \in Host \cup {NoHost}
    /\ host \in [Host -> HostRec]
    /\ backup \in Descriptor \cup {NoDescriptor}
    /\ acked \subseteq [epoch : 0..MaxGeneration, id : Op]
    /\ granted \in Nat
    /\ used \in Budget

(* The order of the records of one fence: claimed, active, released. *)
Rank(phase) == IF phase = "released" THEN 2 ELSE IF phase = "active" THEN 1 ELSE 0

(* A record strictly later than another, by fence, phase and generation. *)
Later(new, old) ==
    \/ old.fence < new.fence
    \/ old.fence = new.fence /\ Rank(old.phase) < Rank(new.phase)
    \/ old.fence = new.fence /\ Rank(old.phase) = Rank(new.phase) /\ old.cur.gen < new.cur.gen

(* The same, or the two are as late as each other. *)
NotEarlier(new, old) ==
    \/ old.fence < new.fence
    \/ old.fence = new.fence /\ Rank(old.phase) < Rank(new.phase)
    \/ old.fence = new.fence /\ Rank(old.phase) = Rank(new.phase) /\ old.cur.gen <= new.cur.gen

(* The new record keeps what the old one called current, unless a restore *)
(* raised the epoch. *)
Keeps(new, old) ==
    \/ old.cur = NoDescriptor
    \/ old.cur.epoch < new.cur.epoch
    \/ old.cur.epoch = new.cur.epoch /\ old.cur.root.data \subseteq new.cur.root.data

(* The order that the authority's records climb. *)
Follows(new, old) == NotEarlier(new, old) /\ Keeps(new, old)

(* The record contains an acknowledged commit, or a restore came after it. *)
Covers(rec, a) ==
    \/ rec.cur.epoch > a.epoch
    \/ rec.cur.epoch = a.epoch /\ a.id \in rec.cur.root.data

(* The record is what the request makes of the record it expects. *)
Made(rec, m) ==
    /\ Permitted(m.req.expected, m.role, m.req)
    /\ rec = Successor(m.req.expected, m.req)

(* The states the authority may come back with: one, unless a publication *)
(* failed; each a valid record made by the request stored with it. *)
Served ==
    /\ au.now \in au.may
    /\ ~au.bad => au.may = {au.now}
    /\ au.kind = "etcd" => ~au.bad
    /\ \A st \in au.may : /\ Valid(st.rec)
                          /\ st.rec # Initial.rec => st.req \in Message /\ Made(st.rec, st.req)

(* What a request carries: an activation names the namespace of the claim *)
(* it expects, an advance is of an active session and contains the commits *)
(* of the descriptor it replaces and its own. *)
MessageOk(m) ==
    /\ Valid(m.req.expected)
    /\ m.req.action = "activate" =>
         /\ m.req.desc \in Descriptor /\ m.req.desc.ns = Claimed(m.req.expected)
         /\ m.req.expected.phase \in {"claimed", "restore"} /\ m.req.expected.fence > 0
    /\ m.req.action = "advance" =>
         /\ m.req.desc \in Descriptor /\ m.req.expected.phase = "active"
         /\ m.req.expected.session = <<m.req.id[1], 1>> /\ m.req.id[2] >= 3
         /\ m.req.expected.cur.root.data \subseteq m.req.desc.root.data
         /\ m.req.id \in m.req.desc.root.data

(* Every request sent is such, from an operation that was started. *)
Asked == \A m \in net : MessageOk(m) /\ m.req.id[1] <= used.flows

(* A record follows what a process holds, what it was answered and what it *)
(* collects by. *)
ToldTo(s, rec) ==
    /\ s.kind # "gc" => Follows(rec, s.rec)
    /\ Follows(rec, s.ans.rec)
    /\ s.gc.fence <= rec.fence

(* Every state the authority may come back with follows all that anybody *)
(* was told. *)
Told ==
    \A st \in au.may :
      /\ granted <= st.rec.fence
      /\ \A a \in acked : Covers(st.rec, a)
      /\ \A m \in net : Follows(st.rec, m.req.expected)
      /\ \A h \in Host : ToldTo(host[h], st.rec)

(* A process with a live session; one whose namespace is its own; one that *)
(* does not know what the authority made of its last commit; its present *)
(* request, and what it asks for. *)
InVolume(s) == s.pc \in InSession /\ s.kind # "gc"
Live(s) == s.pc = "activate" \/ InVolume(s)
Unsure(s) == s.pc \in {"advance", "stopped"}
Own(s, m) == m.req.id = <<s.flow, s.step>>
Asks(s) == IF s.pc = "claim" THEN ClaimVerb[s.kind] ELSE s.pc

(* What a process has established at each place: its session, its record, *)
(* its manifest and how many requests it has sent. *)
PlaceOf(s, flows, bak) ==
    /\ s.pc = "idle" => s = Off
    /\ s.pc # "idle" => s.flow <= flows
    /\ s.kind = "gc" => s.pc \in {"collect", "gc", "retire"} /\ s.desc = NoDescriptor
    /\ s.pc = "approved" => s.kind \in ClaimKind /\ s.step = 0
    /\ s.pc = "claim" => s.kind \in ClaimKind /\ s.step = 1 /\ (s.kind = "restore" => bak # NoDescriptor)
    /\ s.pc = "activate" => /\ s.step = 2 /\ s.desc.ns = Claimed(s.rec)
                            /\ s.rec.phase \in {"claimed", "restore"} /\ s.kind # "gc"
    /\ Live(s) => /\ s.desc \in Descriptor /\ s.rec.session = <<s.flow, 1>> /\ s.slot \in {1, 2}
                  /\ s.rec.fence > 0
    /\ InVolume(s) => /\ s.rec.cur = s.desc /\ s.rec.phase = "active" /\ s.step >= 2
                      /\ s.step <= s.desc.gen + (IF Unsure(s) THEN 3 ELSE 2)
    /\ s.pc = "advance" => s.desc.gen < MaxGeneration
    /\ s.pc = "retire" => s.target.fence < s.gc.fence
    /\ Valid(s.rec)

(* Its requests: none is newer than its step, the present one asks what *)
(* its place says, and an advance of an earlier generation cannot be *)
(* mistaken for a present one. *)
SentOf(s, N) ==
    /\ s.pc # "idle" => \A m \in N : m.req.id[1] = s.flow => m.req.id[2] <= s.step
    /\ s.pc \in Waiting => \A m \in N : Own(s, m) =>
         /\ m.req.expected = s.rec /\ m.req.action = Asks(s)
         /\ s.pc = "activate" => m.req.desc = s.desc
         /\ s.pc = "advance" => m.req.desc.gen = s.desc.gen + 1
    /\ InVolume(s) => \A m \in N : m.req.action = "advance" /\ m.req.id[1] = s.flow =>
         m.req.expected.cur.gen <= s.desc.gen /\ (~Unsure(s) => m.req.expected.cur.gen < s.desc.gen)

(* An answer it got is what its own request made. *)
AnswerOf(s, N) ==
    s.pc \in Waiting /\ s.ans.tag = "ok" =>
       Valid(s.ans.rec) /\ \E m \in N : Own(s, m) /\ Made(s.ans.rec, m)

(* All this for every process; no two share an operation. *)
Hosts ==
    /\ \A h \in Host : PlaceOf(host[h], used.flows, backup) /\ SentOf(host[h], net) /\ AnswerOf(host[h], net)
    /\ \A g, h \in Host : g # h /\ host[g].pc # "idle" /\ host[h].pc # "idle" => host[g].flow # host[h].flow

(* The part of the invariant that AckedKept needs. *)
Acks == Types /\ Served /\ Asked /\ Told /\ Hosts

(* Whatever state the authority comes back with, if it names this *)
(* namespace it names this manifest. *)
Settled(A, rec) == \A st \in A : st.rec.cur.ns = rec.cur.ns => st.rec.cur.root = rec.cur.root

(* The namespace is on the root, is no tombstone and has this manifest. *)
Holds(D, ns, root) == ns \in DOMAIN D /\ ~D[ns].tomb /\ \E j \in 1..2 : D[ns].man[j] = root

(* If the request would still be accepted, what it would make current is *)
(* on the root. *)
PendingOf(m, st, D) ==
    m.req.expected = st.rec =>
       /\ m.req.action = "activate" => Holds(D, m.req.desc.ns, m.req.desc.root)
       /\ m.req.action = "advance" => Holds(D, st.rec.cur.ns, m.req.desc.root)

(* A live session has its namespace, the lock on it and its manifest; *)
(* while it waits for an advance the other manifest is the one it asks *)
(* for. *)
HeldBy(h, s, N, D) ==
    /\ Live(s) => /\ s.desc.ns \in DOMAIN D /\ ~D[s.desc.ns].tomb /\ D[s.desc.ns].lock = h
                  /\ D[s.desc.ns].man[s.slot] = s.desc.root
    /\ s.pc = "advance" => \A m \in N : Own(s, m) => D[s.desc.ns].man[OtherSlot(s)] = m.req.desc.root

(* A session that is not in doubt, or was just answered, is settled; a *)
(* namespace about to be retired is named by no state of the authority. *)
SettledFor(s, A) ==
    /\ s.pc \in {"activate", "advance"} /\ s.ans.tag = "ok" => Settled(A, s.ans.rec)
    /\ InVolume(s) /\ ~Unsure(s) => Settled(A, s.rec)
    /\ s.pc = "retire" => \A st \in A : st.rec.cur.ns # s.target

(* The part of the invariant that speaks of the root. *)
CurrentHeld == \A st \in au.may : st.rec.cur # NoDescriptor => Holds(dir, st.rec.cur.ns, st.rec.cur.root)
Pending == \A m \in net, st \in au.may : PendingOf(m, st, dir)
Spaces == \A h \in Host : HeldBy(h, host[h], net, dir)
Settles == \A h \in Host : SettledFor(host[h], au.may)

Kept == CurrentHeld /\ Pending /\ Spaces /\ Settles

(* The inductive invariant. *)
IInv == Acks /\ Kept

(* What the assumptions say of the constants. *)
LEMMA Constants ==
    /\ MaxGeneration \in Nat /\ MaxFence \in Nat /\ MaxFence > 0 /\ MaxFlows \in Nat
    /\ NilOp \notin Op /\ NilAuth \notin Auth /\ NoRoot \notin Root /\ NoHost \notin Host
    /\ Op = (0..MaxFlows) \X (1..(MaxGeneration + 4)) /\ Auth = 0..MaxFlows
    /\ Root = [gen : 0..MaxGeneration, data : SUBSET Op]
  BY AuthorityAssumption, RemoteAssumption

(* An operation id is a flow and a step. *)
LEMMA OpPair ==
    ASSUME NEW x \in Op
    PROVE  x[1] \in 0..MaxFlows /\ x[2] \in 1..(MaxGeneration + 4) /\ x = <<x[1], x[2]>>
  BY Constants

(* A flow and a step make an operation id. *)
LEMMA PairOp ==
    ASSUME NEW i \in 0..MaxFlows, NEW j \in 1..(MaxGeneration + 4)
    PROVE  <<i, j>> \in Op /\ <<i, j>>[1] = i /\ <<i, j>>[2] = j
  BY Constants

(* The fields of a manifest. *)
LEMMA RootFields ==
    ASSUME NEW r \in Root
    PROVE  r.gen \in 0..MaxGeneration /\ r.data \subseteq Op
  BY Constants

(* The fields of a descriptor. *)
LEMMA DescFields ==
    ASSUME NEW d \in Descriptor
    PROVE  /\ d # NoDescriptor /\ d.gen \in 0..MaxGeneration /\ d.epoch \in 0..MaxGeneration
           /\ d.root \in Root /\ d.ns \in Namespace /\ d.root.data \subseteq Op
  BY Constants DEF Descriptor, NoDescriptor

(* The fields of a descriptor or of its absence, which is below every *)
(* descriptor. *)
LEMMA DescAny ==
    ASSUME NEW d \in Descriptor \cup {NoDescriptor}
    PROVE  /\ d.gen \in Int /\ d.epoch \in Int /\ d.gen >= -1 /\ d.epoch >= -1
           /\ d.gen <= MaxGeneration /\ d.epoch <= MaxGeneration
           /\ d # NoDescriptor => d \in Descriptor /\ d.gen >= 0 /\ d.epoch >= 0
           /\ d = NoDescriptor => d.gen = -1 /\ d.epoch = -1
           /\ d.ns.fence \in Nat
  BY Constants DEF Descriptor, NoDescriptor, Namespace, NoNamespace

(* The fields of a namespace. *)
LEMMA NsFields ==
    ASSUME NEW n \in Namespace
    PROVE  n # NoNamespace /\ n.fence \in 1..MaxFence /\ n.session \in Op
           /\ n = [fence |-> n.fence, session |-> n.session]
  BY Constants DEF Namespace, NoNamespace

(* The fields of a record. *)
LEMMA RecFields ==
    ASSUME NEW rec \in Record
    PROVE  /\ rec.cur \in Descriptor \cup {NoDescriptor} /\ rec.fence \in 0..MaxFence
           /\ rec.session \in Op \cup {NilOp} /\ rec.phase \in Phase
           /\ rec.src \in Descriptor \cup {NoDescriptor} /\ rec.last \in Op \cup {NilOp}
           /\ rec.fence \in Nat
  BY Constants DEF Record

(* The fields of a request. *)
LEMMA ReqFields ==
    ASSUME NEW q \in Request
    PROVE  /\ q.id \in Op /\ q.expected \in Record /\ q.action \in Verb
           /\ q.desc \in Descriptor \cup {NoDescriptor} /\ q.auth \in Auth
  BY DEF Request

(* A message is its role and its request. *)
LEMMA MessageFields ==
    ASSUME NEW m \in Message
    PROVE  m.role \in Role /\ m.req \in Request /\ m = [role |-> m.role, req |-> m.req]
  BY DEF Message

(* The record of an authority that was never claimed. *)
LEMMA InitialRec ==
    /\ Initial.rec \in Record /\ Valid(Initial.rec) /\ Initial \in State
    /\ Initial.rec.fence = 0 /\ Initial.rec.cur = NoDescriptor /\ Initial.rec.last = NilOp
    /\ Initial.rec.phase = "released" /\ Initial.rec.src = NoDescriptor
  BY Constants DEF Initial, Record, Valid, Phase, State

(* The rank tells the phases apart, a claim and a restore excepted. *)
LEMMA RankOf ==
    ASSUME NEW p \in Phase
    PROVE  /\ Rank(p) \in 0..2 /\ (p = "released" <=> Rank(p) = 2) /\ (p = "active" <=> Rank(p) = 1)
           /\ (p \in {"claimed", "restore"} <=> Rank(p) = 0)
  BY DEF Rank, Phase

(* Follows is reflexive. *)
LEMMA FollowsSelf ==
    ASSUME NEW rec \in Record
    PROVE  Follows(rec, rec)
  BY RecFields, DescAny DEF Follows, NotEarlier, Keeps

(* Follows is transitive. *)
LEMMA FollowsOn ==
    ASSUME NEW a \in Record, NEW b \in Record, NEW c \in Record, Follows(b, a), Follows(c, b)
    PROVE  Follows(c, a)
  BY RecFields, DescAny, RankOf DEF Follows, NotEarlier, Keeps

(* What a record covers, every record that follows it covers. *)
LEMMA CoversOn ==
    ASSUME NEW a \in Record, NEW b \in Record, NEW x \in [epoch : 0..MaxGeneration, id : Op],
           Follows(b, a), Covers(a, x)
    PROVE  Covers(b, x)
<1>1. a.cur.epoch \in Int /\ b.cur.epoch \in Int /\ (a.cur = NoDescriptor => a.cur.epoch = -1)
  BY RecFields, DescAny
<1>2. x.epoch \in Nat
  BY Constants
<1> QED
  BY <1>1, <1>2 DEF Follows, Keeps, Covers

(* Every valid record follows the initial one. *)
LEMMA FollowsInitial ==
    ASSUME NEW rec \in Record, Valid(rec)
    PROVE  Follows(rec, Initial.rec)
  BY FollowsSelf, InitialRec, RecFields DEF Valid, Follows, NotEarlier, Keeps

(* The verbs, one by one. *)
LEMMA Verbs == Verb = {"claim", "takeover", "recover", "claim_restore", "activate", "advance", "release"}
  BY DEF Verb, Installing

(* What a claim, a takeover, a recovery or a restore makes: the next *)
(* fence, the same current descriptor. *)
LEMMA MadeInstall ==
    ASSUME NEW m \in Message, MessageOk(m), NEW r, Made(r, m), m.req.action \in Installing
    PROVE  /\ r \in Record /\ r.cur = m.req.expected.cur /\ r.fence = m.req.expected.fence + 1
           /\ r.session = m.req.id /\ r.last = m.req.id /\ r.phase \in {"claimed", "restore"}
           /\ m.req.action = "claim_restore" => /\ r.cur \in Descriptor /\ r.cur.gen < MaxGeneration
                                                /\ r.cur.epoch < MaxGeneration
<1> PICK q \in Request : q = m.req
  BY MessageFields
<1> PICK e \in Record : e = q.expected
  BY ReqFields
<1>1. MayInstall(e, m.role, q)
  BY DEF Made, Permitted, Installing
<1>2. r = [Installed(e, q) EXCEPT !.last = q.id]
  BY DEF Made, Successor, Transition, Installing
<1>3. e.fence + 1 \in 0..MaxFence
  BY <1>1, RecFields, Constants DEF MayInstall
<1>4. q.desc \in Descriptor \cup {NoDescriptor} /\ q.id \in Op
  BY ReqFields
<1> PICK src \in Descriptor \cup {NoDescriptor} :
       src = IF q.action = "claim_restore" THEN q.desc ELSE NoDescriptor
  BY <1>4
<1> PICK p \in {"claimed", "restore"} : p = IF q.action = "claim_restore" THEN "restore" ELSE "claimed"
  OBVIOUS
<1> PICK f \in 0..MaxFence : f = e.fence + 1
  BY <1>3
<1>5. r = [[e EXCEPT !.src = src, !.phase = p, !.fence = f, !.session = q.id] EXCEPT !.last = q.id]
  BY <1>2 DEF Installed
<1>6. /\ r \in Record /\ r.cur = e.cur /\ r.fence = e.fence + 1 /\ r.session = q.id /\ r.last = q.id
      /\ r.phase \in {"claimed", "restore"}
  BY ZenonT(120), <1>4, <1>5 DEF Record, Phase
<1>7. q.action = "claim_restore" => e.cur \in Descriptor /\ e.cur.gen < MaxGeneration /\ e.cur.epoch < MaxGeneration
  BY <1>1, RecFields DEF MayInstall
<1> QED
  BY <1>6, <1>7

(* What an activation makes: the descriptor it names becomes current, in *)
(* the claimed namespace. *)
LEMMA MadeActivate ==
    ASSUME NEW m \in Message, MessageOk(m), NEW r, Made(r, m), m.req.action = "activate"
    PROVE  /\ r \in Record /\ r.cur = m.req.desc /\ r.fence = m.req.expected.fence
           /\ r.session = m.req.expected.session /\ r.last = m.req.id /\ r.phase = "active"
           /\ r.cur \in Descriptor /\ r.cur.ns = Claimed(m.req.expected) /\ Claimed(r) = Claimed(m.req.expected)
           /\ m.req.expected.phase \in {"claimed", "restore"}
           /\ Keeps(r, m.req.expected)
<1> PICK q \in Request : q = m.req
  BY MessageFields
<1> PICK e \in Record : e = q.expected
  BY ReqFields
<1>1. MayActivate(e, m.role, q.desc)
  BY DEF Made, Permitted, Installing
<1>2. r = [[e EXCEPT !.cur = q.desc, !.src = NoDescriptor, !.phase = "active"] EXCEPT !.last = q.id]
  BY DEF Made, Successor, Transition, Installing
<1>4. q.desc \in Descriptor /\ q.id \in Op
  BY ReqFields DEF MessageOk
<1>6. /\ r \in Record /\ r.cur = q.desc /\ r.fence = e.fence /\ r.session = e.session /\ r.last = q.id
      /\ r.phase = "active"
  BY ZenonT(60), <1>2, <1>4, Constants DEF Record, Phase
<1>7. q.desc.ns = Claimed(e) /\ Claimed(r) = Claimed(e) /\ e.phase \in {"claimed", "restore"}
  BY <1>1, <1>6 DEF MayActivate, Claimed
<1>8. Keeps(r, e)
  BY RecFields, DescAny, <1>4, <1>1, <1>6 DEF MayActivate, Keeps
<1> QED
  BY <1>4, <1>6, <1>7, <1>8

(* What an advance makes: the next generation in the same namespace and *)
(* epoch. *)
LEMMA MadeAdvance ==
    ASSUME NEW m \in Message, MessageOk(m), NEW r, Made(r, m), m.req.action = "advance"
    PROVE  /\ r \in Record /\ r.cur \in Descriptor /\ r.fence = m.req.expected.fence
           /\ r.session = m.req.expected.session /\ r.last = m.req.id /\ r.phase = "active"
           /\ r.cur.gen = m.req.desc.gen /\ r.cur.root = m.req.desc.root
           /\ r.cur.epoch = m.req.expected.cur.epoch /\ r.cur.ns = m.req.expected.cur.ns
           /\ m.req.expected.phase = "active" /\ m.req.expected.cur \in Descriptor
           /\ r.cur.gen = m.req.expected.cur.gen + 1
           /\ r.cur.ns = Claimed(m.req.expected) /\ Claimed(r) = Claimed(m.req.expected)
           /\ Keeps(r, m.req.expected)
<1> PICK q \in Request : q = m.req
  BY MessageFields
<1> PICK e \in Record : e = q.expected
  BY ReqFields
<1>1. MayAdvance(e, q.desc)
  BY DEF Made, Permitted, Installing
<1>2. r = [[e EXCEPT !.cur.gen = q.desc.gen, !.cur.root = q.desc.root] EXCEPT !.last = q.id]
  BY DEF Made, Successor, Transition, Installing
<1>3. e.cur \in Descriptor /\ e.phase = "active" /\ e.cur.ns = Claimed(e)
  BY <1>1, InitialRec, RecFields DEF MessageOk, MayAdvance, Valid
<1>4. q.desc \in Descriptor /\ q.id \in Op
  BY ReqFields DEF MessageOk
<1>5. q.desc.gen \in 0..MaxGeneration /\ q.desc.root \in Root
  BY <1>4, DescFields
<1>a. PICK c : c = [e.cur EXCEPT !.gen = q.desc.gen, !.root = q.desc.root]
  OBVIOUS
<1>b. /\ c \in Descriptor /\ c.gen = q.desc.gen /\ c.root = q.desc.root /\ c.epoch = e.cur.epoch
      /\ c.ns = e.cur.ns
  BY <1>a, <1>3, <1>5 DEF Descriptor
<1>c. r = [[e EXCEPT !.cur = c] EXCEPT !.last = q.id]
  BY <1>2, <1>a DEF Record
<1>6. /\ r \in Record /\ r.fence = e.fence /\ r.session = e.session /\ r.last = q.id /\ r.phase = "active"
      /\ r.cur = c
  BY <1>b, <1>c, <1>3, <1>4 DEF Record
<1>7. r.cur.gen = q.desc.gen /\ r.cur.root = q.desc.root /\ r.cur.epoch = e.cur.epoch /\ r.cur.ns = e.cur.ns
      /\ r.cur \in Descriptor
  BY <1>6, <1>b
<1>8. q.desc.gen = e.cur.gen + 1
  BY <1>1 DEF MayAdvance
<1>9. Keeps(r, e)
  BY <1>7 DEF Keeps, MessageOk
<1>10. Claimed(r) = Claimed(e)
  BY <1>6 DEF Claimed
<1> QED
  BY <1>3, <1>6, <1>7, <1>8, <1>9, <1>10

(* What a release makes: the same descriptor and fence, released. *)
LEMMA MadeRelease ==
    ASSUME NEW m \in Message, MessageOk(m), NEW r, Made(r, m), m.req.action = "release"
    PROVE  /\ r \in Record /\ r.cur = m.req.expected.cur /\ r.fence = m.req.expected.fence
           /\ r.last = m.req.id /\ r.phase = "released" /\ m.req.expected.phase # "released"
<1> PICK q \in Request : q = m.req
  BY MessageFields
<1> PICK e \in Record : e = q.expected
  BY ReqFields
<1>1. MayRelease(e, m.role)
  BY DEF Made, Permitted, Installing
<1>2. r = [[e EXCEPT !.phase = "released", !.src = NoDescriptor] EXCEPT !.last = q.id]
  BY DEF Made, Successor, Transition, Installing
<1>4. q.id \in Op
  BY ReqFields
<1>6. /\ r \in Record /\ r.cur = e.cur /\ r.fence = e.fence /\ r.last = q.id /\ r.phase = "released"
  BY ZenonT(60), <1>2, <1>4, Constants DEF Record, Phase
<1>7. e.phase # "released"
  BY <1>1 DEF MayRelease
<1> QED
  BY <1>6, <1>7

(* Every request makes a strictly later record, and one that keeps what *)
(* its predecessor kept. *)
LEMMA MadeLater ==
    ASSUME NEW m \in Message, MessageOk(m), NEW r, Made(r, m)
    PROVE  /\ r \in Record /\ Later(r, m.req.expected) /\ Follows(r, m.req.expected)
           /\ r.last = m.req.id /\ r # Initial.rec
<1> PICK q \in Request : q = m.req
  BY MessageFields
<1> PICK e \in Record : e = q.expected
  BY ReqFields
<1>0. e.fence \in Nat /\ e.cur.gen \in Int /\ e.phase \in Phase /\ Rank(e.phase) \in 0..2 /\ e.cur.epoch \in Int
  BY RecFields, DescAny, RankOf
<1>1. CASE q.action \in Installing
  <2>1. r \in Record /\ r.cur = e.cur /\ r.fence = e.fence + 1 /\ r.last = q.id
    BY <1>1, MadeInstall
  <2>2. Later(r, e) /\ NotEarlier(r, e)
    BY <1>0, <2>1 DEF Later, NotEarlier
  <2>3. Keeps(r, e)
    BY <1>0, <2>1 DEF Keeps
  <2> QED
    BY <2>1, <2>2, <2>3, ReqFields, InitialRec, Constants DEF Follows
<1>2. CASE q.action = "activate"
  <2>1. r \in Record /\ r.fence = e.fence /\ r.last = q.id /\ Keeps(r, e) /\ r.phase = "active"
        /\ e.phase \in {"claimed", "restore"}
    BY <1>2, MadeActivate
  <2>2. Rank(r.phase) = 1 /\ Rank(e.phase) = 0
    BY <2>1 DEF Rank
  <2>3. Later(r, e) /\ NotEarlier(r, e)
    BY <1>0, <2>1, <2>2 DEF Later, NotEarlier
  <2> QED
    BY <2>1, <2>3, ReqFields, InitialRec, Constants DEF Follows
<1>3. CASE q.action = "advance"
  <2>1. r \in Record /\ r.fence = e.fence /\ r.last = q.id /\ Keeps(r, e) /\ r.phase = "active"
        /\ e.phase = "active" /\ r.cur.gen = e.cur.gen + 1
    BY <1>3, MadeAdvance
  <2>3. Later(r, e) /\ NotEarlier(r, e)
    BY <1>0, <2>1 DEF Later, NotEarlier
  <2> QED
    BY <2>1, <2>3, ReqFields, InitialRec, Constants DEF Follows
<1>4. CASE q.action = "release"
  BY <1>4, MadeRelease, <1>0, ReqFields, InitialRec, Constants DEF Rank, Later, NotEarlier, Keeps, Follows
<1> QED
  BY <1>1, <1>2, <1>3, <1>4, ReqFields, Verbs DEF Installing

(* CanonicalState::apply: a replay leaves the state that answered it, a *)
(* new request a state that it made of the record it expects. *)
LEMMA ApplyMakes ==
    ASSUME NEW st \in State, Valid(st.rec), st.rec # Initial.rec => st.req \in Message /\ Made(st.rec, st.req),
           NEW m \in Message, MessageOk(m), NEW x \in Apply(st, m.role, m.req)
    PROVE  /\ x \in State /\ Valid(x.rec) /\ Made(x.rec, m) /\ x.req = m
           /\ x # st => m.req.expected = st.rec
<1> PICK q \in Request : q = m.req
  BY MessageFields
<1>1. CASE Replays(st, m.role, q)
  BY <1>1, MessageFields, InitialRec, ReqFields, Constants DEF Apply, Replays
<1>2. CASE ~Replays(st, m.role, q)
  BY <1>2, MessageFields, MadeLater, ReqFields DEF Apply, Accepts, Expects, Applied, Made, State
<1> QED
  BY <1>1, <1>2

(* A state of the authority after a step: one it had, or one made by a *)
(* request that expects what it serves. It answers only with the record it *)
(* then serves for good. *)
Stored(A, N, now, st) ==
    \/ st \in A
    \/ st \in State /\ Valid(st.rec) /\ \E m \in N : st.req = m /\ Made(st.rec, m) /\ m.req.expected = now.rec

Delivered ==
    \E h \in Host, m \in net :
       /\ Own(host[h], m) /\ host[h].pc \in Waiting /\ host[h].ans = NoAnswer
       /\ Made(au'.now.rec, m) /\ au'.may = {au'.now}
       /\ host' = [host EXCEPT ![h].ans = Answer("ok", au'.now.rec)]

(* A step of the authority. *)
AuthorityMove ==
    /\ au' \in Authorities /\ au'.kind = au.kind
    /\ au'.now \in au'.may /\ (~au'.bad => au'.may = {au'.now}) /\ (au'.kind = "etcd" => ~au'.bad)
    /\ \A st \in au'.may : Stored(au.may, net, au.now, st)
    /\ host' = host \/ Delivered
    /\ UNCHANGED <<net, dir, marker, guard, backup, acked, granted>>
    /\ used' \in Budget /\ used'.flows = used.flows
    /\ \A f \in Frontend : fe'[f] # Idle => fe'[f].msg \in net /\ au.kind = "etcd"

(* The fields of the authority. *)
LEMMA AuFields ==
    ASSUME Types, Served
    PROVE  /\ au.kind \in {"file", "etcd"} /\ au.bad \in BOOLEAN /\ au.now \in State /\ au.may \subseteq State
           /\ au \in Authorities /\ au.now \in au.may
           /\ \A st \in au.may : /\ st \in State /\ Valid(st.rec) /\ st.rec \in Record
                                 /\ st.rec # Initial.rec => st.req \in Message /\ Made(st.rec, st.req)
  BY DEF Types, Authorities, Served, State

(* A budget that is spent is still a budget. *)
LEMMA Spending ==
    ASSUME Types, NEW k \in {"publish", "process", "commit"}, Spend(k)
    PROVE  used' \in Budget /\ used'.flows = used.flows
  BY DEF Types, Spend, Budget

(* And so is one that is not. *)
LEMMA SpendingNothing ==
    ASSUME Types, SpendNothing
    PROVE  used' \in Budget /\ used'.flows = used.flows
  BY DEF Types, SpendNothing

(* What is known of a request that was sent. *)
LEMMA NetFields ==
    ASSUME Types, Asked, NEW m \in net
    PROVE  /\ m \in Message /\ MessageOk(m) /\ m.req \in Request /\ m.req.id \in Op /\ m.req.expected \in Record
           /\ m.role \in Role
  BY MessageFields, ReqFields DEF Types, Asked

(* A delivered answer goes to the process whose request it answers, or to *)
(* nobody. *)
LEMMA Delivers ==
    ASSUME Types, Asked, NEW m \in net, NEW st, au'.now = st, au'.may = {st}, Made(st.rec, m),
           Deliver(m, Answer("ok", st.rec))
    PROVE  host' = host \/ Delivered
<1>1. CASE UNCHANGED host
  BY <1>1
<1>2. CASE ~UNCHANGED host
  BY <1>2 DEF Deliver, Delivered, Own
<1> QED
  BY <1>1, <1>2

(* StateStore::handle and EtcdStore::handle. *)
LEMMA HandleMoves ==
    ASSUME Types, Served, Asked, NEW m \in net, Handle(m)
    PROVE  AuthorityMove
<1> USE AuFields
<1>1. m \in Message /\ MessageOk(m)
  BY NetFields
<1>0. /\ ~au.bad /\ au.may = {au.now} /\ UNCHANGED <<fe, net, dir, marker, guard, backup, acked, granted>>
      /\ used' \in Budget /\ used'.flows = used.flows
  BY SpendingNothing DEF Handle, Served
<1>3. \A f \in Frontend : fe'[f] # Idle => fe'[f].msg \in net /\ au.kind = "etcd"
  BY <1>0 DEF Types
<1>4. CASE Apply(au.now, m.role, m.req) = {}
  BY <1>4, <1>0, <1>3 DEF Handle, Answers, AuthorityMove, Served, Stored
<1>5. CASE Apply(au.now, m.role, m.req) # {}
  <2>1. PICK st : st = CHOOSE x \in Apply(au.now, m.role, m.req) : TRUE
    OBVIOUS
  <2>2. Apply(au.now, m.role, m.req) = {st}
    BY <2>1, <1>5 DEF Apply
  <2>3. /\ st \in State /\ Valid(st.rec) /\ Made(st.rec, m) /\ st.req = m
        /\ st # au.now => m.req.expected = au.now.rec
    BY <1>1, <2>2, ApplyMakes
  <2>4. au' = IF st = au.now THEN au ELSE [au EXCEPT !.now = st, !.may = {st}]
    BY <1>5, <2>1 DEF Handle
  <2>5. au' \in Authorities /\ au'.now = st /\ au'.may = {st} /\ au'.bad = FALSE /\ au'.kind = au.kind
    BY <1>0, <2>3, <2>4 DEF Authorities
  <2>6. Deliver(m, Answer("ok", st.rec))
    BY <1>5, <2>2 DEF Handle, Answers
  <2>7. host' = host \/ Delivered
    BY <2>3, <2>5, <2>6, Delivers
  <2>8. Stored(au.may, net, au.now, st)
    BY <2>3 DEF Stored, Served
  <2> QED
    BY <1>0, <1>3, <2>5, <2>7, <2>8 DEF AuthorityMove
<1> QED
  BY <1>4, <1>5

(* A publication that fails: the old state and the new one may both come *)
(* back. *)
LEMMA HandleFailsMoves ==
    ASSUME Types, Served, Asked, NEW m \in net, HandleFails(m)
    PROVE  AuthorityMove
<1> USE AuFields
<1>1. m \in Message /\ MessageOk(m)
  BY NetFields
<1>0. /\ ~au.bad /\ au.may = {au.now} /\ UNCHANGED <<fe, net, dir, marker, guard, host, backup, acked, granted>>
      /\ used' \in Budget /\ used'.flows = used.flows /\ au.kind = "file"
  BY Spending DEF HandleFails, Served
<1>2. PICK st \in Apply(au.now, m.role, m.req) \ {au.now} : \E seen \in {au.now, st} :
        au' = [au EXCEPT !.bad = TRUE, !.now = seen, !.may = @ \cup {st}]
  BY DEF HandleFails
<1>3. PICK seen \in {au.now, st} : au' = [au EXCEPT !.bad = TRUE, !.now = seen, !.may = @ \cup {st}]
  BY <1>2
<1>4. /\ st \in State /\ Valid(st.rec) /\ Made(st.rec, m) /\ st.req = m /\ m.req.expected = au.now.rec
  BY <1>1, <1>2, ApplyMakes
<1>5. /\ au' \in Authorities /\ au'.now = seen /\ au'.may = {au.now, st} /\ au'.bad = TRUE /\ au'.kind = au.kind
  BY <1>0, <1>3, <1>4 DEF Authorities
<1>6. Stored(au.may, net, au.now, st) /\ Stored(au.may, net, au.now, au.now)
  BY <1>4 DEF Stored
<1> QED
  BY <1>0, <1>5, <1>6 DEF AuthorityMove, Types

(* open_backing after a poisoned handle. *)
LEMMA RestartMoves ==
    ASSUME Types, Served, Asked, AuthorityRestarts
    PROVE  AuthorityMove
<1> USE AuFields
<1>0. /\ UNCHANGED <<fe, net, dir, marker, guard, host, backup, acked, granted>>
      /\ used' \in Budget /\ used'.flows = used.flows
  BY SpendingNothing DEF AuthorityRestarts
<1>1. PICK st \in au.may : au' = [au EXCEPT !.bad = FALSE, !.now = st, !.may = {st}]
  BY DEF AuthorityRestarts, Republished
<1>2. au' \in Authorities /\ au'.now = st /\ au'.may = {st} /\ au'.bad = FALSE /\ au'.kind = au.kind
  BY <1>1 DEF Authorities
<1>3. Stored(au.may, net, au.now, st)
  BY <1>1 DEF Stored
<1> QED
  BY <1>0, <1>2, <1>3 DEF AuthorityMove, Types

(* A frontend's load changes nothing the invariant speaks of but the *)
(* frontend. *)
LEMMA LoadMoves ==
    ASSUME Types, Served, Asked, NEW m \in net, NEW f \in Frontend, Load(f, m)
    PROVE  AuthorityMove
<1> USE AuFields
<1>0. /\ UNCHANGED <<au, net, dir, marker, guard, host, backup, acked, granted>> /\ au.kind = "etcd"
      /\ used' \in Budget /\ used'.flows = used.flows
      /\ fe' = [fe EXCEPT ![f] = [msg |-> m, snap |-> au.now]]
  BY Spending DEF Load
<1>1. \A g \in Frontend : fe'[g] # Idle => fe'[g].msg \in net /\ au.kind = "etcd"
  BY <1>0 DEF Types
<1> QED
  BY <1>0, <1>1 DEF AuthorityMove, Served, Stored

(* A frontend's transaction: it commits on the value it loaded, or answers *)
(* from what it observes. *)
LEMMA CommitMoves ==
    ASSUME Types, Served, Asked, NEW f \in Frontend, Commit(f)
    PROVE  AuthorityMove
<1> USE AuFields
<1>0. /\ UNCHANGED <<net, dir, marker, guard, backup, acked, granted>>
      /\ used' \in Budget /\ used'.flows = used.flows
      /\ fe[f] # Idle /\ fe' = [fe EXCEPT ![f] = Idle]
  BY SpendingNothing DEF Commit
<1>1. PICK m \in net : m = fe[f].msg
  BY <1>0 DEF Types
<1>2. m \in Message /\ MessageOk(m)
  BY NetFields
<1>3. au.kind = "etcd" /\ ~au.bad /\ au.may = {au.now}
  BY <1>0 DEF Types, Served
<1>4. \A g \in Frontend : fe'[g] # Idle => fe'[g].msg \in net /\ au.kind = "etcd"
  BY <1>0, <1>3 DEF Types
<1>5. CASE Compares(fe[f].snap)
  <2>1. PICK st \in Apply(au.now, m.role, m.req) :
          au' = [au EXCEPT !.now = st, !.may = {st}] /\ Deliver(m, Answer("ok", st.rec))
    BY <1>1, <1>5 DEF Commit, Compares
  <2>2. /\ st \in State /\ Valid(st.rec) /\ Made(st.rec, m) /\ st.req = m
        /\ st # au.now => m.req.expected = au.now.rec
    BY <1>2, <2>1, ApplyMakes
  <2>3. au' \in Authorities /\ au'.now = st /\ au'.may = {st} /\ au'.bad = FALSE /\ au'.kind = au.kind
    BY <1>3, <2>1, <2>2 DEF Authorities
  <2>4. host' = host \/ Delivered
    BY <2>1, <2>2, <2>3, Delivers
  <2>5. Stored(au.may, net, au.now, st)
    BY <2>2 DEF Stored, Served
  <2> QED
    BY <1>0, <1>4, <2>3, <2>4, <2>5 DEF AuthorityMove
<1>6. CASE ~Compares(fe[f].snap)
  <2>1. au' = au /\ Answers(m, Apply(au.now, m.role, m.req) \cap {au.now})
    BY <1>1, <1>6 DEF Commit
  <2>2. host' = host \/ Delivered
    <3>1. CASE Apply(au.now, m.role, m.req) \cap {au.now} = {}
      BY <2>1, <3>1 DEF Answers
    <3>2. CASE Apply(au.now, m.role, m.req) \cap {au.now} # {}
      BY <2>1, <3>2, <1>2, ApplyMakes, <1>3, Delivers DEF Answers
    <3> QED
      BY <3>1, <3>2
  <2> QED
    BY <1>0, <1>3, <1>4, <2>1, <2>2 DEF AuthorityMove, Stored
<1> QED
  BY <1>5, <1>6

(* What is later than a record that follows is not the one followed. *)
LEMMA LaterThan ==
    ASSUME NEW a \in Record, NEW b \in Record, NEW c \in Record, Follows(b, a), Later(c, b)
    PROVE  c # a
  BY RecFields, DescAny, RankOf DEF Follows, Later, NotEarlier

(* Fences do not fall. *)
LEMMA FenceFollows ==
    ASSUME NEW a \in Record, NEW b \in Record, Follows(b, a)
    PROVE  a.fence <= b.fence
  BY RecFields DEF Follows, NotEarlier

(* The fields of a process. *)
LEMMA HostFields ==
    ASSUME NEW s \in HostRec
    PROVE  /\ s.pc \in PC /\ s.kind \in ClaimKind \cup {"none", "gc"} /\ s.flow \in 0..MaxFlows
           /\ s.step \in 0..(MaxGeneration + 3) /\ s.rec \in Record
           /\ s.desc \in Descriptor \cup {NoDescriptor} /\ s.slot \in 0..2
           /\ s.ans \in Tell /\ s.ans.tag \in {"none", "ok"} /\ s.ans.rec \in Record
           /\ s.gc \in Record /\ s.target \in Namespace \cup {NoNamespace}
  BY DEF HostRec, Tell

(* A process with an answer. *)
WithAnswer(s, r) == [s EXCEPT !.ans = Answer("ok", r)]

(* An answer changes nothing else of a process. *)
LEMMA AnswersOnly ==
    ASSUME NEW s \in HostRec, NEW r \in Record, NEW t, t = WithAnswer(s, r)
    PROVE  /\ t \in HostRec /\ t.pc = s.pc /\ t.kind = s.kind /\ t.flow = s.flow /\ t.step = s.step
           /\ t.rec = s.rec /\ t.desc = s.desc /\ t.slot = s.slot /\ t.gc = s.gc /\ t.target = s.target
           /\ t.ans.tag = "ok" /\ t.ans.rec = r
  BY DEF HostRec, Tell, Answer, WithAnswer

(* What a step of the authority does to the states it may come back with: *)
(* each follows the one served before. *)
LEMMA StoredStates ==
    ASSUME Types, Served, Asked, AuthorityMove, NEW st \in au'.may
    PROVE  /\ st \in State /\ st.rec \in Record /\ Valid(st.rec)
           /\ st.rec # Initial.rec => st.req \in Message /\ Made(st.rec, st.req)
           /\ \/ st \in au.may
              \/ \E m \in net : /\ Made(st.rec, m) /\ m.req.expected = au.now.rec
                                /\ Later(st.rec, au.now.rec) /\ Follows(st.rec, au.now.rec)
           /\ \E x \in au.may : Follows(st.rec, x.rec)
<1>0. Stored(au.may, net, au.now, st)
  BY DEF AuthorityMove
<1>1. CASE st \in au.may
  BY <1>1, AuFields, FollowsSelf
<1>2. CASE st \notin au.may
  BY <1>0, <1>2, NetFields, MadeLater, AuFields DEF Stored
<1> QED
  BY <1>1, <1>2

(* And to the processes: at most one gets an answer, to its own request, *)
(* with a record all states follow. *)
LEMMA MovedHost ==
    ASSUME Types, Served, Asked, AuthorityMove, NEW h \in Host
    PROVE  /\ host[h] \in HostRec /\ host'[h] \in HostRec
           /\ \/ host'[h] = host[h]
              \/ /\ host'[h] = WithAnswer(host[h], au'.now.rec)
                 /\ host[h].pc \in Waiting /\ au'.may = {au'.now} /\ au'.now.rec \in Record
                 /\ \E m \in net : Own(host[h], m) /\ Made(au'.now.rec, m)
<1>0. host \in [Host -> HostRec] /\ host[h] \in HostRec
  BY DEF Types
<1>1. CASE host' = host
  BY <1>0, <1>1
<1>2. CASE Delivered
  <2>1. PICK g \in Host, m \in net :
       /\ Own(host[g], m) /\ host[g].pc \in Waiting /\ host[g].ans = NoAnswer
       /\ Made(au'.now.rec, m) /\ au'.may = {au'.now}
       /\ host' = [host EXCEPT ![g].ans = Answer("ok", au'.now.rec)]
    BY <1>2 DEF Delivered
  <2>2. au'.now.rec \in Record
    BY StoredStates DEF AuthorityMove
  <2>3. CASE g = h
    BY <1>0, <2>1, <2>3, <2>2, AnswersOnly DEF WithAnswer
  <2>4. CASE g # h
    BY <1>0, <2>1, <2>4
  <2> QED
    BY <2>3, <2>4
<1> QED
  BY <1>1, <1>2 DEF AuthorityMove

(* A step of the authority keeps the types and what is known of states and *)
(* requests. *)
LEMMA MoveTypes ==
    ASSUME Types, Served, Asked, AuthorityMove
    PROVE  Types' /\ Served' /\ Asked'
<1>1. host' \in [Host -> HostRec]
  BY MovedHost DEF AuthorityMove, Types, Delivered
<1>2. Types'
  BY <1>1 DEF Types, AuthorityMove
<1>3. Served'
  BY StoredStates DEF Served, AuthorityMove
<1>4. Asked'
  BY DEF Asked, AuthorityMove
<1> QED
  BY <1>2, <1>3, <1>4

(* It keeps what anybody was told: a new state follows the one it was made *)
(* of, an old one is unchanged. *)
LEMMA MoveTold ==
    ASSUME Types, Served, Asked, Told, AuthorityMove
    PROVE  Told'
<1> SUFFICES ASSUME NEW st \in au'.may
             PROVE  /\ granted <= st.rec.fence
                    /\ \A a \in acked : Covers(st.rec, a)
                    /\ \A m \in net : Follows(st.rec, m.req.expected)
                    /\ \A h \in Host : ToldTo(host'[h], st.rec)
  BY DEF Told, AuthorityMove
<1>1. PICK x \in au.may : Follows(st.rec, x.rec)
  BY StoredStates
<1>2. st.rec \in Record /\ x.rec \in Record
  BY StoredStates, AuFields
<1>3. granted <= st.rec.fence
  BY <1>1, <1>2, FenceFollows, RecFields DEF Types, Told
<1>4. ASSUME NEW a \in acked PROVE Covers(st.rec, a)
  BY <1>1, <1>2, CoversOn DEF Types, Told
<1>5. ASSUME NEW m \in net PROVE Follows(st.rec, m.req.expected)
  BY NetFields, <1>1, <1>2, FollowsOn DEF Told
<1>6. ASSUME NEW h \in Host PROVE ToldTo(host'[h], st.rec)
  <2>1. host[h] \in HostRec /\ ToldTo(host[h], x.rec)
    BY MovedHost DEF Told
  <2>2. host[h].rec \in Record /\ host[h].ans.rec \in Record /\ host[h].gc.fence \in Nat
    BY <2>1, HostFields, RecFields
  <2>3. ToldTo(host[h], st.rec)
    BY <1>1, <1>2, FenceFollows, RecFields, <2>1, <2>2, FollowsOn DEF ToldTo
  <2>4. CASE host'[h] = host[h]
    BY <2>3, <2>4
  <2>5. CASE host'[h] # host[h]
    BY <2>5, MovedHost, <2>1, AnswersOnly, <2>3, FollowsSelf DEF ToldTo
  <2> QED
    BY <2>4, <2>5
<1> QED
  BY <1>3, <1>4, <1>5, <1>6

(* It keeps the processes' places, requests and answers. *)
LEMMA MoveHosts ==
    ASSUME Types, Served, Asked, Hosts, AuthorityMove
    PROVE  Hosts'
<1>0. net' = net /\ backup' = backup /\ used'.flows = used.flows
  BY DEF AuthorityMove
<1>1. ASSUME NEW h \in Host
      PROVE  /\ PlaceOf(host'[h], used.flows, backup) /\ SentOf(host'[h], net) /\ AnswerOf(host'[h], net)
             /\ host'[h].pc = host[h].pc /\ host'[h].flow = host[h].flow
  <2>1. PlaceOf(host[h], used.flows, backup) /\ SentOf(host[h], net) /\ AnswerOf(host[h], net)
    BY DEF Hosts
  <2>2. CASE host'[h] = host[h]
    BY <2>1, <2>2
  <2>3. CASE host'[h] # host[h]
    <3>1. PICK s \in HostRec : s = host[h]
      BY MovedHost
    <3>2. PICK r \in Record : r = au'.now.rec
      BY <2>3, MovedHost
    <3>3. PICK t : t = host'[h]
      OBVIOUS
    <3>4. t = WithAnswer(s, r) /\ s.pc \in Waiting /\ \E m \in net : Own(s, m) /\ Made(r, m)
      BY <2>3, MovedHost, <3>1, <3>2, <3>3
    <3>5. /\ t \in HostRec /\ t.pc = s.pc /\ t.kind = s.kind /\ t.flow = s.flow /\ t.step = s.step
          /\ t.rec = s.rec /\ t.desc = s.desc /\ t.slot = s.slot /\ t.gc = s.gc /\ t.target = s.target
          /\ t.ans.tag = "ok" /\ t.ans.rec = r
      BY <3>4, AnswersOnly
    <3>6. t.pc # "idle"
      BY <3>4, <3>5 DEF Waiting
    <3>7. PlaceOf(t, used.flows, backup)
      BY <2>1, <3>1, <3>5, <3>6 DEF PlaceOf, Live, InVolume, Unsure
    <3>8. SentOf(t, net)
      BY <2>1, <3>1, <3>5, <3>6 DEF SentOf, InVolume, Unsure, Own, Asks
    <3>9. AnswerOf(t, net)
      BY <3>2, StoredStates, <3>4, <3>5 DEF AuthorityMove, AnswerOf, Own
    <3> QED
      BY <3>1, <3>3, <3>5, <3>7, <3>8, <3>9
  <2> QED
    BY <2>2, <2>3
<1> QED
  BY <1>0, <1>1 DEF Hosts

(* Sessions of two flows differ. *)
LEMMA FirstOfPair ==
    ASSUME NEW a, NEW b, <<a, 1>> = <<b, 1>>
    PROVE  a = b
  OBVIOUS

(* A new state of the authority leaves a settled session's manifest alone: *)
(* an activation of the same namespace would be of an earlier phase, an *)
(* advance of an earlier generation. *)
LEMMA SettledOn ==
    ASSUME NEW m \in Message, MessageOk(m), NEW r, Made(r, m),
           NEW rec \in Record, rec.phase = "active", rec.cur.ns = Claimed(rec),
           Follows(m.req.expected, rec),
           m.req.expected.cur.ns = rec.cur.ns => m.req.expected.cur.root = rec.cur.root,
           m.req.action = "advance" /\ m.req.expected.session = rec.session =>
              m.req.expected.cur.gen < rec.cur.gen,
           r.cur.ns = rec.cur.ns
    PROVE  r.cur.root = rec.cur.root
<1> PICK q \in Request : q = m.req
  BY MessageFields
<1> PICK e \in Record : e = q.expected
  BY ReqFields
<1>0. /\ e.fence \in Nat /\ rec.fence \in Nat /\ e.cur.gen \in Int /\ rec.cur.gen \in Int /\ e.phase \in Phase
  BY RecFields, DescAny
<1>1. CASE q.action \in Installing
  BY <1>1, MadeInstall
<1>2. CASE q.action = "release"
  BY <1>2, MadeRelease
<1>3. CASE q.action = "activate"
  <2>1. r.cur.ns = Claimed(e) /\ e.phase \in {"claimed", "restore"}
    BY <1>3, MadeActivate
  <2>2. e.fence = rec.fence
    BY <2>1 DEF Claimed
  <2>3. Rank(e.phase) = 0 /\ Rank(rec.phase) = 1
    BY <2>1 DEF Rank
  <2> QED
    BY <1>0, <2>2, <2>3 DEF Follows, NotEarlier
<1>4. CASE q.action = "advance"
  <2>1. r.cur.ns = Claimed(e) /\ e.phase = "active"
    BY <1>4, MadeAdvance
  <2>2. e.fence = rec.fence /\ e.session = rec.session
    BY <2>1 DEF Claimed
  <2>3. e.cur.gen < rec.cur.gen
    BY <1>4, <2>2
  <2>4. Rank(e.phase) = 1 /\ Rank(rec.phase) = 1
    BY <2>1 DEF Rank
  <2> QED
    BY <1>0, <2>2, <2>3, <2>4 DEF Follows, NotEarlier
<1> QED
  BY <1>1, <1>2, <1>3, <1>4, ReqFields, Verbs DEF Installing

(* The record of an activated session names its own namespace. *)
LEMMA OwnSpace ==
    ASSUME NEW rec \in Record, Valid(rec), rec.phase = "active"
    PROVE  rec.cur \in Descriptor /\ rec.cur.ns = Claimed(rec) /\ rec.fence > 0
  BY InitialRec, RecFields DEF Valid

(* What an answered activation or advance says. *)
LEMMA SessionAnswer ==
    ASSUME Types, Asked, NEW s \in HostRec, PlaceOf(s, used.flows, backup), SentOf(s, net), AnswerOf(s, net),
           s.pc \in {"activate", "advance"}, s.ans.tag = "ok"
    PROVE  /\ s.ans.rec \in Record /\ Valid(s.ans.rec) /\ s.ans.rec.phase = "active"
           /\ s.ans.rec.cur \in Descriptor
           /\ s.ans.rec.cur.ns = Claimed(s.ans.rec) /\ s.ans.rec.session = <<s.flow, 1>>
           /\ s.ans.rec.fence = s.rec.fence
           /\ s.pc = "activate" => s.ans.rec.cur = s.desc
           /\ s.pc = "advance" => /\ s.ans.rec.cur.gen = s.desc.gen + 1
                                  /\ s.ans.rec.cur.ns = s.desc.ns /\ s.ans.rec.cur.epoch = s.desc.epoch
                                  /\ <<s.flow, s.step>> \in s.ans.rec.cur.root.data
                                  /\ \E m \in net : Own(s, m) /\ s.ans.rec.cur.root = m.req.desc.root
           /\ \A m \in net : m.req.action = "advance" /\ m.req.expected.session = s.ans.rec.session =>
                 m.req.expected.cur.gen < s.ans.rec.cur.gen
<1>1. s.ans.rec \in Record /\ s.rec \in Record /\ s.pc \in Waiting /\ s.flow \in Nat
      /\ s.desc \in Descriptor \cup {NoDescriptor}
  BY HostFields DEF Waiting
<1>2. Valid(s.ans.rec) /\ \E m \in net : Own(s, m) /\ Made(s.ans.rec, m)
  BY <1>1 DEF AnswerOf
<1>3. PICK m \in net : Own(s, m) /\ Made(s.ans.rec, m)
  BY <1>2
<1>4. m \in Message /\ MessageOk(m)
  BY NetFields
<1>5. /\ m.req.expected = s.rec /\ m.req.action = s.pc
      /\ s.pc = "activate" => m.req.desc = s.desc
      /\ s.pc = "advance" => m.req.desc.gen = s.desc.gen + 1
  BY <1>1, <1>3 DEF SentOf, Asks
<1>6. Live(s) /\ s.rec.session = <<s.flow, 1>> /\ s.desc \in Descriptor
  BY DEF PlaceOf, Live, InVolume, InSession
<1>7. s.ans.rec.phase = "active" /\ s.ans.rec.session = <<s.flow, 1>> /\ s.ans.rec.fence = s.rec.fence
  BY <1>3, <1>4, <1>5, <1>6, MadeActivate, MadeAdvance
<1>8. s.ans.rec.cur \in Descriptor /\ s.ans.rec.cur.ns = Claimed(s.ans.rec)
  BY <1>1, <1>2, <1>7, OwnSpace
<1>9. s.pc = "activate" => s.ans.rec.cur = s.desc
  BY <1>3, <1>4, <1>5, MadeActivate
<1>10. ASSUME s.pc = "advance"
       PROVE  /\ s.ans.rec.cur.gen = s.desc.gen + 1
              /\ s.ans.rec.cur.ns = s.desc.ns /\ s.ans.rec.cur.epoch = s.desc.epoch
              /\ <<s.flow, s.step>> \in s.ans.rec.cur.root.data
              /\ s.ans.rec.cur.root = m.req.desc.root
  <2>1. InVolume(s) /\ s.rec.cur = s.desc
    BY <1>10 DEF PlaceOf, InVolume, InSession
  <2>2. /\ s.ans.rec.cur.gen = m.req.desc.gen /\ s.ans.rec.cur.root = m.req.desc.root
        /\ s.ans.rec.cur.epoch = s.rec.cur.epoch /\ s.ans.rec.cur.ns = s.rec.cur.ns
    BY <1>3, <1>4, <1>5, <1>10, MadeAdvance
  <2>3. m.req.id \in m.req.desc.root.data /\ m.req.id = <<s.flow, s.step>>
    BY <1>3, <1>4, <1>5, <1>10 DEF MessageOk, Own
  <2> QED
    BY <1>5, <1>10, <2>1, <2>2, <2>3
<1>11. ASSUME NEW n \in net, n.req.action = "advance", n.req.expected.session = s.ans.rec.session
       PROVE  n.req.expected.cur.gen < s.ans.rec.cur.gen
  <2>1. /\ n.req.expected.session = <<n.req.id[1], 1>> /\ n.req.id[2] >= 3 /\ n.req.id \in Op
        /\ n.req.expected.cur.gen \in Int
    BY <1>11, NetFields, RecFields, DescAny DEF MessageOk
  <2>a. n.req.id[1] = s.flow
    BY <1>11, <2>1, <1>7, FirstOfPair
  <2>b. n.req.id[2] \in Nat
    BY <2>1, OpPair, Constants
  <2>2. n.req.id[1] = s.flow /\ n.req.id[2] \in Nat
    BY <2>a, <2>b
  <2>3. n.req.id[2] <= s.step /\ s.step \in Nat
    BY <2>2, HostFields DEF SentOf
  <2>4. s.pc = "advance"
    BY <2>1, <2>2, <2>3 DEF PlaceOf
  <2>5. n.req.expected.cur.gen <= s.desc.gen
    BY <1>11, <2>2, <2>4 DEF SentOf, InVolume, InSession, PlaceOf
  <2>6. s.desc.gen \in Int /\ s.ans.rec.cur.gen = s.desc.gen + 1
    BY <1>10, <2>4, <1>6, DescFields
  <2> QED
    BY <2>1, <2>5, <2>6
<1> QED
  BY <1>1, <1>2, <1>3, <1>7, <1>8, <1>9, <1>10, <1>11

(* What a session that is not in doubt knows; any advance of it still *)
(* travelling is of an earlier generation. *)
LEMMA SettledSession ==
    ASSUME Types, Asked, NEW s \in HostRec, PlaceOf(s, used.flows, backup), SentOf(s, net),
           InVolume(s), ~Unsure(s)
    PROVE  /\ s.rec \in Record /\ s.rec.phase = "active" /\ s.rec.cur.ns = Claimed(s.rec) /\ s.rec.cur = s.desc
           /\ s.desc \in Descriptor /\ s.kind # "gc"
           /\ \A m \in net : m.req.action = "advance" /\ m.req.expected.session = s.rec.session =>
                 m.req.expected.cur.gen < s.rec.cur.gen
<1>1. s.rec \in Record /\ s.rec.cur = s.desc /\ s.rec.phase = "active" /\ Valid(s.rec)
      /\ s.rec.session = <<s.flow, 1>> /\ s.kind # "gc" /\ s.flow \in Nat
  BY HostFields DEF PlaceOf, Live, InVolume
<1>2. s.rec.cur \in Descriptor /\ s.rec.cur.ns = Claimed(s.rec)
  BY <1>1, OwnSpace
<1>3. ASSUME NEW n \in net, n.req.action = "advance", n.req.expected.session = s.rec.session
      PROVE  n.req.expected.cur.gen < s.rec.cur.gen
  BY <1>3, NetFields, <1>1, FirstOfPair DEF MessageOk, SentOf
<1> QED
  BY <1>1, <1>2, <1>3

(* A new state's current generation was already on the root. *)
LEMMA MoveCurrent ==
    ASSUME Types, Served, Asked, CurrentHeld, Pending, AuthorityMove
    PROVE  CurrentHeld'
<1>0. dir' = dir
  BY DEF AuthorityMove
<1> SUFFICES ASSUME NEW st \in au'.may, st.rec.cur # NoDescriptor
             PROVE  Holds(dir, st.rec.cur.ns, st.rec.cur.root)
  BY <1>0 DEF CurrentHeld
<1>1. CASE st \in au.may
  BY <1>1 DEF CurrentHeld
<1>2. CASE st \notin au.may
  <2>1. PICK m \in net : Made(st.rec, m) /\ m.req.expected = au.now.rec
    BY <1>2, StoredStates
  <2>2. m \in Message /\ MessageOk(m) /\ m.req \in Request
    BY NetFields
  <2>3. au.now \in au.may
    BY AuFields
  <2>4. PendingOf(m, au.now, dir)
    BY <2>3 DEF Pending
  <2>5. CASE m.req.action \in Installing
    BY <2>1, <2>2, <2>5, MadeInstall, <2>3 DEF CurrentHeld
  <2>6. CASE m.req.action = "release"
    BY <2>1, <2>2, <2>6, MadeRelease, <2>3 DEF CurrentHeld
  <2>7. CASE m.req.action = "activate"
    BY <2>1, <2>2, <2>7, MadeActivate, <2>4 DEF PendingOf
  <2>8. CASE m.req.action = "advance"
    BY <2>1, <2>2, <2>8, MadeAdvance, <2>4 DEF PendingOf
  <2> QED
    BY <2>2, <2>5, <2>6, <2>7, <2>8, ReqFields, Verbs DEF Installing
<1> QED
  BY <1>1, <1>2

(* The requests that a new state may still accept were pending before: *)
(* their expected record was the served one, or none is left. *)
LEMMA MovePending ==
    ASSUME Types, Served, Asked, Told, Pending, AuthorityMove
    PROVE  Pending'
<1>0. dir' = dir /\ net' = net
  BY DEF AuthorityMove
<1> SUFFICES ASSUME NEW m \in net, NEW st \in au'.may
             PROVE  PendingOf(m, st, dir)
  BY <1>0 DEF Pending
<1>1. CASE st \in au.may
  BY <1>1 DEF Pending
<1>2. CASE st \notin au.may
  BY <1>2, StoredStates, AuFields, NetFields, LaterThan DEF Told, PendingOf
<1> QED
  BY <1>1, <1>2

(* A step of the authority leaves the root alone. *)
LEMMA MoveSpaces ==
    ASSUME Types, Served, Asked, Spaces, AuthorityMove
    PROVE  Spaces'
<1>0. dir' = dir /\ net' = net
  BY DEF AuthorityMove
<1> SUFFICES ASSUME NEW h \in Host PROVE HeldBy(h, host'[h], net, dir)
  BY <1>0 DEF Spaces
<1>1. HeldBy(h, host[h], net, dir)
  BY DEF Spaces
<1>2. CASE host'[h] = host[h]
  BY <1>1, <1>2
<1>3. CASE host'[h] # host[h]
  BY MovedHost, <1>3, AnswersOnly, <1>1 DEF HeldBy, Live, InVolume, Own, OtherSlot
<1> QED
  BY <1>2, <1>3

(* A new state leaves settled sessions settled and names no namespace *)
(* about to be retired. *)
LEMMA MoveSettles ==
    ASSUME Types, Served, Asked, Told, Hosts, Settles, AuthorityMove
    PROVE  Settles'
<1> SUFFICES ASSUME NEW h \in Host PROVE SettledFor(host'[h], au'.may)
  BY DEF Settles
<1>1. PICK s \in HostRec : s = host[h]
  BY MovedHost
<1>2. PlaceOf(s, used.flows, backup) /\ SentOf(s, net) /\ AnswerOf(s, net) /\ SettledFor(s, au.may)
  BY <1>1 DEF Hosts, Settles
<1>3. ASSUME NEW st \in au'.may, NEW rec \in Record, Settled(au.may, rec), Follows(au.now.rec, rec),
             rec.phase = "active", rec.cur.ns = Claimed(rec), st.rec.cur.ns = rec.cur.ns,
             \A m \in net : m.req.action = "advance" /\ m.req.expected.session = rec.session =>
                 m.req.expected.cur.gen < rec.cur.gen
      PROVE  st.rec.cur.root = rec.cur.root
  <2>1. CASE st \in au.may
    BY <1>3, <2>1 DEF Settled
  <2>2. CASE st \notin au.may
    BY <2>2, StoredStates, NetFields, <1>3, AuFields, SettledOn DEF Settled
  <2> QED
    BY <2>1, <2>2
<1>4. ToldTo(s, au.now.rec)
  BY <1>1, AuFields DEF Told
<1>5. SettledFor(s, au'.may)
  <2>1. ASSUME s.pc \in {"activate", "advance"}, s.ans.tag = "ok" PROVE Settled(au'.may, s.ans.rec)
    BY HostFields, <1>2, <2>1, SessionAnswer, <1>4, <1>3 DEF SettledFor, ToldTo, Settled
  <2>2. ASSUME InVolume(s), ~Unsure(s) PROVE Settled(au'.may, s.rec)
    BY HostFields, <1>2, <2>2, SettledSession, <1>4, <1>3 DEF SettledFor, ToldTo, Settled
  <2>3. ASSUME s.pc = "retire", NEW st \in au'.may PROVE st.rec.cur.ns # s.target
    <3>1. CASE st \in au.may
      BY <1>2, <2>3, <3>1 DEF SettledFor
    <3>2. CASE st \notin au.may
      <4>1. PICK m \in net : Made(st.rec, m) /\ m.req.expected = au.now.rec
        BY <3>2, StoredStates
      <4>2. m \in Message /\ MessageOk(m) /\ m.req \in Request
        BY NetFields
      <4>3. au.now.rec.cur.ns # s.target
        BY <1>2, <2>3, AuFields DEF SettledFor
      <4>4. /\ s.gc.fence <= au.now.rec.fence /\ s.target.fence < s.gc.fence
            /\ s.gc.fence \in Nat /\ au.now.rec.fence \in Nat
        BY <1>2, <1>4, <2>3, HostFields, RecFields, AuFields DEF ToldTo, PlaceOf
      <4>5. CASE m.req.action \in Installing
        BY <4>1, <4>2, <4>5, MadeInstall, <4>3
      <4>6. CASE m.req.action = "release"
        BY <4>1, <4>2, <4>6, MadeRelease, <4>3
      <4>7. CASE m.req.action = "activate"
        <5>1. st.rec.cur.ns = Claimed(au.now.rec)
          BY <4>1, <4>2, <4>7, MadeActivate
        <5>2. st.rec.cur.ns.fence = au.now.rec.fence
          BY <5>1 DEF Claimed
        <5>3. s.target.fence \in Nat
          BY HostFields, NsFields DEF NoNamespace
        <5> QED
          BY <5>2, <5>3, <4>4
      <4>8. CASE m.req.action = "advance"
        BY <4>1, <4>2, <4>8, MadeAdvance, <4>3
      <4> QED
        BY <4>2, <4>5, <4>6, <4>7, <4>8, ReqFields, Verbs DEF Installing
    <3> QED
      BY <3>1, <3>2
  <2> QED
    BY <2>1, <2>2, <2>3 DEF SettledFor
<1>6. CASE host'[h] = host[h]
  BY <1>1, <1>5, <1>6
<1>7. CASE host'[h] # host[h]
  BY <1>7, MovedHost, <1>1, AnswersOnly, <1>5 DEF Settled, SettledFor, InVolume, Unsure
<1> QED
  BY <1>6, <1>7

(* A step of the authority keeps the invariant. *)
LEMMA MoveIInv ==
    ASSUME IInv, AuthorityMove
    PROVE  IInv'
  BY MoveTypes, MoveTold, MoveHosts, MoveCurrent, MovePending, MoveSpaces, MoveSettles DEF IInv, Acks, Kept

(* An operation that is the process's own, or the next one to start. *)
Theirs(h, f) == f <= used'.flows /\ ((host[h].pc # "idle" /\ f = host[h].flow) \/ f = used.flows + 1)

(* A step of process h, to t, that sends the requests of M. *)
StepOf(h, t, M) ==
    /\ host' = [host EXCEPT ![h] = t] /\ t \in HostRec
    /\ UNCHANGED <<au, fe>> /\ net' = net \cup M /\ M \subseteq Message
    /\ backup' \in Descriptor \cup {NoDescriptor} /\ (backup # NoDescriptor => backup' # NoDescriptor)
    /\ used' \in Budget /\ used.flows <= used'.flows
    /\ t.pc # "idle" => Theirs(h, t.flow)
    /\ \A m \in M : Theirs(h, m.req.id[1]) /\ MessageOk(m)

(* What it was told, and what it sends, the authority's states follow. *)
StepTold(t, M) ==
    \A st \in au.may : /\ granted' <= st.rec.fence
                       /\ \A a \in acked' : Covers(st.rec, a)
                       /\ \A m \in M : Follows(st.rec, m.req.expected)
                       /\ ToldTo(t, st.rec)

(* What it leaves has its type. *)
StepRoot ==
    /\ dir' \in [DOMAIN dir' -> Space] /\ DOMAIN dir' \subseteq Namespace
    /\ marker' \in BOOLEAN /\ guard' \in Host \cup {NoHost}
    /\ acked' \subseteq [epoch : 0..MaxGeneration, id : Op] /\ granted' \in Nat

(* It changes no other process. *)
LEMMA StepHost ==
    ASSUME Types, NEW h \in Host, NEW t, NEW M, StepOf(h, t, M)
    PROVE  /\ host' \in [Host -> HostRec] /\ host'[h] = t
           /\ \A g \in Host : g # h => host'[g] = host[g]
           /\ \A g \in Host : host[g] \in HostRec /\ host[g].flow \in Nat
           /\ used.flows \in Nat /\ used'.flows \in Nat
<1>1. \A g \in Host : host[g] \in HostRec /\ host[g].flow \in Nat
  BY HostFields, Constants DEF Types
<1>2. used.flows \in Nat /\ used'.flows \in Nat
  BY Constants DEF Types, StepOf, Budget
<1> QED
  BY <1>1, <1>2 DEF Types, StepOf

(* Its operation and its requests are of no other process. *)
LEMMA StepApart ==
    ASSUME Types, Hosts, NEW h \in Host, NEW t, NEW M, StepOf(h, t, M), NEW g \in Host, g # h, host[g].pc # "idle"
    PROVE  /\ t.pc # "idle" => host[g].flow # t.flow
           /\ \A m \in M : m.req.id[1] # host[g].flow
<1>1. host[g].flow <= used.flows /\ (host[h].pc # "idle" => host[g].flow # host[h].flow)
  BY DEF Hosts, PlaceOf
<1>2. host[g].flow \in Nat /\ used.flows \in Nat
  BY StepHost
<1>3. \A f : Theirs(h, f) => host[g].flow # f
  BY <1>1, <1>2 DEF Theirs
<1> QED
  BY <1>3 DEF StepOf

(* Such a step keeps the first half of the invariant. *)
LEMMA StepAcks ==
    ASSUME Types, Served, Asked, Told, Hosts, NEW h \in Host, NEW t, NEW M, StepOf(h, t, M),
           StepTold(t, M), StepRoot, PlaceOf(t, used'.flows, backup'), SentOf(t, net'), AnswerOf(t, net')
    PROVE  Types' /\ Served' /\ Asked' /\ Told' /\ Hosts'
<1>0. au' = au /\ fe' = fe /\ net' = net \cup M /\ M \subseteq Message
  BY DEF StepOf
<1>a. /\ \A g \in Host : host[g].flow \in Nat
      /\ used.flows \in Nat /\ used'.flows \in Nat /\ used.flows <= used'.flows
  BY StepHost DEF StepOf
<1>b. \A g \in Host : g # h /\ host[g].pc # "idle" => \A m \in M : m.req.id[1] # host[g].flow
  BY StepApart
<1>1. Types'
  BY StepHost, <1>0 DEF Types, StepOf, StepRoot
<1>2. Served'
  BY <1>0 DEF Served
<1>3. Asked'
  <2> SUFFICES ASSUME NEW m \in net' PROVE MessageOk(m) /\ m.req.id[1] <= used'.flows
    BY DEF Asked
  <2>1. CASE m \in M
    BY <2>1 DEF StepOf, Theirs
  <2>2. CASE m \in net
    <3>1. MessageOk(m) /\ m.req.id[1] <= used.flows /\ m.req.id[1] \in Nat
      BY <2>2, NetFields, OpPair, Constants DEF Asked
    <3>2. used.flows <= used'.flows /\ used.flows \in Nat /\ used'.flows \in Nat
      BY StepHost DEF StepOf
    <3> QED
      BY <3>1, <3>2
  <2> QED
    BY <1>0, <2>1, <2>2
<1>4. Told'
  <2> SUFFICES ASSUME NEW st \in au.may
               PROVE  /\ granted' <= st.rec.fence
                      /\ \A a \in acked' : Covers(st.rec, a)
                      /\ \A m \in net' : Follows(st.rec, m.req.expected)
                      /\ \A g \in Host : ToldTo(host'[g], st.rec)
    BY <1>0 DEF Told
  <2>1. \A g \in Host : ToldTo(host'[g], st.rec)
    BY StepHost DEF Told, StepTold
  <2> QED
    BY <1>0, <2>1 DEF Told, StepTold
<1>5. Hosts'
  <2>1. ASSUME NEW g \in Host PROVE PlaceOf(host'[g], used'.flows, backup')
    <3>1. CASE g = h
      BY <3>1, StepHost
    <3>2. CASE g # h
      <4>1. PICK s \in HostRec : s = host[g] /\ s = host'[g]
        BY <3>2, StepHost
      <4>2. PlaceOf(s, used.flows, backup)
        BY <4>1 DEF Hosts
      <4>a. s.flow \in Nat
        BY <4>1, <1>a
      <4>3. s.flow <= used.flows => s.flow <= used'.flows
        BY <4>a, <1>a
      <4>4. backup # NoDescriptor => backup' # NoDescriptor
        BY DEF StepOf
      <4>5. PlaceOf(s, used'.flows, backup')
        BY <4>2, <4>3, <4>4 DEF PlaceOf
      <4> QED
        BY <4>1, <4>5
    <3> QED
      BY <3>1, <3>2
  <2>2. ASSUME NEW g \in Host PROVE SentOf(host'[g], net') /\ AnswerOf(host'[g], net')
    <3>1. CASE g = h
      BY <3>1, StepHost
    <3>2. CASE g # h
      <4>1. PICK s \in HostRec : s = host[g] /\ s = host'[g]
        BY <3>2, StepHost
      <4>2. SentOf(s, net) /\ AnswerOf(s, net)
        BY <4>1 DEF Hosts
      <4>3. s.pc # "idle" => \A m \in M : m.req.id[1] # s.flow
        BY <3>2, <4>1, <1>b
      <4>4. \A m \in M : Own(s, m) => m.req.id[1] = s.flow
        BY DEF Own
      <4>5. (s.pc \in Waiting => s.pc # "idle") /\ (InVolume(s) => s.pc # "idle")
        BY DEF Waiting, InVolume, InSession
      <4>6. SentOf(s, net')
        BY <1>0, <4>2, <4>3, <4>4, <4>5 DEF SentOf
      <4>7. AnswerOf(s, net')
        BY <1>0, <4>2 DEF AnswerOf
      <4> QED
        BY <4>1, <4>6, <4>7
    <3> QED
      BY <3>1, <3>2
  <2>3. ASSUME NEW g \in Host, NEW k \in Host, g # k, host'[g].pc # "idle", host'[k].pc # "idle"
        PROVE  host'[g].flow # host'[k].flow
    <3>1. CASE g # h /\ k # h
      BY <2>3, <3>1, StepHost DEF Hosts
    <3>2. CASE g = h
      BY <2>3, <3>2, StepHost, StepApart
    <3>3. CASE k = h
      BY <2>3, <3>3, StepHost, StepApart
    <3> QED
      BY <3>1, <3>2, <3>3
  <2> QED
    BY <2>1, <2>2, <2>3 DEF Hosts
<1> QED
  BY <1>1, <1>2, <1>3, <1>4, <1>5

(* Namespaces locked by others stay as they are; or all manifests do. *)
Apart(h) ==
    \A n \in DOMAIN dir : dir[n].lock \in Host \ {h} /\ ~dir[n].tomb => n \in DOMAIN dir' /\ dir'[n] = dir[n]

Widens == \A n \in DOMAIN dir : n \in DOMAIN dir' /\ dir'[n].man = dir[n].man /\ dir'[n].tomb = dir[n].tomb

(* A step apart from others keeps the second half, if it keeps what is *)
(* current and pending. *)
LEMMA StepKept ==
    ASSUME Types, Hosts, Spaces, Settles, NEW h \in Host, NEW t, NEW M, StepOf(h, t, M), Apart(h),
           HeldBy(h, t, net', dir'), SettledFor(t, au.may), CurrentHeld', Pending'
    PROVE  Kept'
<1>0. au' = au /\ net' = net \cup M
  BY DEF StepOf
<1>b. \A g \in Host : g # h /\ host[g].pc # "idle" => \A m \in M : m.req.id[1] # host[g].flow
  BY StepApart
<1>1. Spaces'
  <2> SUFFICES ASSUME NEW g \in Host PROVE HeldBy(g, host'[g], net', dir')
    BY DEF Spaces
  <2>1. CASE g = h
    BY <2>1, StepHost
  <2>2. CASE g # h
    <3>1. PICK s \in HostRec : s = host[g] /\ s = host'[g]
      BY <2>2, StepHost
    <3>2. HeldBy(g, s, net, dir)
      BY <3>1 DEF Spaces
    <3>3. Live(s) => s.desc.ns \in DOMAIN dir' /\ dir'[s.desc.ns] = dir[s.desc.ns]
      BY <2>2, <3>2 DEF HeldBy, Apart
    <3>4. s.pc # "idle" => \A m \in M : m.req.id[1] # s.flow
      BY <2>2, <3>1, <1>b
    <3>5. \A m \in M : Own(s, m) => m.req.id[1] = s.flow
      BY DEF Own
    <3>6. s.pc = "advance" => Live(s)
      BY <3>1 DEF Hosts, PlaceOf, Live, InVolume, InSession
    <3>7. HeldBy(g, s, net', dir')
      BY <1>0, <3>2, <3>3, <3>4, <3>5, <3>6 DEF HeldBy
    <3> QED
      BY <3>1, <3>7
  <2> QED
    BY <2>1, <2>2
<1>2. Settles'
  BY <1>0, StepHost DEF Settles
<1> QED
  BY <1>1, <1>2 DEF Kept

(* A step that leaves every manifest on the root keeps what is current and *)
(* pending. *)
LEMMA WidenKeeps ==
    ASSUME Widens, CurrentHeld, Pending, NEW M, net' = net \cup M, au' = au,
           \A m \in M, st \in au.may : PendingOf(m, st, dir')
    PROVE  CurrentHeld' /\ Pending'
  BY DEF Widens, Holds, CurrentHeld, Pending, PendingOf

(* A step that leaves the root alone is such a step. *)
LEMMA SameRoot ==
    ASSUME Types, dir' = dir
    PROVE  \A h \in Host : /\ Apart(h) /\ Widens
                           /\ dir' \in [DOMAIN dir' -> Space] /\ DOMAIN dir' \subseteq Namespace
  BY DEF Types, Apart, Widens

(* The fields of a namespace on the root. *)
LEMMA SpaceFields ==
    ASSUME Types, NEW n \in DOMAIN dir
    PROVE  /\ n \in Namespace /\ dir[n] \in Space /\ dir[n].man \in [1..2 -> Root \cup {NoRoot}]
           /\ dir[n].lock \in Host \cup {NoHost} /\ dir[n].tomb \in BOOLEAN
  BY DEF Types, Space

(* So is one that drops its locks. *)
LEMMA UnlockedRoot ==
    ASSUME Types, NEW h \in Host, dir' = Unlocked(h)
    PROVE  /\ Apart(h) /\ Widens
           /\ dir' \in [DOMAIN dir' -> Space] /\ DOMAIN dir' \subseteq Namespace
<1>1. DOMAIN dir' = DOMAIN dir
  BY DEF Unlocked
<1>2. ASSUME NEW n \in DOMAIN dir
      PROVE  /\ dir'[n] \in Space /\ dir'[n].man = dir[n].man /\ dir'[n].tomb = dir[n].tomb
             /\ dir[n].lock # h => dir'[n] = dir[n]
  BY SpaceFields DEF Unlocked, Space
<1>3. Apart(h) /\ Widens
  BY <1>1, <1>2 DEF Apart, Widens
<1>4. dir' \in [DOMAIN dir' -> Space]
  BY <1>1, <1>2 DEF Unlocked
<1> QED
  BY <1>1, <1>3, <1>4 DEF Types

(* So is one that adds a namespace. *)
LEMMA GrownRoot ==
    ASSUME Types, NEW n \in Namespace, NEW sp \in Space, dir' = Grown(n, sp)
    PROVE  /\ Widens /\ dir' \in [DOMAIN dir' -> Space] /\ DOMAIN dir' \subseteq Namespace
           /\ \A h \in Host : Apart(h)
           /\ n \in DOMAIN dir' /\ (n \notin DOMAIN dir => dir'[n] = sp)
<1>1. DOMAIN dir' = DOMAIN dir \cup {n}
  BY DEF Grown
<1>2. \A x \in DOMAIN dir : dir'[x] = dir[x] /\ dir'[x] \in Space
  BY SpaceFields DEF Grown
<1>3. n \notin DOMAIN dir => dir'[n] = sp
  BY DEF Grown
<1>4. dir' \in [DOMAIN dir' -> Space]
  BY <1>1, <1>2, <1>3 DEF Grown
<1> QED
  BY <1>1, <1>2, <1>3, <1>4 DEF Types, Apart, Widens

(* The parts of the invariant. *)
LEMMA Parts ==
    ASSUME IInv
    PROVE  /\ Types /\ Served /\ Asked /\ Told /\ Hosts /\ CurrentHeld /\ Pending /\ Spaces /\ Settles
           /\ acked \subseteq [epoch : 0..MaxGeneration, id : Op] /\ granted \in Nat
           /\ marker \in BOOLEAN /\ guard \in Host \cup {NoHost}
           /\ backup \in Descriptor \cup {NoDescriptor}
           /\ used \in Budget /\ used.flows \in Nat /\ used.flows \in 0..MaxFlows
           /\ net \subseteq Message /\ host \in [Host -> HostRec]
<1>1. Types /\ Served /\ Asked /\ Told /\ Hosts /\ CurrentHeld /\ Pending /\ Spaces /\ Settles
  BY DEF IInv, Acks, Kept
<1>2. /\ acked \subseteq [epoch : 0..MaxGeneration, id : Op] /\ granted \in Nat
      /\ marker \in BOOLEAN /\ guard \in Host \cup {NoHost}
      /\ backup \in Descriptor \cup {NoDescriptor}
      /\ used \in Budget /\ net \subseteq Message /\ host \in [Host -> HostRec]
  BY <1>1 DEF Types
<1>3. used.flows \in Nat /\ used.flows \in 0..MaxFlows
  BY <1>2, Constants DEF Budget
<1> QED
  BY <1>1, <1>2, <1>3

(* What it says of one process. *)
LEMMA Here ==
    ASSUME IInv, NEW h \in Host
    PROVE  /\ host[h] \in HostRec /\ PlaceOf(host[h], used.flows, backup)
           /\ SentOf(host[h], net) /\ AnswerOf(host[h], net)
           /\ HeldBy(h, host[h], net, dir) /\ SettledFor(host[h], au.may)
           /\ \A st \in au.may : ToldTo(host[h], st.rec)
  BY Parts DEF Hosts, Spaces, Settles, Told

(* A step of a process keeps the invariant. *)
LEMMA StepIInv ==
    ASSUME IInv, NEW h \in Host, NEW t, NEW M, StepOf(h, t, M), StepTold(t, M), StepRoot,
           PlaceOf(t, used'.flows, backup'), SentOf(t, net'), AnswerOf(t, net'),
           Apart(h), HeldBy(h, t, net', dir'), SettledFor(t, au.may), CurrentHeld', Pending'
    PROVE  IInv'
  BY Parts, StepAcks, StepKept DEF IInv, Acks

(* The same where every manifest stays. *)
LEMMA StepWide ==
    ASSUME IInv, NEW h \in Host, NEW t, NEW M, StepOf(h, t, M), StepTold(t, M), StepRoot,
           PlaceOf(t, used'.flows, backup'), SentOf(t, net'), AnswerOf(t, net'),
           Apart(h), HeldBy(h, t, net', dir'), SettledFor(t, au.may), Widens,
           \A m \in M, st \in au.may : PendingOf(m, st, dir')
    PROVE  IInv'
  BY Parts, WidenKeeps, StepIInv DEF StepOf

(* The fields of a process that is off. *)
LEMMA OffFields ==
    /\ Off \in HostRec /\ Off.pc = "idle" /\ Off.kind = "none" /\ Off.flow = 0 /\ Off.step = 0
    /\ Off.rec = Initial.rec /\ Off.desc = NoDescriptor /\ Off.slot = 0 /\ Off.ans = NoAnswer
    /\ Off.ans.tag = "none" /\ Off.ans.rec = Initial.rec
    /\ Off.gc = Initial.rec /\ Off.target = NoNamespace
  BY Constants, InitialRec DEF PC, NoAnswer, Answer, Tell, Off, HostRec

(* A process that is off promises and holds nothing. *)
LEMMA OffFacts ==
    ASSUME NEW h, NEW N, NEW D, NEW A, NEW flows, NEW bak
    PROVE  /\ PlaceOf(Off, flows, bak) /\ SentOf(Off, N) /\ AnswerOf(Off, N)
           /\ HeldBy(h, Off, N, D) /\ SettledFor(Off, A)
           /\ \A rec \in Record : Valid(rec) => ToldTo(Off, rec)
<1> USE OffFields
<1>1. ~InVolume(Off) /\ ~Live(Off) /\ Off.pc \notin Waiting
  BY DEF InVolume, Live, InSession, Waiting
<1>2. PlaceOf(Off, flows, bak)
  BY <1>1, InitialRec DEF PlaceOf
<1>3. SentOf(Off, N) /\ AnswerOf(Off, N) /\ HeldBy(h, Off, N, D) /\ SettledFor(Off, A)
  BY <1>1 DEF SentOf, AnswerOf, HeldBy, SettledFor
<1>4. ASSUME NEW rec \in Record, Valid(rec) PROVE ToldTo(Off, rec)
  BY <1>4, FollowsInitial, InitialRec, RecFields DEF ToldTo
<1> QED
  BY <1>2, <1>3, <1>4

(* Releasing the root's guard leaves it with someone or no one. *)
LEMMA Guards ==
    ASSUME IInv, NEW h \in Host
    PROVE  Unguarded(h) \in Host \cup {NoHost}
  BY Parts DEF Unguarded

(* A process that ends, perhaps with a last request of M that only *)
(* releases. *)
LEMMA Ends ==
    ASSUME IInv, NEW h \in Host, End(h), UNCHANGED <<au, fe, marker, backup, acked, granted>>,
           used' \in Budget, used'.flows = used.flows,
           NEW M \in SUBSET Message, net' = net \cup M,
           \A m \in M : /\ MessageOk(m) /\ m.req.action = "release"
                        /\ host[h].pc # "idle" /\ m.req.id[1] = host[h].flow
                        /\ \A st \in au.may : Follows(st.rec, m.req.expected)
    PROVE  IInv'
<1>1. host' = [host EXCEPT ![h] = Off] /\ dir' = Unlocked(h) /\ guard' = Unguarded(h)
  BY DEF End, Become
<1>2. StepOf(h, Off, M)
  BY Here, <1>1, Parts, OffFields DEF Theirs, PlaceOf, StepOf
<1>3. Apart(h) /\ Widens /\ dir' \in [DOMAIN dir' -> Space] /\ DOMAIN dir' \subseteq Namespace
  BY <1>1, Parts, UnlockedRoot
<1>4. StepRoot
  BY <1>1, <1>3, Parts, Guards DEF StepRoot
<1>5. StepTold(Off, M)
  BY Parts, AuFields, OffFacts DEF StepTold, Told
<1>6. \A m \in M, st \in au.may : PendingOf(m, st, dir')
  BY DEF PendingOf
<1> QED
  BY <1>2, <1>3, <1>4, <1>5, <1>6, OffFacts, StepWide

(* The same without a request. *)
LEMMA EndsQuietly ==
    ASSUME IInv, NEW h \in Host, End(h), UNCHANGED <<au, fe, net, marker, backup, acked, granted>>,
           used' \in Budget, used'.flows = used.flows
    PROVE  IInv'
<1>1. PICK M \in SUBSET Message : M = {}
  OBVIOUS
<1>2. net' = net \cup M
  BY <1>1
<1>3. \A m \in M : FALSE
  BY <1>1
<1> QED
  BY <1>2, <1>3, Ends

(* An operation that is refused. *)
LEMMA BeginRefusedKeeps ==
    ASSUME IInv, NEW h \in Host, BeginRefused(h)
    PROVE  IInv'
  BY Parts, SpendingNothing, EndsQuietly DEF BeginRefused

(* A process that dies. *)
LEMMA CrashKeeps ==
    ASSUME IInv, NEW h \in Host, Crash(h)
    PROVE  IInv'
  BY Parts, Spending, EndsQuietly DEF Crash

(* The fields of a request a session sends. *)
LEMMA SentFields ==
    ASSUME NEW s, NEW act, NEW d
    PROVE  /\ Sent(s, act, d).req.id = <<s.flow, s.step>> /\ Sent(s, act, d).req.expected = s.rec
           /\ Sent(s, act, d).req.action = act /\ Sent(s, act, d).req.desc = d
           /\ Sent(s, act, d).role \in Role
  BY DEF Sent, Role

(* It is a request. *)
LEMMA SentMessage ==
    ASSUME NEW s, NEW act \in Verb, NEW d \in Descriptor \cup {NoDescriptor},
           s.flow \in 0..MaxFlows, s.step \in 1..(MaxGeneration + 4), s.rec \in Record
    PROVE  /\ Sent(s, act, d) \in Message
           /\ Sent(s, act, d).req.id[1] = s.flow /\ Sent(s, act, d).req.id[2] = s.step
  BY PairOp, Constants, SentFields DEF Request, Role, Sent, Message

(* RemoteSession::drop. *)
LEMMA DropKeeps ==
    ASSUME IInv, NEW h \in Host, Drop(h)
    PROVE  IInv'
<1>1. used' \in Budget /\ used'.flows = used.flows
  BY Parts, SpendingNothing DEF Drop
<1>2. End(h) /\ UNCHANGED <<au, fe, marker, backup, acked, granted>> /\ host[h].pc \in {"active", "stopped"}
  BY DEF Drop, At
<1>3. PICK s \in HostRec : s = host[h]
  BY Here
<1>4. PICK t : t = [s EXCEPT !.step = @ + 1]
  OBVIOUS
<1>5. PICK m : m = Sent(t, "release", NoDescriptor)
  OBVIOUS
<1>6. net' = net \cup {m}
  BY <1>3, <1>4, <1>5 DEF Drop
<1>7. /\ t.flow = s.flow /\ t.rec = s.rec /\ t.step = s.step + 1 /\ s.step \in 0..(MaxGeneration + 3)
      /\ s.rec \in Record /\ s.flow \in 0..MaxFlows
  BY <1>4, HostFields DEF HostRec
<1>8. t.step \in 1..(MaxGeneration + 4)
  BY <1>7, Constants
<1>9. m \in Message /\ m.req.id[1] = s.flow
  BY Verbs, <1>5, <1>7, <1>8, SentMessage
<1>10. m.req.expected = s.rec /\ m.req.action = "release"
  BY <1>5, <1>7, SentFields
<1>11. MessageOk(m)
  BY <1>3, <1>10, Here DEF PlaceOf, MessageOk
<1>12. \A st \in au.may : Follows(st.rec, m.req.expected)
  BY <1>2, <1>3, <1>10, Here DEF ToldTo, PlaceOf
<1>13. PICK M \in SUBSET Message : M = {m}
  BY <1>9
<1>14. host[h].pc # "idle" /\ host[h].flow = s.flow
  BY <1>2, <1>3
<1>15. \A x \in M : /\ MessageOk(x) /\ x.req.action = "release"
                    /\ host[h].pc # "idle" /\ x.req.id[1] = host[h].flow
                    /\ \A st \in au.may : Follows(st.rec, x.req.expected)
  BY <1>9, <1>10, <1>11, <1>12, <1>13, <1>14
<1>16. net' = net \cup M
  BY <1>6, <1>13
<1> QED
  BY <1>1, <1>2, <1>15, <1>16, Ends

(* A step that sends nothing and leaves the root alone. *)
LEMMA Quiet ==
    ASSUME IInv, NEW h \in Host, NEW t \in HostRec, host' = [host EXCEPT ![h] = t],
           UNCHANGED <<au, fe, net, dir, marker, granted>>, guard' \in Host \cup {NoHost},
           backup' \in Descriptor \cup {NoDescriptor}, backup # NoDescriptor => backup' # NoDescriptor,
           acked' \subseteq [epoch : 0..MaxGeneration, id : Op],
           \A st \in au.may : (\A a \in acked' : Covers(st.rec, a)) /\ ToldTo(t, st.rec),
           used' \in Budget, used.flows <= used'.flows, t.pc # "idle" => Theirs(h, t.flow),
           PlaceOf(t, used'.flows, backup'), SentOf(t, net), AnswerOf(t, net),
           HeldBy(h, t, net, dir), SettledFor(t, au.may)
    PROVE  IInv'
<1>1. PICK M \in SUBSET Message : M = {}
  OBVIOUS
<1>2. StepOf(h, t, M)
  BY <1>1 DEF StepOf
<1>3. StepTold(t, M)
  BY <1>1, Parts DEF StepTold, Told
<1>4. dir' = dir /\ net' = net
  OBVIOUS
<1>5. Apart(h) /\ Widens /\ dir' \in [DOMAIN dir' -> Space] /\ DOMAIN dir' \subseteq Namespace
  BY <1>4, Parts, SameRoot
<1>6. StepRoot
  BY <1>5, Parts DEF StepRoot
<1>7. \A m \in M, st \in au.may : PendingOf(m, st, dir')
  BY <1>1
<1>8. SentOf(t, net') /\ AnswerOf(t, net') /\ HeldBy(h, t, net', dir')
  BY <1>4
<1> QED
  BY <1>2, <1>3, <1>5, <1>6, <1>7, <1>8, StepWide

(* The same for a step that changes nothing but the process and the guard. *)
LEMMA QuietMove ==
    ASSUME IInv, NEW h \in Host, NEW t \in HostRec, host' = [host EXCEPT ![h] = t], SpendNothing,
           UNCHANGED <<au, fe, net, dir, marker, backup, acked, granted>>, guard' \in Host \cup {NoHost},
           \A st \in au.may : ToldTo(t, st.rec),
           t.pc # "idle" => host[h].pc # "idle" /\ t.flow = host[h].flow,
           PlaceOf(t, used.flows, backup), SentOf(t, net), AnswerOf(t, net),
           HeldBy(h, t, net, dir), SettledFor(t, au.may)
    PROVE  IInv'
<1>1. used' \in Budget /\ used'.flows = used.flows
  BY Parts, SpendingNothing
<1>2. used.flows <= used'.flows
  BY <1>1, Parts
<1>3. t.pc # "idle" => Theirs(h, t.flow)
  BY <1>1, Here DEF Theirs, PlaceOf
<1>4. \A st \in au.may : (\A a \in acked' : Covers(st.rec, a)) /\ ToldTo(t, st.rec)
  BY Parts DEF Told
<1>5. PlaceOf(t, used'.flows, backup') /\ backup' \in Descriptor \cup {NoDescriptor}
      /\ (backup # NoDescriptor => backup' # NoDescriptor) /\ acked' \subseteq [epoch : 0..MaxGeneration, id : Op]
  BY <1>1, Parts
<1>6. UNCHANGED <<au, fe, net, dir, marker, granted>>
  OBVIOUS
<1> QED
  BY <1>1, <1>2, <1>3, <1>4, <1>5, <1>6, Quiet

(* What the served record is when the authority can be asked: the only one *)
(* it may come back with. *)
LEMMA Asking ==
    ASSUME IInv, Reachable
    PROVE  /\ au.may = {au.now} /\ au.now.rec \in Record /\ Valid(au.now.rec)
           /\ \A st \in au.may : Follows(st.rec, au.now.rec)
  BY Parts, AuFields, FollowsSelf DEF Reachable, Served

(* An operation that starts is one no request names. *)
LEMMA NewFlows ==
    ASSUME IInv, NewFlow
    PROVE  /\ used' \in Budget /\ used'.flows = used.flows + 1 /\ used.flows + 1 \in 0..MaxFlows
           /\ \A m \in net : m.req.id[1] # used.flows + 1
<1>1. used.flows + 1 \in 0..MaxFlows
  BY Parts, Constants DEF NewFlow
<1>2. used' \in Budget /\ used'.flows = used.flows + 1
  BY <1>1, Parts DEF NewFlow, Budget
<1>3. ASSUME NEW m \in net PROVE m.req.id[1] # used.flows + 1
  BY Parts, NetFields, OpPair, Constants DEF Asked
<1> QED
  BY <1>1, <1>2, <1>3

(* The fields of a process that starts an operation. *)
LEMMA BegunFields ==
    ASSUME IInv, NEW k \in ClaimKind \cup {"gc"}, used.flows + 1 \in 0..MaxFlows
    PROVE  /\ Begun(k) \in HostRec /\ Begun(k).pc = "approved" /\ Begun(k).kind = k
           /\ Begun(k).flow = used.flows + 1 /\ Begun(k).step = 0 /\ Begun(k).rec = au.now.rec
           /\ Begun(k).desc = NoDescriptor /\ Begun(k).ans = NoAnswer /\ Begun(k).ans.tag = "none"
           /\ Begun(k).ans.rec = Initial.rec /\ Begun(k).gc = Initial.rec
<1>1. au.now.rec \in Record /\ "approved" \in PC
  BY Parts, AuFields DEF PC
<1>2. Begun(k) = [Off EXCEPT !.pc = "approved", !.kind = k, !.flow = used.flows + 1, !.rec = au.now.rec]
  BY DEF Begun
<1> QED
  BY ZenonT(60), <1>1, <1>2, OffFields DEF HostRec

(* What a process is told that has no answer and collects nothing yet. *)
LEMMA ToldNothing ==
    ASSUME IInv, NEW t, t.ans.rec = Initial.rec, t.gc = Initial.rec,
           t.kind # "gc" => \A st \in au.may : Follows(st.rec, t.rec)
    PROVE  \A st \in au.may : ToldTo(t, st.rec)
<1> SUFFICES ASSUME NEW st \in au.may PROVE ToldTo(t, st.rec)
  OBVIOUS
<1>1. st.rec \in Record /\ Valid(st.rec)
  BY Parts, AuFields
<1>2. Follows(st.rec, Initial.rec) /\ Initial.rec.fence <= st.rec.fence
  BY <1>1, FollowsInitial, InitialRec, RecFields
<1> QED
  BY <1>2 DEF ToldTo

(* create_remote and the administrator's operations up to the root's *)
(* guard. *)
LEMMA ApproveKeeps ==
    ASSUME IInv, NEW h \in Host, NEW k \in ClaimKind, Approve(h, k)
    PROVE  IInv'
<1>1. /\ Reachable /\ NewFlow /\ host' = [host EXCEPT ![h] = Begun(k)]
      /\ UNCHANGED <<au, fe, net, dir, marker, guard, backup, acked, granted>>
  BY DEF Approve, Become
<1>2. /\ used' \in Budget /\ used'.flows = used.flows + 1 /\ used.flows + 1 \in 0..MaxFlows
      /\ \A m \in net : m.req.id[1] # used.flows + 1
  BY <1>1, NewFlows
<1>3. PICK t : t = Begun(k)
  OBVIOUS
<1>4. /\ t \in HostRec /\ t.pc = "approved" /\ t.kind = k /\ t.flow = used.flows + 1 /\ t.step = 0
      /\ t.rec = au.now.rec /\ t.ans.rec = Initial.rec /\ t.gc = Initial.rec
  BY <1>2, <1>3, BegunFields
<1>5. \A st \in au.may : ToldTo(t, st.rec)
  BY <1>1, <1>4, Asking, ToldNothing
<1>6. ~InVolume(t) /\ ~Live(t) /\ t.pc \notin Waiting /\ t.kind # "gc" /\ used.flows <= used'.flows
      /\ t.flow <= used'.flows
  BY <1>2, <1>4, Parts DEF InVolume, Live, InSession, Waiting, ClaimKind
<1>7. PlaceOf(t, used'.flows, backup)
  BY <1>1, <1>4, <1>6, Asking DEF PlaceOf
<1>8. SentOf(t, net) /\ AnswerOf(t, net) /\ HeldBy(h, t, net, dir) /\ SettledFor(t, au.may)
  BY <1>2, <1>4, <1>6 DEF SentOf, AnswerOf, HeldBy, SettledFor
<1>9. Theirs(h, t.flow)
  BY <1>4, <1>6 DEF Theirs
<1>10. \A st \in au.may : (\A a \in acked' : Covers(st.rec, a)) /\ ToldTo(t, st.rec)
  BY <1>1, <1>5, Parts DEF Told
<1> QED
  BY <1>1, <1>2, <1>3, <1>4, <1>6, <1>7, <1>8, <1>9, <1>10, Parts, Quiet

(* collect_remote. *)
LEMMA CollectRemoteKeeps ==
    ASSUME IInv, NEW h \in Host, CollectRemote(h)
    PROVE  IInv'
<1>1. /\ NewFlow /\ host' = [host EXCEPT ![h] = [Begun("gc") EXCEPT !.pc = "collect"]] /\ guard' = h
      /\ UNCHANGED <<au, fe, net, dir, marker, backup, acked, granted>>
  BY DEF CollectRemote, Become
<1>2. /\ used' \in Budget /\ used'.flows = used.flows + 1 /\ used.flows + 1 \in 0..MaxFlows
      /\ \A m \in net : m.req.id[1] # used.flows + 1
  BY <1>1, NewFlows
<1>a. PICK s : s = Begun("gc")
  OBVIOUS
<1>3. PICK t : t = [s EXCEPT !.pc = "collect"]
  OBVIOUS
<1>b. /\ s \in HostRec /\ s.kind = "gc" /\ s.flow = used.flows + 1 /\ s.step = 0 /\ s.desc = NoDescriptor
      /\ s.rec = au.now.rec /\ s.ans.rec = Initial.rec /\ s.gc = Initial.rec
  BY <1>2, <1>a, BegunFields
<1>c. "collect" \in PC
  BY DEF PC, InSession
<1>4. /\ t \in HostRec /\ t.pc = "collect" /\ t.kind = "gc" /\ t.flow = used.flows + 1 /\ t.step = 0
      /\ t.rec = au.now.rec /\ t.ans.rec = Initial.rec /\ t.gc = Initial.rec /\ t.desc = NoDescriptor
  BY <1>b, <1>c, <1>3 DEF HostRec
<1>5. \A st \in au.may : ToldTo(t, st.rec)
  BY <1>1, <1>4, ToldNothing
<1>6. ~InVolume(t) /\ ~Live(t) /\ t.pc \notin Waiting /\ used.flows <= used'.flows
      /\ t.flow <= used'.flows /\ Valid(au.now.rec)
  BY <1>2, <1>4, Parts, AuFields DEF InVolume, Live, InSession, Waiting
<1>7. PlaceOf(t, used'.flows, backup)
  BY <1>4, <1>6 DEF PlaceOf
<1>8. SentOf(t, net) /\ AnswerOf(t, net) /\ HeldBy(h, t, net, dir) /\ SettledFor(t, au.may)
  BY <1>2, <1>4, <1>6 DEF SentOf, AnswerOf, HeldBy, SettledFor
<1>9. Theirs(h, t.flow)
  BY <1>4, <1>6 DEF Theirs
<1>10. \A st \in au.may : (\A a \in acked' : Covers(st.rec, a)) /\ ToldTo(t, st.rec)
  BY <1>1, <1>5, Parts DEF Told
<1>11. host' = [host EXCEPT ![h] = t] /\ guard' \in Host \cup {NoHost} /\ backup' = backup /\ acked' = acked
  BY <1>1, <1>a, <1>3
<1> QED
  BY <1>1, <1>2, <1>4, <1>6, <1>7, <1>8, <1>9, <1>10, <1>11, Parts, Quiet

(* A process that moves on within its session, or its collection. *)
LEMMA Within ==
    ASSUME NEW h \in Host, NEW s \in HostRec, NEW t \in HostRec, NEW flows, NEW bak, NEW N, NEW D, NEW A,
           t.kind = s.kind, t.flow = s.flow, t.step = s.step, t.rec = s.rec, t.desc = s.desc, t.slot = s.slot,
           t.ans = s.ans, s.pc \in InSession, t.pc \in InSession \ {"advance"}, Unsure(s) => Unsure(t),
           t.kind = "gc" => t.pc \in {"collect", "gc", "retire"},
           t.pc = "retire" => t.target.fence < t.gc.fence /\ \A st \in A : st.rec.cur.ns # t.target,
           PlaceOf(s, flows, bak), SentOf(s, N), AnswerOf(s, N), HeldBy(h, s, N, D), SettledFor(s, A)
    PROVE  PlaceOf(t, flows, bak) /\ SentOf(t, N) /\ AnswerOf(t, N) /\ HeldBy(h, t, N, D) /\ SettledFor(t, A)
  BY DescFields, HostFields DEF InSession, Waiting, InVolume, Live, PlaceOf, SentOf, AnswerOf, HeldBy,
     SettledFor

(* OperationGuard::collect asks the authority. *)
LEMMA CollectKeeps ==
    ASSUME IInv, NEW h \in Host, Collect(h)
    PROVE  IInv'
<1>1. PICK s \in HostRec : s = host[h]
  BY Here
<1>2. PICK t : t = [s EXCEPT !.pc = "gc", !.gc = au.now.rec]
  OBVIOUS
<1>3. /\ s.pc = "collect" /\ Reachable /\ SpendNothing /\ host' = [host EXCEPT ![h] = t]
      /\ UNCHANGED <<au, fe, net, dir, marker, guard, backup, acked, granted>>
  BY <1>1, <1>2 DEF Collect, At, Become
<1>4. au.now.rec \in Record /\ "gc" \in PC
  BY <1>3, Asking DEF PC, InSession
<1>5. /\ t \in HostRec /\ t.kind = s.kind /\ t.flow = s.flow /\ t.step = s.step /\ t.rec = s.rec /\ t.desc = s.desc
      /\ t.slot = s.slot /\ t.ans = s.ans /\ t.pc = "gc" /\ t.gc = au.now.rec
  BY <1>2, <1>4 DEF HostRec
<1>6. /\ s.pc \in InSession /\ t.pc \in InSession \ {"advance"} /\ (Unsure(s) => Unsure(t))
  BY <1>3, <1>5 DEF InSession, Unsure
<1>7. /\ PlaceOf(t, used.flows, backup) /\ SentOf(t, net) /\ AnswerOf(t, net)
      /\ HeldBy(h, t, net, dir) /\ SettledFor(t, au.may)
  BY <1>1, <1>5, <1>6, Here, Within
<1>8. \A st \in au.may : ToldTo(t, st.rec)
  <2> SUFFICES ASSUME NEW st \in au.may PROVE ToldTo(t, st.rec)
    OBVIOUS
  <2>1. st = au.now
    BY <1>3, Asking
  <2>2. ToldTo(s, st.rec) /\ au.now.rec.fence \in Nat
    BY <1>1, <1>4, Here, RecFields
  <2> QED
    BY <1>5, <2>1, <2>2 DEF ToldTo
<1> QED
  BY <1>1, <1>3, <1>5, <1>7, <1>8, Parts, QuietMove

(* A candidate is chosen: the authority was asked again and does not name *)
(* it. *)
LEMMA CandidateKeeps ==
    ASSUME IInv, NEW h \in Host, Candidate(h)
    PROVE  IInv'
<1>1. PICK s \in HostRec : s = host[h]
  BY Here
<1>2. PICK n \in DOMAIN dir :
        /\ n.fence < s.gc.fence /\ n \notin Retained(s.gc)
        /\ host' = [host EXCEPT ![h] = [s EXCEPT !.pc = "retire", !.target = n]]
  BY <1>1 DEF Candidate, Become
<1>3. PICK t : t = [s EXCEPT !.pc = "retire", !.target = n]
  OBVIOUS
<1>4. /\ s.pc = "gc" /\ Reachable /\ SpendNothing /\ au.now.rec = s.gc
      /\ UNCHANGED <<au, fe, net, dir, marker, guard, backup, acked, granted>>
  BY <1>1 DEF Candidate, At
<1>5. n \in Namespace \cup {NoNamespace} /\ "retire" \in PC
  BY Parts, SpaceFields DEF PC, InSession
<1>6. /\ t \in HostRec /\ t.kind = s.kind /\ t.flow = s.flow /\ t.step = s.step /\ t.rec = s.rec /\ t.desc = s.desc
      /\ t.slot = s.slot /\ t.ans = s.ans /\ t.pc = "retire" /\ t.target = n /\ t.gc = s.gc
  BY <1>3, <1>5 DEF HostRec
<1>7. /\ s.pc \in InSession /\ t.pc \in InSession \ {"advance"} /\ (Unsure(s) => Unsure(t))
  BY <1>4, <1>6 DEF InSession, Unsure
<1>8. \A st \in au.may : st.rec.cur.ns # n
  BY <1>2, <1>4, Asking DEF Retained
<1>9. /\ PlaceOf(t, used.flows, backup) /\ SentOf(t, net) /\ AnswerOf(t, net)
      /\ HeldBy(h, t, net, dir) /\ SettledFor(t, au.may)
  BY <1>1, <1>2, <1>6, <1>7, <1>8, Here, Within
<1>10. \A st \in au.may : ToldTo(t, st.rec)
  BY <1>1, <1>6, Here DEF ToldTo
<1> QED
  BY <1>1, <1>2, <1>3, <1>4, <1>6, <1>9, <1>10, Parts, QuietMove

(* The end of a collection. *)
LEMMA CollectEndsKeeps ==
    ASSUME IInv, NEW h \in Host, CollectEnds(h)
    PROVE  IInv'
<1>1. PICK s \in HostRec : s = host[h]
  BY Here
<1>2. /\ s.pc \in {"collect", "gc"} /\ SpendNothing /\ guard' = Unguarded(h)
      /\ host' = [host EXCEPT ![h] = IF s.kind = "gc" THEN Off ELSE [s EXCEPT !.pc = "active", !.gc = Initial.rec]]
      /\ UNCHANGED <<au, fe, net, dir, marker, backup, acked, granted>>
  BY <1>1 DEF CollectEnds, At, Become
<1>3. guard' \in Host \cup {NoHost}
  BY <1>2, Guards
<1>4. CASE s.kind = "gc"
  BY <1>2, <1>4, OffFacts, Parts, AuFields, OffFields, <1>3, QuietMove
<1>5. CASE s.kind # "gc"
  <2>1. PICK t : t = [s EXCEPT !.pc = "active", !.gc = Initial.rec]
    OBVIOUS
  <2>2. "active" \in PC /\ Initial.rec \in Record /\ Initial.rec.fence = 0
    BY InitialRec DEF PC, InSession
  <2>3. /\ t \in HostRec /\ t.kind = s.kind /\ t.flow = s.flow /\ t.step = s.step /\ t.rec = s.rec
        /\ t.desc = s.desc /\ t.slot = s.slot /\ t.ans = s.ans /\ t.pc = "active" /\ t.gc = Initial.rec
    BY <2>1, <2>2 DEF HostRec
  <2>4. /\ s.pc \in InSession /\ t.pc \in InSession \ {"advance"} /\ (Unsure(s) => Unsure(t))
    BY <1>2, <2>3 DEF InSession, Unsure
  <2>5. /\ PlaceOf(t, used.flows, backup) /\ SentOf(t, net) /\ AnswerOf(t, net)
        /\ HeldBy(h, t, net, dir) /\ SettledFor(t, au.may)
    BY <1>1, <1>5, <2>3, <2>4, Here, Within
  <2>6. \A st \in au.may : ToldTo(t, st.rec)
    <3> SUFFICES ASSUME NEW st \in au.may PROVE ToldTo(t, st.rec)
      OBVIOUS
    <3>1. ToldTo(s, st.rec) /\ st.rec.fence \in Nat
      BY <1>1, Here, Parts, AuFields, RecFields
    <3> QED
      BY <2>2, <2>3, <3>1 DEF ToldTo
  <2>7. host' = [host EXCEPT ![h] = t] /\ host[h].pc # "idle" /\ t.flow = host[h].flow
    BY <1>1, <1>2, <1>5, <2>1, <2>3
  <2> QED
    BY <1>2, <1>3, <2>3, <2>5, <2>6, <2>7, QuietMove
<1> QED
  BY <1>4, <1>5

(* State::check. *)
LEMMA CheckKeeps ==
    ASSUME IInv, NEW h \in Host, Check(h)
    PROVE  IInv'
<1>1. PICK s \in HostRec : s = host[h]
  BY Here
<1>2. PICK p \in {"stopped", "checked"} : host' = [host EXCEPT ![h] = [s EXCEPT !.pc = p]]
  BY <1>1 DEF Check, Become
<1>3. PICK t : t = [s EXCEPT !.pc = p]
  OBVIOUS
<1>4. /\ s.pc = "active" /\ SpendNothing
      /\ UNCHANGED <<au, fe, net, dir, marker, guard, backup, acked, granted>>
  BY <1>1 DEF Check, At
<1>5. p \in PC
  BY DEF PC, InSession
<1>6. /\ t \in HostRec /\ t.kind = s.kind /\ t.flow = s.flow /\ t.step = s.step /\ t.rec = s.rec /\ t.desc = s.desc
      /\ t.slot = s.slot /\ t.ans = s.ans /\ t.pc = p /\ t.target = s.target /\ t.gc = s.gc
  BY <1>3, <1>5 DEF HostRec
<1>7. /\ s.pc \in InSession /\ t.pc \in InSession \ {"advance"} /\ (Unsure(s) => Unsure(t))
  BY <1>4, <1>6 DEF InSession, Unsure
<1>8. s.kind # "gc"
  BY <1>1, <1>4, Here DEF PlaceOf
<1>9. /\ PlaceOf(t, used.flows, backup) /\ SentOf(t, net) /\ AnswerOf(t, net)
      /\ HeldBy(h, t, net, dir) /\ SettledFor(t, au.may)
  BY <1>1, <1>6, <1>7, <1>8, Here, Within
<1>10. \A st \in au.may : ToldTo(t, st.rec)
  BY <1>1, <1>6, Here DEF ToldTo
<1>11. host' = [host EXCEPT ![h] = t] /\ host[h].pc # "idle" /\ t.flow = host[h].flow
  BY <1>1, <1>2, <1>3, <1>4, <1>6
<1> QED
  BY <1>4, <1>6, <1>9, <1>10, <1>11, Parts, QuietMove

(* A transaction that fails: an advance in doubt stops the session, any *)
(* other ends the process. *)
LEMMA FailsKeeps ==
    ASSUME IInv, NEW h \in Host, Fails(h)
    PROVE  IInv'
<1>1. PICK s \in HostRec : s = host[h]
  BY Here
<1>2. CASE s.pc # "advance"
  BY <1>1, <1>2, Parts, SpendingNothing, EndsQuietly DEF Fails
<1>3. CASE s.pc = "advance"
  <2>1. PICK t : t = [s EXCEPT !.pc = "stopped"]
    OBVIOUS
  <2>2. /\ SpendNothing /\ host' = [host EXCEPT ![h] = t]
        /\ UNCHANGED <<au, fe, net, dir, marker, guard, backup, acked, granted>>
    BY <1>1, <1>3, <2>1 DEF Fails, Become
  <2>3. "stopped" \in PC
    BY DEF PC, InSession
  <2>4. /\ t \in HostRec /\ t.kind = s.kind /\ t.flow = s.flow /\ t.step = s.step /\ t.rec = s.rec
        /\ t.desc = s.desc /\ t.slot = s.slot /\ t.ans = s.ans /\ t.pc = "stopped" /\ t.gc = s.gc
    BY <2>1, <2>3 DEF HostRec
  <2>5. /\ s.pc \in InSession /\ t.pc \in InSession \ {"advance"} /\ (Unsure(s) => Unsure(t))
    BY <1>3, <2>4 DEF InSession, Unsure
  <2>6. s.kind # "gc"
    BY <1>1, <1>3, Here DEF PlaceOf
  <2>7. /\ PlaceOf(t, used.flows, backup) /\ SentOf(t, net) /\ AnswerOf(t, net)
        /\ HeldBy(h, t, net, dir) /\ SettledFor(t, au.may)
    BY <1>1, <2>4, <2>5, <2>6, Here, Within
  <2>8. \A st \in au.may : ToldTo(t, st.rec)
    BY <1>1, <2>4, Here DEF ToldTo
  <2>9. host[h].pc # "idle" /\ t.flow = host[h].flow
    BY <1>1, <1>3, <2>4
  <2> QED
    BY <2>2, <2>4, <2>7, <2>8, <2>9, Parts, QuietMove
<1> QED
  BY <1>2, <1>3

(* The activation is answered: the session is settled, since no advance of *)
(* it exists. *)
LEMMA ActivateDoneKeeps ==
    ASSUME IInv, NEW h \in Host, ActivateDone(h)
    PROVE  IInv'
<1>1. PICK s \in HostRec : s = host[h]
  BY Here
<1>2. PICK t : t = [s EXCEPT !.pc = "collect", !.rec = s.ans.rec]
  OBVIOUS
<1>3. /\ s.pc = "activate" /\ s.ans.tag = "ok" /\ SpendNothing /\ host' = [host EXCEPT ![h] = t]
      /\ UNCHANGED <<au, fe, net, dir, marker, guard, backup, acked, granted>>
  BY <1>1, <1>2 DEF ActivateDone, Answered, At, Become
<1>4. /\ PlaceOf(s, used.flows, backup) /\ SentOf(s, net) /\ AnswerOf(s, net)
      /\ HeldBy(h, s, net, dir) /\ SettledFor(s, au.may)
      /\ \A st \in au.may : ToldTo(s, st.rec)
  BY <1>1, Here
<1>5. /\ s.ans.rec \in Record /\ Valid(s.ans.rec) /\ s.ans.rec.phase = "active"
      /\ s.ans.rec.session = <<s.flow, 1>> /\ s.ans.rec.cur = s.desc /\ s.ans.rec.fence = s.rec.fence
  BY <1>3, <1>4, Parts, SessionAnswer
<1>6. "collect" \in PC
  BY DEF PC, InSession
<1>7. /\ t \in HostRec /\ t.kind = s.kind /\ t.flow = s.flow /\ t.step = s.step /\ t.rec = s.ans.rec
      /\ t.desc = s.desc /\ t.slot = s.slot /\ t.ans = s.ans /\ t.pc = "collect" /\ t.gc = s.gc
  BY <1>2, <1>5, <1>6 DEF HostRec
<1>8. /\ s.step = 2 /\ s.kind # "gc" /\ Live(s) /\ s.desc \in Descriptor /\ s.rec.fence > 0 /\ s.slot \in {1, 2}
      /\ s.flow <= used.flows
  BY <1>3, <1>4 DEF PlaceOf, Live
<1>9. InVolume(t) /\ Live(t) /\ ~Unsure(t) /\ t.pc \notin Waiting
  BY <1>7, <1>8 DEF InVolume, Live, Unsure, InSession, Waiting
<1>10. PlaceOf(t, used.flows, backup)
  BY <1>8, DescFields, <1>7, <1>5, <1>9 DEF PlaceOf
<1>11. SentOf(t, net)
  <2>1. \A m \in net : m.req.id[1] = s.flow => m.req.id[2] <= s.step
    BY <1>3, <1>4 DEF SentOf
  <2>2. ASSUME NEW m \in net, m.req.action = "advance", m.req.id[1] = s.flow PROVE FALSE
    BY <2>2, Parts, NetFields, OpPair, Constants, <2>1, <1>8 DEF MessageOk
  <2> QED
    BY <1>7, <1>9, <2>1, <2>2 DEF SentOf
<1>12. AnswerOf(t, net)
  BY <1>9 DEF AnswerOf
<1>13. HeldBy(h, t, net, dir)
  BY <1>4, <1>7, <1>8, <1>9 DEF HeldBy
<1>14. SettledFor(t, au.may)
  BY <1>3, <1>4, <1>7 DEF SettledFor
<1>15. \A st \in au.may : ToldTo(t, st.rec)
  BY <1>4, <1>7 DEF ToldTo
<1>16. host[h].pc # "idle" /\ t.flow = host[h].flow
  BY <1>1, <1>3, <1>7
<1> QED
  BY <1>3, <1>7, <1>10, <1>11, <1>12, <1>13, <1>14, <1>15, <1>16, Parts, QuietMove

(* Witness::advance returns and the commit is acknowledged: the record *)
(* answered contains it, so every state the authority may come back with *)
(* does. *)
LEMMA AdvanceDoneKeeps ==
    ASSUME IInv, NEW h \in Host, AdvanceDone(h)
    PROVE  IInv'
<1>1. PICK s \in HostRec : s = host[h]
  BY Here
<1>2. PICK t : t = [s EXCEPT !.pc = "active", !.rec = s.ans.rec, !.desc = s.ans.rec.cur, !.slot = OtherSlot(s)]
  OBVIOUS
<1>3. /\ s.pc = "advance" /\ s.ans.tag = "ok" /\ SpendNothing /\ host' = [host EXCEPT ![h] = t]
      /\ acked' = acked \cup {[epoch |-> s.desc.epoch, id |-> <<s.flow, s.step>>]}
      /\ UNCHANGED <<au, fe, net, dir, marker, guard, backup, granted>>
  BY <1>1, <1>2 DEF AdvanceDone, Answered, At, Become
<1>4. /\ PlaceOf(s, used.flows, backup) /\ SentOf(s, net) /\ AnswerOf(s, net)
      /\ HeldBy(h, s, net, dir) /\ SettledFor(s, au.may)
      /\ \A st \in au.may : ToldTo(s, st.rec)
  BY <1>1, Here
<1>5. /\ s.ans.rec \in Record /\ Valid(s.ans.rec) /\ s.ans.rec.phase = "active" /\ s.ans.rec.cur \in Descriptor
      /\ s.ans.rec.session = <<s.flow, 1>> /\ s.ans.rec.fence = s.rec.fence
      /\ s.ans.rec.cur.gen = s.desc.gen + 1
      /\ s.ans.rec.cur.ns = s.desc.ns /\ s.ans.rec.cur.epoch = s.desc.epoch
      /\ <<s.flow, s.step>> \in s.ans.rec.cur.root.data
      /\ \E m \in net : Own(s, m) /\ s.ans.rec.cur.root = m.req.desc.root
  BY <1>3, <1>4, Parts, SessionAnswer
<1>6. "active" \in PC /\ s.ans.rec.cur \in Descriptor \cup {NoDescriptor}
  BY <1>5 DEF PC, InSession
<1>8. /\ s.kind # "gc" /\ Live(s) /\ InVolume(s) /\ Unsure(s) /\ s.desc \in Descriptor /\ s.rec.fence > 0
      /\ s.slot \in {1, 2} /\ s.flow <= used.flows /\ s.step >= 2 /\ s.step <= s.desc.gen + 3
  <2>1. s.kind # "gc"
    BY <1>3, <1>4 DEF PlaceOf
  <2>2. InVolume(s) /\ Live(s) /\ Unsure(s)
    BY <1>3, <2>1 DEF Live, InVolume, InSession, Unsure
  <2> QED
    BY <1>3, <1>4, <2>1, <2>2 DEF PlaceOf
<1>a. OtherSlot(s) \in {1, 2}
  BY <1>8 DEF OtherSlot
<1>b. OtherSlot(s) \in 0..2
  BY <1>a
<1>7. /\ t \in HostRec /\ t.kind = s.kind /\ t.flow = s.flow /\ t.step = s.step /\ t.rec = s.ans.rec
      /\ t.desc = s.ans.rec.cur /\ t.slot = OtherSlot(s) /\ t.ans = s.ans /\ t.pc = "active" /\ t.gc = s.gc
  BY <1>2, <1>5, <1>6, <1>b DEF HostRec
<1>9. InVolume(t) /\ Live(t) /\ ~Unsure(t) /\ t.pc \notin Waiting
  BY <1>7, <1>8 DEF InVolume, Live, Unsure, InSession, Waiting
<1>c. s.desc.gen \in Nat /\ s.desc.epoch \in 0..MaxGeneration /\ s.step \in Nat
  BY <1>8, DescFields, HostFields
<1>10. PlaceOf(t, used.flows, backup)
  <2>2. t.step <= t.desc.gen + 2 /\ t.step >= 2
    BY <1>5, <1>7, <1>8, <1>c
  <2> QED
    BY <1>5, <1>7, <1>8, <1>9, <1>a, <2>2 DEF PlaceOf
<1>11. SentOf(t, net)
  <2>1. \A m \in net : m.req.id[1] = s.flow => m.req.id[2] <= s.step
    BY <1>3, <1>4 DEF SentOf
  <2>2. ASSUME NEW m \in net, m.req.action = "advance", m.req.id[1] = s.flow
        PROVE  m.req.expected.cur.gen < t.desc.gen /\ m.req.expected.cur.gen <= t.desc.gen
    <3>1. m.req.expected.cur.gen <= s.desc.gen
      BY <1>4, <1>8, <2>2 DEF SentOf
    <3>2. m.req.expected.cur.gen \in Int
      BY Parts, NetFields, RecFields, DescAny
    <3> QED
      BY <1>5, <1>7, <1>c, <3>1, <3>2
  <2> QED
    BY <1>7, <1>9, <2>1, <2>2 DEF SentOf
<1>12. AnswerOf(t, net)
  BY <1>9 DEF AnswerOf
<1>13. HeldBy(h, t, net, dir)
  BY <1>5, <1>3, <1>4, <1>7, <1>8, <1>9 DEF HeldBy
<1>14. SettledFor(t, au.may)
  BY <1>3, <1>4, <1>7 DEF SettledFor
<1>15. \A st \in au.may : ToldTo(t, st.rec)
  BY <1>4, <1>7 DEF ToldTo
<1>16. host[h].pc # "idle" /\ t.flow = host[h].flow
  BY <1>1, <1>3, <1>7
<1>17. PICK a : a = [epoch |-> s.desc.epoch, id |-> <<s.flow, s.step>>]
  OBVIOUS
<1>18. a \in [epoch : 0..MaxGeneration, id : Op] /\ a.epoch = s.desc.epoch /\ a.id = <<s.flow, s.step>>
  <2>1. s.flow \in 0..MaxFlows /\ s.step \in 1..(MaxGeneration + 4)
    BY <1>8, HostFields, Constants
  <2>2. <<s.flow, s.step>> \in Op
    BY <2>1, PairOp
  <2> QED
    BY <1>17, <1>c, <2>2
<1>19. \A st \in au.may : \A x \in acked' : Covers(st.rec, x)
  <2> SUFFICES ASSUME NEW st \in au.may, NEW x \in acked' PROVE Covers(st.rec, x)
    OBVIOUS
  <2>1. CASE x \in acked
    BY <2>1, Parts DEF Told
  <2>2. CASE x = a
    BY <1>4, Parts, AuFields, <1>5, <1>18, <2>2, CoversOn DEF ToldTo, Covers
  <2> QED
    BY <1>3, <1>17, <2>1, <2>2
<1>20. acked' \subseteq [epoch : 0..MaxGeneration, id : Op]
  BY <1>3, <1>17, <1>18, Parts
<1>21. used' \in Budget /\ used'.flows = used.flows
  BY <1>3, Parts, SpendingNothing
<1>22. Theirs(h, t.flow) /\ used.flows <= used'.flows
  BY <1>7, <1>8, <1>16, <1>21, Parts DEF Theirs
<1>23. PlaceOf(t, used'.flows, backup') /\ backup' = backup
  BY <1>3, <1>10, <1>21
<1>24. \A st \in au.may : (\A x \in acked' : Covers(st.rec, x)) /\ ToldTo(t, st.rec)
  BY <1>15, <1>19
<1>25. guard' \in Host \cup {NoHost} /\ backup' \in Descriptor \cup {NoDescriptor}
  BY <1>3, Parts
<1>26. UNCHANGED <<au, fe, net, dir, marker, granted>> /\ host' = [host EXCEPT ![h] = t]
  BY <1>3
<1> QED
  BY <1>7, <1>11, <1>12, <1>13, <1>14, <1>20, <1>21, <1>22, <1>23, <1>24, <1>25, <1>26, Quiet

(* snapshot_remote. *)
LEMMA SnapshotKeeps ==
    ASSUME IInv, NEW h \in Host, Snapshot(h)
    PROVE  IInv'
<1>1. PICK s \in HostRec : s = host[h]
  BY Here
<1>2. /\ s.pc = "active" /\ NewFlow /\ backup' = s.desc
      /\ UNCHANGED <<au, fe, net, dir, marker, guard, host, acked, granted>>
  BY <1>1 DEF Snapshot, At
<1>3. used' \in Budget /\ used'.flows = used.flows + 1
  BY <1>2, NewFlows
<1>4. /\ PlaceOf(s, used.flows, backup) /\ SentOf(s, net) /\ AnswerOf(s, net)
      /\ HeldBy(h, s, net, dir) /\ SettledFor(s, au.may)
      /\ \A st \in au.may : ToldTo(s, st.rec)
  BY <1>1, Here
<1>5. s.desc \in Descriptor
  BY <1>2, <1>4 DEF PlaceOf, Live, InVolume, InSession
<1>6. backup' \in Descriptor \cup {NoDescriptor} /\ backup' # NoDescriptor
  BY <1>2, <1>5, DescFields
<1>7. host' = [host EXCEPT ![h] = s]
  BY <1>1, <1>2, Parts
<1>8. s.flow \in Nat /\ s.flow <= used.flows /\ s.flow <= used'.flows /\ used.flows <= used'.flows
  BY <1>2, <1>3, <1>4, HostFields, Parts, Constants DEF PlaceOf
<1>9. PlaceOf(s, used'.flows, backup')
  BY <1>2, <1>4, <1>8 DEF PlaceOf
<1>10. Theirs(h, s.flow)
  BY <1>1, <1>2, <1>8 DEF Theirs
<1>11. \A st \in au.may : (\A x \in acked' : Covers(st.rec, x)) /\ ToldTo(s, st.rec)
  BY <1>2, <1>4, Parts DEF Told
<1>12. guard' \in Host \cup {NoHost} /\ acked' \subseteq [epoch : 0..MaxGeneration, id : Op]
  BY <1>2, Parts
<1> QED
  BY <1>2, <1>3, <1>4, <1>6, <1>7, <1>8, <1>9, <1>10, <1>11, <1>12, Quiet

(* A process that sends its next request. *)
Requesting(s, to) == [s EXCEPT !.pc = to, !.step = @ + 1, !.ans = NoAnswer]

(* transact: the request it sends is the only one of its number. *)
LEMMA Sends ==
    ASSUME IInv, NEW s \in HostRec, NEW to \in Waiting, NEW act \in Verb,
           NEW d \in Descriptor \cup {NoDescriptor}, s.step + 1 \in 0..(MaxGeneration + 3),
           \A m \in net : m.req.id[1] = s.flow => m.req.id[2] <= s.step,
           NEW t, t = Requesting(s, to), NEW m, m = Sent(t, act, d)
    PROVE  /\ t \in HostRec /\ t.pc = to /\ t.kind = s.kind /\ t.flow = s.flow /\ t.step = s.step + 1
           /\ t.rec = s.rec /\ t.desc = s.desc /\ t.slot = s.slot /\ t.gc = s.gc
           /\ t.ans.tag = "none" /\ t.ans.rec = Initial.rec
           /\ m \in Message /\ m.req.expected = s.rec /\ m.req.action = act /\ m.req.desc = d
           /\ m.req.id = <<t.flow, t.step>> /\ m.req.id[1] = s.flow /\ m.req.id[2] = t.step
           /\ \A x \in net : ~Own(t, x)
           /\ \A x \in net \cup {m} : x.req.id[1] = t.flow => x.req.id[2] <= t.step
<1>0. s.step \in Nat /\ s.flow \in 0..MaxFlows /\ s.rec \in Record
  BY HostFields
<1>1. PICK n \in 0..(MaxGeneration + 3) : n = s.step + 1
  OBVIOUS
<1>2. NoAnswer \in Tell /\ NoAnswer.tag = "none" /\ NoAnswer.rec = Initial.rec /\ to \in PC
  BY InitialRec DEF NoAnswer, Answer, Tell, PC
<1>3. t = [s EXCEPT !.pc = to, !.step = n, !.ans = NoAnswer]
  BY <1>1 DEF Requesting
<1>4. /\ t \in HostRec /\ t.pc = to /\ t.kind = s.kind /\ t.flow = s.flow /\ t.step = n
      /\ t.rec = s.rec /\ t.desc = s.desc /\ t.slot = s.slot /\ t.gc = s.gc /\ t.ans = NoAnswer
  BY <1>2, <1>3 DEF HostRec
<1>5. n \in 1..(MaxGeneration + 4)
  BY <1>0, <1>1, Constants
<1>6. /\ m \in Message /\ m.req.id[1] = t.flow /\ m.req.id[2] = t.step
  BY <1>0, <1>4, <1>5, SentMessage
<1>7. m.req.expected = s.rec /\ m.req.action = act /\ m.req.desc = d /\ m.req.id = <<t.flow, t.step>>
  BY <1>4, SentFields
<1>8. ASSUME NEW x \in net PROVE ~Own(t, x) /\ (x.req.id[1] = t.flow => x.req.id[2] <= t.step)
  <2>1. x.req.id \in Op /\ x.req.id[2] \in Nat
    BY Parts, NetFields, OpPair, Constants
  <2>2. x.req.id[1] = s.flow => x.req.id[2] <= s.step
    OBVIOUS
  <2>3. Own(t, x) => x.req.id[1] = s.flow /\ x.req.id[2] = n
    BY <1>4 DEF Own
  <2> QED
    BY <1>0, <1>1, <1>4, <2>1, <2>2, <2>3
<1>9. \A x \in net \cup {m} : x.req.id[1] = t.flow => x.req.id[2] <= t.step
  BY <1>1, <1>0, <1>4, <1>6, <1>8
<1> QED
  BY <1>1, <1>2, <1>4, <1>6, <1>7, <1>8, <1>9

(* The verb of each claim. *)
LEMMA ClaimVerbs ==
    ASSUME NEW k \in ClaimKind
    PROVE  ClaimVerb[k] \in Installing /\ ClaimVerb[k] \in Verb /\ (k = "restore" => ClaimVerb[k] = "claim_restore")
  BY Verbs DEF ClaimVerb, ClaimKind, Installing

(* A claim is sent under the root's guard. *)
LEMMA ClaimKeeps ==
    ASSUME IInv, NEW h \in Host, NEW s \in HostRec, Claim(h, s), used' \in Budget, used.flows <= used'.flows,
           s.pc = "approved", s.kind \in ClaimKind, s.step = 0, Theirs(h, s.flow), Valid(s.rec),
           \A m \in net : m.req.id[1] = s.flow => m.req.id[2] <= s.step,
           \A st \in au.may : Follows(st.rec, s.rec) /\ s.gc.fence <= st.rec.fence
    PROVE  IInv'
<1>1. PICK d \in Descriptor \cup {NoDescriptor} : d = IF s.kind = "restore" THEN backup ELSE NoDescriptor
  BY Parts
<1>2. PICK act \in Verb : act = ClaimVerb[s.kind]
  BY ClaimVerbs
<1>3. PICK t : t = Requesting(s, "claim")
  OBVIOUS
<1>4. PICK m : m = Sent(t, act, d)
  OBVIOUS
<1>5. /\ net' = net \cup {m} /\ host' = [host EXCEPT ![h] = t] /\ guard' = h /\ marker' = TRUE
      /\ UNCHANGED <<au, fe, dir, backup, acked, granted>>
  BY <1>1, <1>2, <1>3, <1>4 DEF Claim, Transact, Become, Enrolled, Requesting
<1>6. s.step + 1 \in 0..(MaxGeneration + 3) /\ "claim" \in Waiting
  BY Constants DEF Waiting
<1>7. /\ t \in HostRec /\ t.pc = "claim" /\ t.kind = s.kind /\ t.flow = s.flow /\ t.step = s.step + 1
      /\ t.rec = s.rec /\ t.desc = s.desc /\ t.slot = s.slot /\ t.gc = s.gc
      /\ t.ans.tag = "none" /\ t.ans.rec = Initial.rec
      /\ m \in Message /\ m.req.expected = s.rec /\ m.req.action = act /\ m.req.desc = d
      /\ m.req.id = <<t.flow, t.step>> /\ m.req.id[1] = s.flow /\ m.req.id[2] = t.step
      /\ \A x \in net : ~Own(t, x)
      /\ \A x \in net \cup {m} : x.req.id[1] = t.flow => x.req.id[2] <= t.step
  BY <1>3, <1>4, <1>6, Sends
<1>8. PICK M \in SUBSET Message : M = {m}
  BY <1>7
<1>9. act \in Installing /\ act \notin {"activate", "advance"}
  BY <1>2, ClaimVerbs DEF Installing
<1>10. MessageOk(m)
  BY <1>7, <1>9 DEF MessageOk
<1>11. StepOf(h, t, M)
  BY <1>5, <1>7, <1>8, <1>10, Parts DEF StepOf
<1>12. StepTold(t, M)
  <2> SUFFICES ASSUME NEW st \in au.may
               PROVE  /\ granted' <= st.rec.fence /\ (\A a \in acked' : Covers(st.rec, a))
                      /\ (\A x \in M : Follows(st.rec, x.req.expected)) /\ ToldTo(t, st.rec)
    BY DEF StepTold
  <2>1. Follows(st.rec, Initial.rec)
    BY Parts, AuFields, FollowsInitial
  <2> QED
    BY <1>5, <1>7, <1>8, <2>1, Parts DEF Told, ToldTo
<1>13. dir' = dir
  BY <1>5
<1>14. Apart(h) /\ Widens /\ dir' \in [DOMAIN dir' -> Space] /\ DOMAIN dir' \subseteq Namespace
  BY <1>13, Parts, SameRoot
<1>15. StepRoot
  BY <1>5, <1>14, Parts DEF StepRoot
<1>16. ~InVolume(t) /\ ~Live(t) /\ t.kind # "gc"
  BY <1>7 DEF InVolume, Live, InSession, ClaimKind
<1>17. PlaceOf(t, used'.flows, backup')
  BY <1>7, <1>5, <1>16 DEF Claim, Approved, Theirs, PlaceOf
<1>18. SentOf(t, net')
  BY <1>5, <1>7, <1>2, <1>16 DEF Asks, SentOf
<1>19. AnswerOf(t, net')
  BY <1>7 DEF AnswerOf
<1>20. HeldBy(h, t, net', dir') /\ SettledFor(t, au.may)
  BY <1>7, <1>16 DEF HeldBy, SettledFor
<1>21. \A x \in M, st \in au.may : PendingOf(x, st, dir')
  BY <1>7, <1>8, <1>9 DEF PendingOf
<1> QED
  BY <1>11, <1>12, <1>14, <1>15, <1>17, <1>18, <1>19, <1>20, <1>21, StepWide

(* create_remote, takeover_remote, restore_remote and *)
(* recover_enrollment_remote under the guard. *)
LEMMA BeginKeeps ==
    ASSUME IInv, NEW h \in Host, Begin(h)
    PROVE  IInv'
  BY Here, Parts, SpendingNothing, ClaimKeeps DEF Begin, At, PlaceOf, Theirs, SentOf, ToldTo, ClaimKind

(* open_remote. *)
LEMMA OpenKeeps ==
    ASSUME IInv, NEW h \in Host, Open(h)
    PROVE  IInv'
  BY NewFlows, BegunFields, Asking, InitialRec, Parts, AuFields, RecFields, ClaimKeeps DEF Open, ClaimKind,
     Claim, Approved, Theirs

(* What an answered claim says. *)
LEMMA ClaimAnswer ==
    ASSUME IInv, NEW s \in HostRec, PlaceOf(s, used.flows, backup), SentOf(s, net), AnswerOf(s, net),
           s.pc = "claim", s.ans.tag = "ok"
    PROVE  /\ s.ans.rec \in Record /\ Valid(s.ans.rec) /\ s.ans.rec.phase \in {"claimed", "restore"}
           /\ s.ans.rec.session = <<s.flow, 1>> /\ s.ans.rec.fence > 0
           /\ Claimed(s.ans.rec) \in Namespace
           /\ s.kind \in ClaimKind /\ s.step = 1
           /\ s.kind = "restore" => /\ backup \in Descriptor /\ s.ans.rec.cur \in Descriptor
                                    /\ s.ans.rec.cur.gen < MaxGeneration /\ s.ans.rec.cur.epoch < MaxGeneration
<1>1. /\ s.kind \in ClaimKind /\ s.step = 1 /\ (s.kind = "restore" => backup # NoDescriptor)
      /\ s.pc \in Waiting /\ s.ans.rec \in Record
  BY HostFields DEF PlaceOf, Waiting
<1>2. Valid(s.ans.rec) /\ \E m \in net : Own(s, m) /\ Made(s.ans.rec, m)
  BY <1>1 DEF AnswerOf
<1>3. PICK m \in net : Own(s, m) /\ Made(s.ans.rec, m)
  BY <1>2
<1>4. m \in Message /\ MessageOk(m) /\ m.req.expected \in Record /\ m.req.id \in Op
  BY Parts, NetFields
<1>5. m.req.action = ClaimVerb[s.kind] /\ m.req.id = <<s.flow, 1>>
  BY <1>1, <1>3 DEF SentOf, Asks, Own
<1>6. m.req.action \in Installing /\ (s.kind = "restore" => m.req.action = "claim_restore")
  BY <1>1, <1>5, ClaimVerbs
<1>7. /\ s.ans.rec.fence = m.req.expected.fence + 1
      /\ s.ans.rec.session = m.req.id /\ s.ans.rec.phase \in {"claimed", "restore"}
      /\ m.req.action = "claim_restore" => /\ s.ans.rec.cur \in Descriptor /\ s.ans.rec.cur.gen < MaxGeneration
                                           /\ s.ans.rec.cur.epoch < MaxGeneration
  BY <1>3, <1>4, <1>6, MadeInstall
<1>8. s.ans.rec.fence \in 1..MaxFence
  BY SMTT(40), <1>1, <1>4, <1>7, RecFields, Constants
<1>9. Claimed(s.ans.rec) \in Namespace
  BY <1>4, <1>7, <1>8 DEF Claimed, Namespace
<1>10. s.kind = "restore" => backup \in Descriptor
  BY <1>1, Parts
<1> QED
  BY <1>1, <1>2, <1>5, <1>6, <1>7, <1>8, <1>9, <1>10

(* What a session starts from is a generation. *)
LEMMA Forks ==
    ASSUME IInv, NEW s, s.rec \in Record, s.kind \in ClaimKind,
           s.kind \in {"open", "takeover"} => Loads(s.rec.cur),
           s.kind = "restore" => /\ backup \in Descriptor /\ s.rec.cur \in Descriptor
                                 /\ s.rec.cur.gen < MaxGeneration /\ s.rec.cur.epoch < MaxGeneration
    PROVE  Fork(s).root \in Root /\ Fork(s).root.gen \in 0..MaxGeneration /\ Fork(s).epoch \in 0..MaxGeneration
<1>0. FirstRoot \in Root
  BY Constants DEF FirstRoot
<1>1. CASE s.kind \in {"create", "recover"}
  BY <1>1, Constants, <1>0, RootFields DEF Fork, EmptyFork
<1>2. CASE s.kind \in {"open", "takeover"}
  BY <1>2, Parts, NsFields, RecFields, DescFields, RootFields DEF Fork, CurrentFork, Loads, Types,
     NoDescriptor
<1>3. CASE s.kind = "restore"
  <2>1. PICK r : r = [backup.root EXCEPT !.gen = s.rec.cur.gen + 1]
    OBVIOUS
  <2>2. Fork(s) = [root |-> r, epoch |-> s.rec.cur.epoch + 1]
    BY <1>3, <2>1 DEF Fork, RestoredFork
  <2>3. backup.root \in Root /\ s.rec.cur.gen \in 0..MaxGeneration /\ s.rec.cur.epoch \in 0..MaxGeneration
    BY <1>3, DescFields
  <2>4. s.rec.cur.gen + 1 \in 0..MaxGeneration /\ s.rec.cur.epoch + 1 \in 0..MaxGeneration
    <3>1. \A n \in 0..MaxGeneration : n < MaxGeneration => n + 1 \in 0..MaxGeneration
      BY Constants
    <3>2. s.rec.cur.gen < MaxGeneration /\ s.rec.cur.epoch < MaxGeneration
      BY <1>3
    <3> QED
      BY <2>3, <3>1, <3>2
  <2>5. r \in Root
    BY <2>1, <2>3, <2>4, Constants
  <2> QED
    BY <2>2, <2>4, <2>5, RootFields
<1> QED
  BY <1>1, <1>2, <1>3 DEF ClaimKind

(* The highest fence granted is below every state, since all of them *)
(* follow the answer. *)
LEMMA Grants ==
    ASSUME IInv, NEW s \in HostRec, \A st \in au.may : ToldTo(s, st.rec), Granted(s.ans.rec)
    PROVE  granted' \in Nat /\ \A st \in au.may : granted' <= st.rec.fence
  BY HostFields, RecFields, Parts, AuFields, FenceFollows DEF ToldTo, Granted, Told

(* A new namespace. *)
LEMMA NewSpaces ==
    ASSUME NEW h \in Host \cup {NoHost}, NEW r \in Root \cup {NoRoot}
    PROVE  /\ NewSpace(h, r) \in Space /\ NewSpace(h, r).man[1] = r /\ NewSpace(h, r).lock = h
           /\ NewSpace(h, r).tomb = FALSE
  BY DEF NewSpace, Space

(* The process that a claim lets fork. *)
Forking(s, d) == [[s EXCEPT !.rec = s.ans.rec] EXCEPT !.desc = d, !.slot = 1]

(* Its fields. *)
LEMMA ForkingFields ==
    ASSUME NEW s \in HostRec, NEW d \in Descriptor
    PROVE  /\ Forking(s, d) \in HostRec /\ Forking(s, d).rec = s.ans.rec /\ Forking(s, d).desc = d
           /\ Forking(s, d).slot = 1 /\ Forking(s, d).kind = s.kind /\ Forking(s, d).flow = s.flow
           /\ Forking(s, d).step = s.step /\ Forking(s, d).gc = s.gc
<1>1. s.ans.rec \in Record /\ d \in Descriptor \cup {NoDescriptor} /\ 1 \in 0..2
  BY HostFields
<1> QED
  BY <1>1 DEF Forking, HostRec

(* activate_fork: the namespace is filled before the activation is sent, *)
(* so what the activation would make current is on the root. *)
LEMMA ActivateForkKeeps ==
    ASSUME IInv, NEW h \in Host, ActivateFork(h)
    PROVE  IInv'
<1>1. PICK s \in HostRec : s = host[h]
  BY Here
<1>2. PICK u : u = [s EXCEPT !.rec = s.ans.rec]
  OBVIOUS
<1>3. PICK d : d = [gen |-> Fork(u).root.gen, root |-> Fork(u).root, epoch |-> Fork(u).epoch, ns |-> Claimed(u.rec)]
  OBVIOUS
<1>4. PICK b : b = Forking(s, d)
  OBVIOUS
<1>5. PICK t : t = Requesting(b, "activate")
  OBVIOUS
<1>6. PICK m : m = Sent(t, "activate", d)
  OBVIOUS
<1>7. /\ s.pc = "claim" /\ s.ans.tag = "ok" /\ Granted(u.rec) /\ Claimed(u.rec) \notin DOMAIN dir
      /\ u.kind \in {"open", "takeover"} => Loads(u.rec.cur)
      /\ dir' = Grown(Claimed(u.rec), NewSpace(h, Fork(u).root))
      /\ net' = net \cup {m} /\ host' = [host EXCEPT ![h] = t]
      /\ SpendNothing /\ UNCHANGED <<au, fe, marker, guard, backup, acked>>
  BY <1>1, <1>2, <1>3, <1>4, <1>5, <1>6 DEF ActivateFork, Answered, At, Transact, Become, Requesting, Forking
<1>8. /\ PlaceOf(s, used.flows, backup) /\ SentOf(s, net) /\ AnswerOf(s, net)
      /\ \A st \in au.may : ToldTo(s, st.rec)
  BY <1>1, Here
<1>9. /\ s.ans.rec \in Record /\ Valid(s.ans.rec) /\ s.ans.rec.phase \in {"claimed", "restore"}
      /\ s.ans.rec.session = <<s.flow, 1>> /\ s.ans.rec.fence > 0
      /\ Claimed(s.ans.rec) \in Namespace /\ s.kind \in ClaimKind /\ s.step = 1
      /\ s.kind = "restore" => /\ backup \in Descriptor /\ s.ans.rec.cur \in Descriptor
                               /\ s.ans.rec.cur.gen < MaxGeneration /\ s.ans.rec.cur.epoch < MaxGeneration
  BY <1>7, <1>8, ClaimAnswer
<1>10. u.rec = s.ans.rec /\ u.kind = s.kind
  BY <1>2 DEF HostRec
<1>11. Fork(u).root \in Root /\ Fork(u).root.gen \in 0..MaxGeneration /\ Fork(u).epoch \in 0..MaxGeneration
  BY <1>7, <1>9, <1>10, Forks
<1>12. d \in Descriptor /\ d.root = Fork(u).root /\ d.ns = Claimed(s.ans.rec)
  BY <1>3, <1>9, <1>10, <1>11 DEF Descriptor
<1>13. /\ b \in HostRec /\ b.rec = s.ans.rec /\ b.desc = d /\ b.slot = 1 /\ b.kind = s.kind /\ b.flow = s.flow
       /\ b.step = s.step /\ b.gc = s.gc
  BY <1>4, <1>12, ForkingFields
<1>14. /\ b.step + 1 \in 0..(MaxGeneration + 3) /\ "activate" \in Waiting /\ "activate" \in Verb
       /\ d \in Descriptor \cup {NoDescriptor}
  BY <1>9, <1>12, <1>13, Constants, Verbs DEF Waiting
<1>15. \A x \in net : x.req.id[1] = b.flow => x.req.id[2] <= b.step
  BY <1>7, <1>8, <1>13 DEF SentOf
<1>16. /\ t \in HostRec /\ t.pc = "activate" /\ t.kind = b.kind /\ t.flow = b.flow /\ t.step = b.step + 1
       /\ t.rec = b.rec /\ t.desc = b.desc /\ t.slot = b.slot /\ t.gc = b.gc
       /\ t.ans.tag = "none" /\ t.ans.rec = Initial.rec
       /\ m \in Message /\ m.req.expected = b.rec /\ m.req.action = "activate" /\ m.req.desc = d
       /\ m.req.id = <<t.flow, t.step>> /\ m.req.id[1] = b.flow /\ m.req.id[2] = t.step
       /\ \A x \in net : ~Own(t, x)
       /\ \A x \in net \cup {m} : x.req.id[1] = t.flow => x.req.id[2] <= t.step
  BY <1>5, <1>6, <1>13, <1>14, <1>15, Sends
<1>17. PICK M \in SUBSET Message : M = {m}
  BY <1>16
<1>18. MessageOk(m)
  BY <1>9, <1>12, <1>13, <1>16 DEF MessageOk
<1>19. used' \in Budget /\ used'.flows = used.flows /\ used.flows \in Nat
  BY <1>7, Parts, SpendingNothing
<1>20. Theirs(h, b.flow)
  BY <1>1, <1>7, <1>8, <1>13, <1>19 DEF Theirs, PlaceOf
<1>21. StepOf(h, t, M)
  BY <1>7, <1>16, <1>17, <1>18, <1>19, <1>20, Parts DEF StepOf
<1>22. granted' \in Nat /\ \A st \in au.may : granted' <= st.rec.fence
  BY <1>7, <1>8, <1>10, Grants
<1>23. StepTold(t, M)
  <2> SUFFICES ASSUME NEW st \in au.may
               PROVE  /\ granted' <= st.rec.fence /\ (\A a \in acked' : Covers(st.rec, a))
                      /\ (\A x \in M : Follows(st.rec, x.req.expected)) /\ ToldTo(t, st.rec)
    BY DEF StepTold
  <2>1. Follows(st.rec, Initial.rec)
    BY Parts, AuFields, FollowsInitial
  <2>2. Follows(st.rec, s.ans.rec) /\ s.gc.fence <= st.rec.fence
    BY <1>8 DEF ToldTo
  <2> QED
    BY <1>7, <1>13, <1>16, <1>17, <1>22, <2>1, <2>2, Parts DEF Told, ToldTo
<1>24. NewSpace(h, d.root) \in Space /\ NewSpace(h, d.root).man[1] = d.root /\ NewSpace(h, d.root).lock = h
       /\ NewSpace(h, d.root).tomb = FALSE
  <2>1. d.root \in Root \cup {NoRoot} /\ h \in Host \cup {NoHost}
    BY <1>11, <1>12
  <2> QED
    BY ZenonT(60), <2>1, NewSpaces
<1>25. /\ Widens /\ dir' \in [DOMAIN dir' -> Space] /\ DOMAIN dir' \subseteq Namespace /\ Apart(h)
       /\ d.ns \in DOMAIN dir' /\ dir'[d.ns] = NewSpace(h, d.root)
  BY <1>7, <1>9, <1>10, <1>12, <1>24, Parts, GrownRoot
<1>26. StepRoot
  BY <1>7, <1>22, <1>25, Parts DEF StepRoot
<1>27. ~InVolume(t) /\ Live(t) /\ t.kind # "gc"
  BY <1>9, <1>13, <1>16 DEF InVolume, Live, InSession, ClaimKind
<1>28. PlaceOf(t, used'.flows, backup')
  BY <1>9, <1>13, <1>16, <1>20, <1>12, <1>27 DEF Theirs, PlaceOf
<1>29. SentOf(t, net')
  BY <1>7, <1>16, <1>13, <1>27 DEF Asks, SentOf
<1>30. AnswerOf(t, net')
  BY <1>16 DEF AnswerOf
<1>31. HeldBy(h, t, net', dir') /\ SettledFor(t, au.may)
  BY <1>13, <1>16, <1>24, <1>25, <1>27 DEF HeldBy, SettledFor
<1>32. \A x \in M, st \in au.may : PendingOf(x, st, dir')
  BY <1>24, <1>25, <1>16, <1>17 DEF Holds, PendingOf
<1> QED
  BY <1>21, <1>23, <1>25, <1>26, <1>28, <1>29, <1>30, <1>31, <1>32, StepWide

(* The copy fails; the namespace left behind is named by nobody. *)
LEMMA ForkFailsKeeps ==
    ASSUME IInv, NEW h \in Host, ForkFails(h)
    PROVE  IInv'
<1>1. PICK s \in HostRec : s = host[h]
  BY Here
<1>2. /\ s.pc = "claim" /\ s.ans.tag = "ok" /\ Granted(s.ans.rec) /\ host' = [host EXCEPT ![h] = Off]
      /\ dir' = Grown(Claimed(s.ans.rec), NewSpace(NoHost, NoRoot)) /\ guard' = Unguarded(h)
      /\ Spend("process") /\ UNCHANGED <<au, fe, net, marker, backup, acked>>
  BY <1>1 DEF ForkFails, Answered, At, Become
<1>3. /\ PlaceOf(s, used.flows, backup) /\ SentOf(s, net) /\ AnswerOf(s, net)
      /\ \A st \in au.may : ToldTo(s, st.rec)
  BY <1>1, Here
<1>4. Claimed(s.ans.rec) \in Namespace
  BY <1>2, <1>3, ClaimAnswer
<1>5. NewSpace(NoHost, NoRoot) \in Space
  BY NewSpaces
<1>6. Widens /\ dir' \in [DOMAIN dir' -> Space] /\ DOMAIN dir' \subseteq Namespace /\ Apart(h)
  BY <1>2, <1>4, <1>5, Parts, GrownRoot
<1>7. used' \in Budget /\ used'.flows = used.flows /\ used.flows \in Nat
  BY <1>2, Parts, Spending
<1>8. PICK M \in SUBSET Message : M = {}
  OBVIOUS
<1>9. StepOf(h, Off, M)
  BY <1>2, <1>7, <1>8, Parts, OffFields DEF StepOf
<1>10. granted' \in Nat /\ \A st \in au.may : granted' <= st.rec.fence
  BY <1>2, <1>3, Grants
<1>11. StepTold(Off, M)
  BY OffFacts, Parts, AuFields, <1>2, <1>8, <1>10 DEF StepTold, Told
<1>12. StepRoot
  BY <1>2, <1>6, <1>10, Parts, Guards DEF StepRoot
<1>13. \A m \in M, st \in au.may : PendingOf(m, st, dir')
  BY <1>8
<1> QED
  BY <1>6, <1>9, <1>11, <1>12, <1>13, OffFacts, StepWide

(* A step that touches no namespace but n. *)
Spares(n) == \A x \in DOMAIN dir : x # n => x \in DOMAIN dir' /\ dir'[x] = dir[x]

(* What the others hold they hold after it. *)
LEMMA Spared ==
    ASSUME NEW n, Spares(n), NEW x, x # n, NEW r, Holds(dir, x, r)
    PROVE  Holds(dir', x, r)
  BY DEF Spares, Holds

(* The namespace retired is current in no state, and older than the claim *)
(* of any activation that may still be accepted. *)
LEMMA RetireKeepsRoot ==
    ASSUME IInv, NEW s \in HostRec, s.pc = "retire", PlaceOf(s, used.flows, backup), SettledFor(s, au.may),
           \A st \in au.may : ToldTo(s, st.rec), Spares(s.target), au' = au, net' = net
    PROVE  CurrentHeld' /\ Pending'
<1>1. \A st \in au.may : st.rec.cur.ns # s.target
  BY DEF SettledFor
<1>2. CurrentHeld'
  BY <1>1, Parts, Spared DEF CurrentHeld
<1>3. Pending'
  <2> SUFFICES ASSUME NEW m \in net, NEW st \in au.may, m.req.expected = st.rec
               PROVE  /\ m.req.action = "activate" => Holds(dir', m.req.desc.ns, m.req.desc.root)
                      /\ m.req.action = "advance" => Holds(dir', st.rec.cur.ns, m.req.desc.root)
    BY DEF Pending, PendingOf
  <2>1. PendingOf(m, st, dir)
    BY Parts DEF Pending
  <2>2. CASE m.req.action = "activate"
    <3>1. m.req.desc.ns = Claimed(st.rec)
      BY <2>2, Parts, NetFields DEF MessageOk
    <3>2. s.gc.fence <= st.rec.fence /\ s.target.fence < s.gc.fence
      BY DEF ToldTo, PlaceOf
    <3>3. s.target \in Namespace \cup {NoNamespace} /\ s.gc \in Record
      BY DEF HostRec
    <3>4. s.target.fence \in Int
      BY <3>3, NsFields DEF NoNamespace
    <3>5. s.gc.fence \in Int /\ st.rec.fence \in Int
      BY <3>3, RecFields, Parts, AuFields
    <3>6. m.req.desc.ns # s.target
      BY <3>1, <3>2, <3>4, <3>5 DEF Claimed
    <3> QED
      BY <2>1, <2>2, <3>6, Spared DEF PendingOf
  <2>3. CASE m.req.action = "advance"
    BY <2>1, <2>3, <1>1, Spared DEF PendingOf
  <2> QED
    BY <2>2, <2>3
<1> QED
  BY <1>2, <1>3

(* A step that retires keeps the invariant: a locked namespace is not *)
(* retired. *)
LEMMA RetireIInv ==
    ASSUME IInv, NEW h \in Host, NEW s \in HostRec, s = host[h], s.pc = "retire",
           NEW t \in HostRec, host' = [host EXCEPT ![h] = t], t.pc = "gc",
           t.kind = s.kind, t.flow = s.flow, t.step = s.step, t.rec = s.rec, t.desc = s.desc, t.slot = s.slot,
           t.ans = s.ans, t.gc \in {s.gc, Initial.rec},
           UNCHANGED <<au, fe, net, marker, guard, backup, acked, granted>>,
           used' \in Budget, used'.flows = used.flows,
           Spares(s.target), Retires(s.target) \/ dir' = dir,
           dir' \in [DOMAIN dir' -> Space], DOMAIN dir' \subseteq DOMAIN dir
    PROVE  IInv'
<1>1. /\ PlaceOf(s, used.flows, backup) /\ SentOf(s, net) /\ AnswerOf(s, net)
      /\ HeldBy(h, s, net, dir) /\ SettledFor(s, au.may)
      /\ \A st \in au.may : ToldTo(s, st.rec)
  BY Here
<1>2. CurrentHeld' /\ Pending'
  BY <1>1, RetireKeepsRoot
<1>3. \A n \in DOMAIN dir : dir[n].lock \in Host /\ ~dir[n].tomb => n \in DOMAIN dir' /\ dir'[n] = dir[n]
  BY Constants DEF Retires, Spares
<1>4. Apart(h)
  BY <1>3 DEF Apart
<1>5. /\ s.pc \in InSession /\ t.pc \in InSession \ {"advance"} /\ (Unsure(s) => Unsure(t))
  BY DEF InSession, Unsure
<1>6. /\ PlaceOf(t, used.flows, backup) /\ SentOf(t, net) /\ AnswerOf(t, net)
      /\ HeldBy(h, t, net, dir) /\ SettledFor(t, au.may)
  BY <1>1, <1>5, Within
<1>7. HeldBy(h, t, net, dir')
  BY <1>3, <1>6 DEF HeldBy
<1>8. PICK M \in SUBSET Message : M = {}
  OBVIOUS
<1>9. Theirs(h, t.flow)
  BY <1>1 DEF Theirs, PlaceOf
<1>10. StepOf(h, t, M)
  BY <1>8, <1>9, Parts DEF StepOf
<1>11. StepTold(t, M)
  <2> SUFFICES ASSUME NEW st \in au.may
               PROVE  /\ granted <= st.rec.fence /\ (\A a \in acked : Covers(st.rec, a)) /\ ToldTo(t, st.rec)
    BY <1>8 DEF StepTold
  <2>1. ToldTo(s, st.rec) /\ st.rec.fence \in Nat /\ Initial.rec.fence = 0
    BY <1>1, Parts, AuFields, RecFields, InitialRec
  <2> QED
    BY <2>1, Parts DEF ToldTo, Told
<1>12. StepRoot
  BY Parts DEF StepRoot, Types
<1>13. PlaceOf(t, used'.flows, backup') /\ SentOf(t, net') /\ AnswerOf(t, net') /\ HeldBy(h, t, net', dir')
  BY <1>6, <1>7
<1> QED
  BY <1>2, <1>4, <1>6, <1>10, <1>11, <1>12, <1>13, StepIInv

(* gc_retire. *)
LEMMA RetireKeeps ==
    ASSUME IInv, NEW h \in Host, Retire(h)
    PROVE  IInv'
<1>1. PICK s \in HostRec : s = host[h]
  BY Here
<1>2. PICK t : t = [s EXCEPT !.pc = "gc", !.target = NoNamespace]
  OBVIOUS
<1>3. /\ s.pc = "retire" /\ host' = [host EXCEPT ![h] = t] /\ SpendNothing
      /\ dir' = IF Retires(s.target) THEN [x \in DOMAIN dir \ {s.target} |-> dir[x]] ELSE dir
      /\ UNCHANGED <<au, fe, net, marker, guard, backup, acked, granted>>
  BY <1>1, <1>2 DEF Retire, At, Become
<1>4. "gc" \in PC /\ NoNamespace \in Namespace \cup {NoNamespace}
  BY DEF PC, InSession
<1>5. /\ t \in HostRec /\ t.kind = s.kind /\ t.flow = s.flow /\ t.step = s.step /\ t.rec = s.rec /\ t.desc = s.desc
      /\ t.slot = s.slot /\ t.ans = s.ans /\ t.pc = "gc" /\ t.gc = s.gc
  BY <1>2, <1>4 DEF HostRec
<1>6. used' \in Budget /\ used'.flows = used.flows
  BY <1>3, Parts, SpendingNothing
<1>7. dir \in [DOMAIN dir -> Space]
  BY Parts DEF Types
<1>8. /\ Spares(s.target) /\ (Retires(s.target) \/ dir' = dir)
      /\ dir' \in [DOMAIN dir' -> Space] /\ DOMAIN dir' \subseteq DOMAIN dir
  BY <1>3, <1>7 DEF Spares
<1> QED
  BY <1>1, <1>3, <1>5, <1>6, <1>8, RetireIInv

(* gc_retire failing after the rename. *)
LEMMA RetireFailsKeeps ==
    ASSUME IInv, NEW h \in Host, RetireFails(h)
    PROVE  IInv'
<1>1. PICK s \in HostRec : s = host[h]
  BY Here
<1>2. PICK t : t = [s EXCEPT !.pc = "gc", !.target = NoNamespace, !.gc = Initial.rec]
  OBVIOUS
<1>3. /\ s.pc = "retire" /\ host' = [host EXCEPT ![h] = t] /\ Spend("process") /\ Retires(s.target)
      /\ dir' = [dir EXCEPT ![s.target].tomb = TRUE]
      /\ UNCHANGED <<au, fe, net, marker, guard, backup, acked, granted>>
  BY <1>1, <1>2 DEF RetireFails, At, Become
<1>4. "gc" \in PC /\ NoNamespace \in Namespace \cup {NoNamespace} /\ Initial.rec \in Record
  BY InitialRec DEF PC, InSession
<1>5. /\ t \in HostRec /\ t.kind = s.kind /\ t.flow = s.flow /\ t.step = s.step /\ t.rec = s.rec /\ t.desc = s.desc
      /\ t.slot = s.slot /\ t.ans = s.ans /\ t.pc = "gc" /\ t.gc = Initial.rec
  BY <1>2, <1>4 DEF HostRec
<1>6. used' \in Budget /\ used'.flows = used.flows
  BY <1>3, Parts, Spending
<1>7. dir \in [DOMAIN dir -> Space]
  BY Parts DEF Types
<1>8. DOMAIN dir' = DOMAIN dir /\ Spares(s.target)
  BY <1>3, <1>7 DEF Spares
<1>9. \A x \in DOMAIN dir : dir'[x] \in Space
  <2> SUFFICES ASSUME NEW x \in DOMAIN dir PROVE dir'[x] \in Space
    OBVIOUS
  <2>1. PICK sp \in Space : sp = dir[x]
    BY <1>7
  <2>2. [sp EXCEPT !.tomb = TRUE] \in Space
    BY DEF Space
  <2>3. dir'[x] = IF x = s.target THEN [sp EXCEPT !.tomb = TRUE] ELSE sp
    BY <1>3, <1>7, <2>1
  <2> QED
    BY <2>2, <2>3
<1>10. dir' \in [DOMAIN dir' -> Space]
  BY <1>3, <1>7, <1>8, <1>9
<1> QED
  BY <1>1, <1>3, <1>5, <1>6, <1>8, <1>10, RetireIInv

(* What a session about to commit knows. *)
LEMMA Committing ==
    ASSUME IInv, NEW h \in Host, NEW s \in HostRec, s = host[h], s.pc = "checked"
    PROVE  /\ s.kind # "gc" /\ InVolume(s) /\ Live(s) /\ ~Unsure(s) /\ s.slot \in {1, 2} /\ OtherSlot(s) \in {1, 2}
           /\ OtherSlot(s) # s.slot /\ s.desc \in Descriptor /\ s.rec \in Record /\ s.rec.cur = s.desc
           /\ s.rec.phase = "active" /\ Valid(s.rec) /\ s.rec.session = <<s.flow, 1>> /\ s.rec.fence > 0
           /\ s.step \in Nat /\ s.step >= 2 /\ s.step <= s.desc.gen + 2 /\ s.flow <= used.flows
           /\ s.rec.cur.ns = Claimed(s.rec)
           /\ s.desc.ns \in DOMAIN dir /\ ~dir[s.desc.ns].tomb /\ dir[s.desc.ns].lock = h
           /\ dir[s.desc.ns].man[s.slot] = s.desc.root
           /\ Settled(au.may, s.rec)
           /\ \A st \in au.may : Follows(st.rec, s.rec)
           /\ \A m \in net : m.req.action = "advance" /\ m.req.expected.session = s.rec.session =>
                 m.req.expected.cur.gen < s.rec.cur.gen
  BY Here, Parts, SettledSession, HostFields DEF PlaceOf, InVolume, Live, InSession, Unsure, OtherSlot,
     HeldBy, SettledFor, ToldTo

(* It writes the other manifest of its namespace. *)
Rewrites(s, r) == dir' = [dir EXCEPT ![s.desc.ns].man[OtherSlot(s)] = r]

(* That touches no other namespace and leaves the manifest committed last. *)
LEMMA OtherManifest ==
    ASSUME IInv, NEW h \in Host, NEW s \in HostRec, s = host[h], s.pc = "checked",
           NEW r \in Root \cup {NoRoot}, Rewrites(s, r)
    PROVE  /\ dir' \in [DOMAIN dir' -> Space] /\ DOMAIN dir' = DOMAIN dir /\ Spares(s.desc.ns) /\ Apart(h)
           /\ ~dir'[s.desc.ns].tomb /\ dir'[s.desc.ns].lock = h
           /\ dir'[s.desc.ns].man[s.slot] = s.desc.root /\ dir'[s.desc.ns].man[OtherSlot(s)] = r
<1>1. /\ s.slot \in {1, 2} /\ OtherSlot(s) \in {1, 2} /\ OtherSlot(s) # s.slot
      /\ s.desc.ns \in DOMAIN dir /\ ~dir[s.desc.ns].tomb /\ dir[s.desc.ns].lock = h
      /\ dir[s.desc.ns].man[s.slot] = s.desc.root
  BY Committing
<1>2. PICK n \in DOMAIN dir : n = s.desc.ns
  BY <1>1
<1>3. PICK j \in {1, 2} : j = OtherSlot(s)
  BY <1>1
<1>4. PICK sp \in Space : sp = dir[n]
  BY Parts, SpaceFields
<1>5. PICK mn \in [1..2 -> Root \cup {NoRoot}] : mn = [sp.man EXCEPT ![j] = r]
  BY DEF Space
<1>6. mn[j] = r /\ \A i \in {1, 2} : i # j => mn[i] = sp.man[i]
  BY <1>5 DEF Space
<1>7. PICK sq : sq = [sp EXCEPT !.man = mn]
  OBVIOUS
<1>8. sq \in Space /\ sq.man = mn /\ sq.lock = sp.lock /\ sq.tomb = sp.tomb
  BY <1>7 DEF Space
<1>9. dir \in [DOMAIN dir -> Space]
  BY Parts DEF Types
<1>10. dir' = [dir EXCEPT ![n] = sq]
  BY <1>2, <1>3, <1>4, <1>5, <1>7 DEF Rewrites
<1>11. DOMAIN dir' = DOMAIN dir /\ dir'[n] = sq /\ \A x \in DOMAIN dir : x # n => dir'[x] = dir[x]
  BY <1>9, <1>10
<1>12. dir' \in [DOMAIN dir' -> Space]
  BY <1>8, <1>9, <1>10, <1>11
<1>13. Spares(s.desc.ns)
  BY <1>2, <1>11 DEF Spares
<1>14. Apart(h)
  BY <1>1, <1>2, <1>11 DEF Apart
<1>15. sq.man[s.slot] = s.desc.root
  BY <1>1, <1>2, <1>3, <1>4, <1>6, <1>8
<1> QED
  BY <1>1, <1>2, <1>3, <1>4, <1>6, <1>8, <1>11, <1>12, <1>13, <1>14, <1>15

(* No state of the authority, now or once a request it may still accept is *)
(* served, names the manifest written over. *)
LEMMA CommitKeepsRoot ==
    ASSUME IInv, NEW h \in Host, NEW s \in HostRec, s = host[h], s.pc = "checked",
           NEW r \in Root \cup {NoRoot}, Rewrites(s, r), au' = au
    PROVE  CurrentHeld' /\ \A m \in net, st \in au.may : PendingOf(m, st, dir')
<1>1. /\ s.slot \in {1, 2} /\ s.desc \in Descriptor /\ s.rec \in Record /\ s.rec.cur = s.desc
      /\ s.rec.phase = "active" /\ s.rec.cur.ns = Claimed(s.rec) /\ s.desc.ns \in DOMAIN dir
      /\ Settled(au.may, s.rec)
      /\ \A st \in au.may : Follows(st.rec, s.rec)
      /\ \A m \in net : m.req.action = "advance" /\ m.req.expected.session = s.rec.session =>
            m.req.expected.cur.gen < s.rec.cur.gen
  BY Committing
<1>2. /\ DOMAIN dir' = DOMAIN dir /\ Spares(s.desc.ns) /\ ~dir'[s.desc.ns].tomb
      /\ dir'[s.desc.ns].man[s.slot] = s.desc.root
  BY OtherManifest
<1>3. Holds(dir', s.desc.ns, s.desc.root)
  BY <1>1, <1>2 DEF Holds
<1>4. CurrentHeld'
  <2> SUFFICES ASSUME NEW st \in au.may, st.rec.cur # NoDescriptor
               PROVE  Holds(dir', st.rec.cur.ns, st.rec.cur.root)
    BY DEF CurrentHeld
  <2>1. Holds(dir, st.rec.cur.ns, st.rec.cur.root)
    BY Parts DEF CurrentHeld
  <2>2. CASE st.rec.cur.ns = s.desc.ns
    BY <1>1, <1>3, <2>2 DEF Settled
  <2>3. CASE st.rec.cur.ns # s.desc.ns
    BY <1>2, <2>1, <2>3, Spared
  <2> QED
    BY <2>2, <2>3
<1>5. ASSUME NEW m \in net, NEW st \in au.may, m.req.expected = st.rec
      PROVE  /\ m.req.action = "activate" => Holds(dir', m.req.desc.ns, m.req.desc.root)
             /\ m.req.action = "advance" => Holds(dir', st.rec.cur.ns, m.req.desc.root)
  <2>1. PendingOf(m, st, dir) /\ MessageOk(m) /\ st.rec \in Record /\ Valid(st.rec)
    BY Parts, NetFields, AuFields DEF Pending
  <2>2. NotEarlier(st.rec, s.rec)
    BY <1>1 DEF Follows
  <2>3. st.rec.fence \in Nat /\ s.rec.fence \in Nat /\ st.rec.cur.gen \in Int /\ s.rec.cur.gen \in Int
    BY <1>1, <2>1, RecFields, DescAny
  <2>4. Rank(s.rec.phase) = 1
    BY <1>1 DEF Rank
  <2>5. CASE m.req.action = "activate"
    BY <1>5, <2>1, <2>5, <2>2, <2>3, <2>4, <1>1, <1>2, Spared DEF MessageOk, Rank, NotEarlier, Claimed,
       PendingOf
  <2>6. CASE m.req.action = "advance"
    <3>1. st.rec.phase = "active"
      BY <1>5, <2>1, <2>6 DEF MessageOk
    <3>2. Rank(st.rec.phase) = 1 /\ st.rec.cur.ns = Claimed(st.rec)
      BY <2>1, <3>1, OwnSpace DEF Rank
    <3>3. st.rec.cur.ns # s.desc.ns
      <4> SUFFICES ASSUME st.rec.cur.ns = s.desc.ns PROVE FALSE
        OBVIOUS
      <4>1. st.rec.fence = s.rec.fence /\ st.rec.session = s.rec.session
        BY <1>1, <3>2 DEF Claimed
      <4>2. st.rec.cur.gen < s.rec.cur.gen
        BY <1>1, <1>5, <2>6, <4>1
      <4> QED
        BY <2>2, <2>3, <2>4, <3>2, <4>1, <4>2 DEF NotEarlier
    <3> QED
      BY <1>2, <1>5, <2>1, <2>6, <3>3, Spared DEF PendingOf
  <2> QED
    BY <2>5, <2>6
<1>6. \A m \in net, st \in au.may : PendingOf(m, st, dir')
  BY <1>5 DEF PendingOf
<1> QED
  BY <1>4, <1>6

(* State::commit up to the advance: what the advance would make current is *)
(* on the root. *)
LEMMA CommitWriteKeeps ==
    ASSUME IInv, NEW h \in Host, CommitWrite(h)
    PROVE  IInv'
<1>1. PICK s \in HostRec : s = host[h]
  BY Here
<1>2. PICK r : r = [gen |-> s.desc.gen + 1, data |-> s.desc.root.data \cup {<<s.flow, s.step + 1>>}]
  OBVIOUS
<1>3. PICK d : d = [s.desc EXCEPT !.gen = r.gen, !.root = r]
  OBVIOUS
<1>4. PICK t : t = Requesting(s, "advance")
  OBVIOUS
<1>5. PICK m : m = Sent(t, "advance", d)
  OBVIOUS
<1>6. /\ s.pc = "checked" /\ s.desc.gen < MaxGeneration
      /\ dir' = [dir EXCEPT ![s.desc.ns].man[OtherSlot(s)] = r]
      /\ net' = net \cup {m} /\ host' = [host EXCEPT ![h] = t]
      /\ Spend("commit") /\ UNCHANGED <<au, fe, marker, guard, backup, acked, granted>>
  BY <1>1, <1>2, <1>3, <1>4, <1>5 DEF CommitWrite, At, Transact, Become, Requesting
<1>7. /\ PlaceOf(s, used.flows, backup) /\ SentOf(s, net) /\ \A st \in au.may : ToldTo(s, st.rec)
  BY <1>1, Here
<1>8. /\ s.kind # "gc" /\ InVolume(s) /\ ~Unsure(s) /\ s.slot \in {1, 2}
      /\ s.desc \in Descriptor /\ s.rec \in Record /\ s.rec.cur = s.desc
      /\ s.rec.phase = "active" /\ Valid(s.rec) /\ s.rec.session = <<s.flow, 1>> /\ s.rec.fence > 0
      /\ s.step \in Nat /\ s.step >= 2 /\ s.step <= s.desc.gen + 2 /\ s.flow <= used.flows
      /\ s.desc.ns \in DOMAIN dir /\ \A st \in au.may : Follows(st.rec, s.rec)
  BY <1>1, <1>6, Committing
<1>9. s.desc.gen \in 0..MaxGeneration /\ s.desc.root \in Root /\ s.desc.root.data \subseteq Op
  BY <1>8, DescFields
<1>10. s.step + 1 \in 0..(MaxGeneration + 3) /\ s.step + 1 \in 1..(MaxGeneration + 4)
       /\ s.desc.gen + 1 \in 0..MaxGeneration
  <2>1. PICK g \in 0..MaxGeneration : g = s.desc.gen
    BY <1>9
  <2>2. PICK k \in Nat : k = s.step
    BY <1>8
  <2>3. g < MaxGeneration /\ k <= g + 2
    BY <1>6, <1>8, <2>1, <2>2
  <2>4. k + 1 \in 0..(MaxGeneration + 3) /\ k + 1 \in 1..(MaxGeneration + 4) /\ g + 1 \in 0..MaxGeneration
    BY <2>3, Constants
  <2> QED
    BY <2>1, <2>2, <2>4
<1>11. <<s.flow, s.step + 1>> \in Op
  BY <1>10, HostFields, PairOp
<1>12. r \in Root /\ r.gen = s.desc.gen + 1 /\ r.data = s.desc.root.data \cup {<<s.flow, s.step + 1>>}
  BY <1>2, <1>9, <1>10, <1>11, Constants
<1>13. d \in Descriptor /\ d.gen = s.desc.gen + 1 /\ d.root = r
  BY <1>3, <1>8, <1>10, <1>12 DEF Descriptor
<1>14. "advance" \in Waiting /\ "advance" \in Verb /\ d \in Descriptor \cup {NoDescriptor}
       /\ r \in Root \cup {NoRoot}
  BY <1>12, <1>13, Verbs DEF Waiting
<1>15. \A x \in net : x.req.id[1] = s.flow => x.req.id[2] <= s.step
  BY <1>6, <1>7 DEF SentOf
<1>16. /\ t \in HostRec /\ t.pc = "advance" /\ t.kind = s.kind /\ t.flow = s.flow /\ t.step = s.step + 1
       /\ t.rec = s.rec /\ t.desc = s.desc /\ t.slot = s.slot /\ t.gc = s.gc
       /\ t.ans.tag = "none" /\ t.ans.rec = Initial.rec
       /\ m \in Message /\ m.req.expected = s.rec /\ m.req.action = "advance" /\ m.req.desc = d
       /\ m.req.id = <<t.flow, t.step>> /\ m.req.id[1] = s.flow /\ m.req.id[2] = t.step
       /\ \A x \in net : ~Own(t, x)
       /\ \A x \in net \cup {m} : x.req.id[1] = t.flow => x.req.id[2] <= t.step
  BY <1>4, <1>5, <1>10, <1>14, <1>15, Sends
<1>17. PICK M \in SUBSET Message : M = {m}
  BY <1>16
<1>18. MessageOk(m)
  BY <1>8, <1>16, <1>12, <1>13 DEF MessageOk
<1>19. used' \in Budget /\ used'.flows = used.flows /\ used.flows \in Nat
  BY <1>6, Parts, Spending
<1>20. Theirs(h, s.flow)
  BY <1>1, <1>6, <1>8, <1>19 DEF Theirs
<1>21. StepOf(h, t, M)
  BY <1>6, <1>16, <1>17, <1>18, <1>19, <1>20, Parts DEF StepOf
<1>22. StepTold(t, M)
  <2> SUFFICES ASSUME NEW st \in au.may
               PROVE  /\ granted' <= st.rec.fence /\ (\A a \in acked' : Covers(st.rec, a))
                      /\ (\A x \in M : Follows(st.rec, x.req.expected)) /\ ToldTo(t, st.rec)
    BY DEF StepTold
  <2>1. Follows(st.rec, Initial.rec)
    BY Parts, AuFields, FollowsInitial
  <2> QED
    BY <1>6, <1>7, <1>8, <1>16, <1>17, <2>1, Parts DEF Told, ToldTo
<1>23. /\ dir' \in [DOMAIN dir' -> Space] /\ DOMAIN dir' = DOMAIN dir /\ Apart(h)
       /\ ~dir'[s.desc.ns].tomb /\ dir'[s.desc.ns].lock = h
       /\ dir'[s.desc.ns].man[s.slot] = s.desc.root /\ dir'[s.desc.ns].man[OtherSlot(s)] = r
  <2>1. s = host[h] /\ s.pc = "checked" /\ Rewrites(s, r)
    BY <1>1, <1>6 DEF Rewrites
  <2> QED
    BY <2>1, <1>14, OtherManifest
<1>24. StepRoot
  BY <1>6, <1>23, Parts DEF StepRoot, Types
<1>25. CurrentHeld' /\ \A x \in net, st \in au.may : PendingOf(x, st, dir')
  BY <1>1, <1>6, <1>14, CommitKeepsRoot DEF Rewrites
<1>26. InVolume(t) /\ Live(t) /\ Unsure(t)
  BY <1>8, <1>16 DEF InVolume, Live, Unsure, InSession
<1>27. PlaceOf(t, used'.flows, backup')
  BY <1>8, <1>9, <1>16, <1>6, <1>19, <1>26 DEF PlaceOf
<1>28. SentOf(t, net')
  <2>1. \A x \in net' : Own(t, x) => x = m
    BY <1>6, <1>16
  <2>2. Asks(t) = "advance"
    BY <1>16 DEF Asks
  <2>3. ASSUME NEW x \in net', x.req.action = "advance", x.req.id[1] = t.flow
        PROVE  x.req.expected.cur.gen <= t.desc.gen
    <3>1. CASE x \in net
      BY <1>7, <1>8, <1>16, <2>3, <3>1 DEF SentOf
    <3>2. CASE x = m
      BY <1>8, <1>9, <1>16, <3>2
    <3> QED
      BY <1>6, <3>1, <3>2
  <2> QED
    BY <1>6, <1>13, <1>16, <1>26, <2>1, <2>2, <2>3 DEF SentOf
<1>29. AnswerOf(t, net')
  BY <1>16 DEF AnswerOf
<1>30. HeldBy(h, t, net', dir')
  BY <1>6, <1>16, <1>8, <1>13, <1>23, <1>26 DEF OtherSlot, HeldBy
<1>31. SettledFor(t, au.may)
  BY <1>16, <1>26 DEF SettledFor
<1>32. Pending'
  <2>1. OtherSlot(s) \in 1..2
    BY <1>8 DEF OtherSlot
  <2>2. Holds(dir', s.desc.ns, r)
    BY <1>8, <1>23, <2>1 DEF Holds
  <2>3. \A st \in au.may : PendingOf(m, st, dir')
    BY <1>8, <1>13, <1>16, <2>2 DEF PendingOf
  <2> QED
    BY <1>6, <1>25, <2>3 DEF Pending
<1> QED
  BY <1>21, <1>22, <1>23, <1>24, <1>25, <1>27, <1>28, <1>29, <1>30, <1>31, <1>32, StepIInv

(* State::commit failing while it writes. *)
LEMMA CommitFailsKeeps ==
    ASSUME IInv, NEW h \in Host, CommitFails(h)
    PROVE  IInv'
<1>1. PICK s \in HostRec : s = host[h]
  BY Here
<1>2. PICK t : t = [s EXCEPT !.pc = "stopped"]
  OBVIOUS
<1>3. PICK r \in Root \cup {NoRoot} : r = NoRoot
  OBVIOUS
<1>4. /\ s.pc = "checked" /\ dir' = [dir EXCEPT ![s.desc.ns].man[OtherSlot(s)] = r]
      /\ host' = [host EXCEPT ![h] = t]
      /\ Spend("process") /\ UNCHANGED <<au, fe, net, marker, guard, backup, acked, granted>>
  BY <1>1, <1>2, <1>3 DEF CommitFails, At, Become
<1>5. /\ PlaceOf(s, used.flows, backup) /\ SentOf(s, net) /\ AnswerOf(s, net)
      /\ HeldBy(h, s, net, dir) /\ SettledFor(s, au.may) /\ \A st \in au.may : ToldTo(s, st.rec)
  BY <1>1, Here
<1>6. s.kind # "gc" /\ s.flow <= used.flows /\ s.desc.ns \in DOMAIN dir
  BY <1>1, <1>4, Committing
<1>7. "stopped" \in PC
  BY DEF PC, InSession
<1>8. /\ t \in HostRec /\ t.kind = s.kind /\ t.flow = s.flow /\ t.step = s.step /\ t.rec = s.rec
      /\ t.desc = s.desc /\ t.slot = s.slot /\ t.ans = s.ans /\ t.pc = "stopped" /\ t.gc = s.gc
  BY <1>2, <1>7 DEF HostRec
<1>9. /\ s.pc \in InSession /\ t.pc \in InSession \ {"advance"} /\ (Unsure(s) => Unsure(t))
  BY <1>4, <1>8 DEF InSession, Unsure
<1>10. /\ PlaceOf(t, used.flows, backup) /\ SentOf(t, net) /\ AnswerOf(t, net) /\ SettledFor(t, au.may)
  BY <1>5, <1>6, <1>8, <1>9, Within
<1>11. /\ dir' \in [DOMAIN dir' -> Space] /\ DOMAIN dir' = DOMAIN dir /\ Apart(h)
       /\ ~dir'[s.desc.ns].tomb /\ dir'[s.desc.ns].lock = h
       /\ dir'[s.desc.ns].man[s.slot] = s.desc.root
  <2>1. s = host[h] /\ s.pc = "checked" /\ Rewrites(s, r)
    BY <1>1, <1>4 DEF Rewrites
  <2> QED
    BY <2>1, OtherManifest
<1>12. HeldBy(h, t, net, dir')
  BY <1>6, <1>8, <1>11 DEF HeldBy
<1>13. CurrentHeld' /\ \A x \in net, st \in au.may : PendingOf(x, st, dir')
  BY <1>1, <1>4, CommitKeepsRoot DEF Rewrites
<1>14. Pending'
  BY <1>4, <1>13 DEF Pending
<1>15. used' \in Budget /\ used'.flows = used.flows /\ used.flows \in Nat
  BY <1>4, Parts, Spending
<1>16. PICK M \in SUBSET Message : M = {}
  OBVIOUS
<1>17. Theirs(h, t.flow)
  BY <1>1, <1>4, <1>6, <1>8, <1>15 DEF Theirs
<1>18. StepOf(h, t, M)
  BY <1>4, <1>8, <1>15, <1>16, <1>17, Parts DEF StepOf
<1>19. StepTold(t, M)
  BY <1>4, <1>5, <1>8, <1>16, Parts DEF StepTold, Told, ToldTo
<1>20. StepRoot
  BY <1>4, <1>11, Parts DEF StepRoot, Types
<1>21. PlaceOf(t, used'.flows, backup') /\ SentOf(t, net') /\ AnswerOf(t, net') /\ HeldBy(h, t, net', dir')
  BY <1>4, <1>10, <1>12, <1>15
<1> QED
  BY <1>10, <1>11, <1>13, <1>14, <1>18, <1>19, <1>20, <1>21, StepIInv

(* The requests that enrolled and activated the first session. *)
LEMMA FirstRequests ==
    ASSUME NEW st, st.rec \in Record, NEW act \in Verb, NEW d \in Descriptor \cup {NoDescriptor},
           NEW k \in 1..(MaxGeneration + 4)
    PROVE  /\ First(st, act, d, k) \in Message /\ First(st, act, d, k).role = "writer"
           /\ First(st, act, d, k).req.id = <<0, k>> /\ First(st, act, d, k).req.expected = st.rec
           /\ First(st, act, d, k).req.action = act /\ First(st, act, d, k).req.desc = d
           /\ First(st, act, d, k).req.auth = 0
  BY Constants, PairOp DEF Request, First, Message, Role

(* Its namespace and descriptor. *)
LEMMA FirstDescriptors ==
    /\ FirstSpace \in Namespace /\ FirstRoot \in Root /\ FirstDescriptor \in Descriptor
    /\ FirstSpace = [fence |-> 1, session |-> <<0, 1>>] /\ <<0, 1>> \in Op /\ <<0, 2>> \in Op
    /\ FirstDescriptor.gen = 0 /\ FirstDescriptor.epoch = 0 /\ FirstDescriptor.ns = FirstSpace
    /\ FirstDescriptor.root = FirstRoot
  BY Constants, PairOp DEF FirstSpace, Namespace, FirstRoot, FirstDescriptor, Descriptor

(* Its claim. *)
LEMMA FirstClaims ==
    /\ FirstClaimed.auth = 0 /\ FirstClaimed.rec \in Record /\ Valid(FirstClaimed.rec)
    /\ FirstClaimed.rec.cur = NoDescriptor /\ FirstClaimed.rec.phase = "claimed"
    /\ FirstClaimed.rec.src = NoDescriptor /\ FirstClaimed.rec.fence = 1
    /\ FirstClaimed.rec.session = <<0, 1>>
<1>1. PICK m : m = First(Initial, "claim", NoDescriptor, 1)
  OBVIOUS
<1>2. PICK q : q = m.req
  OBVIOUS
<1>3. "claim" \in Verb /\ "claim" \in Installing /\ NoDescriptor \in Descriptor \cup {NoDescriptor}
      /\ 1 \in 1..(MaxGeneration + 4) /\ Initial.rec \in Record
  BY Verbs, Constants, InitialRec DEF Installing
<1>4. /\ m.role = "writer" /\ q.id = <<0, 1>> /\ q.action = "claim" /\ q.auth = 0
  BY <1>1, <1>2, <1>3, FirstRequests
<1>5. FirstClaimed = [rec |-> Successor(Initial.rec, q), req |-> [role |-> m.role, req |-> q], auth |-> q.auth]
  BY <1>1, <1>2, <1>3, <1>4 DEF FirstClaimed, AfterFirst, Applied
<1>6. PICK e \in Record : e = Initial.rec
  BY <1>3
<1>7. e.cur = NoDescriptor /\ e.fence = 0
  BY <1>6, InitialRec
<1>8. PICK r : r = Successor(e, q)
  OBVIOUS
<1>9. r = [[e EXCEPT !.src = NoDescriptor, !.phase = "claimed", !.fence = 1, !.session = <<0, 1>>]
               EXCEPT !.last = <<0, 1>>]
  BY <1>3, <1>4, <1>7, <1>8 DEF Transition, Installed, Successor
<1>10. 1 \in 0..MaxFence /\ <<0, 1>> \in Op /\ "claimed" \in Phase
  BY Constants, FirstDescriptors DEF Phase
<1>11. /\ r \in Record /\ r.cur = NoDescriptor /\ r.phase = "claimed" /\ r.src = NoDescriptor /\ r.fence = 1
       /\ r.session = <<0, 1>> /\ r.last = <<0, 1>>
  BY <1>7, <1>9, <1>10 DEF Record
<1>12. Valid(r)
  BY <1>10, <1>11, Constants DEF Valid
<1> QED
  BY <1>4, <1>5, <1>6, <1>8, <1>11, <1>12

(* Its activation. *)
LEMMA FirstActivates ==
    /\ FirstActive \in State /\ FirstActive.req \in Message /\ Made(FirstActive.rec, FirstActive.req)
    /\ FirstActive.rec \in Record /\ Valid(FirstActive.rec) /\ FirstActive.rec.phase = "active"
    /\ FirstActive.rec.cur = FirstDescriptor /\ FirstActive.rec.fence = 1 /\ FirstActive.rec.session = <<0, 1>>
<1>1. PICK m : m = First(FirstClaimed, "activate", FirstDescriptor, 2)
  OBVIOUS
<1>2. PICK q : q = m.req
  OBVIOUS
<1>3. "activate" \in Verb /\ "activate" \notin Installing /\ FirstDescriptor \in Descriptor \cup {NoDescriptor}
      /\ 2 \in 1..(MaxGeneration + 4) /\ FirstClaimed.rec \in Record
  BY Verbs, Constants, FirstDescriptors, FirstClaims DEF Installing
<1>4. /\ m \in Message /\ m.role = "writer" /\ q.id = <<0, 2>> /\ q.expected = FirstClaimed.rec
      /\ q.action = "activate" /\ q.desc = FirstDescriptor
  BY <1>1, <1>2, <1>3, FirstRequests
<1>5. PICK e \in Record : e = FirstClaimed.rec
  BY <1>3
<1>6. /\ e.cur = NoDescriptor /\ e.phase = "claimed" /\ e.src = NoDescriptor /\ e.fence = 1
      /\ e.session = <<0, 1>> /\ Valid(e)
  BY <1>5, FirstClaims
<1>7. FirstActive = [rec |-> Successor(e, q), req |-> [role |-> m.role, req |-> q], auth |-> 0]
  BY <1>1, <1>2, <1>3, <1>4, <1>5, FirstClaims DEF FirstActive, AfterFirst, Applied
<1>8. FirstActive.req = m
  BY <1>2, <1>4, <1>7, MessageFields
<1>9. Claimed(e) = FirstSpace
  BY <1>6, FirstDescriptors DEF Claimed
<1>10. MessageOk(m)
  BY <1>2, <1>4, <1>5, <1>6, <1>9, FirstDescriptors DEF MessageOk
<1>11. MayActivate(e, m.role, q.desc)
  BY <1>4, <1>6, <1>9, FirstDescriptors, DescFields DEF MayActivate
<1>12. PICK r : r = Successor(e, q)
  OBVIOUS
<1>13. Made(r, m)
  BY <1>2, <1>4, <1>5, <1>11, <1>12 DEF Made, Permitted
<1>14. /\ r \in Record /\ r.cur = FirstDescriptor /\ r.fence = 1 /\ r.session = <<0, 1>> /\ r.last = <<0, 2>>
       /\ r.phase = "active" /\ Claimed(r) = FirstSpace
  BY <1>2, <1>4, <1>5, <1>6, <1>9, <1>10, <1>13, MadeActivate
<1>15. r.src = NoDescriptor
  BY <1>4, <1>12 DEF Transition, Installing, Successor, Record
<1>16. Valid(r)
  BY FirstDescriptors, Constants, DescFields, <1>14, <1>15 DEF Valid
<1>17. 0 \in Auth
  BY Constants
<1>18. FirstActive = [rec |-> r, req |-> m, auth |-> 0]
  BY <1>7, <1>8, <1>12
<1>19. FirstActive \in State
  BY <1>4, <1>14, <1>17, <1>18 DEF State
<1> QED
  BY <1>4, <1>13, <1>14, <1>16, <1>18, <1>19

(* The process that starts with the first session. *)
Held == [Off EXCEPT !.pc = "active", !.kind = "create", !.step = 2, !.rec = FirstActive.rec,
                    !.desc = FirstDescriptor, !.slot = 1]

(* Its fields. *)
LEMMA HeldFields ==
    /\ Held \in HostRec /\ Held.pc = "active" /\ Held.kind = "create" /\ Held.flow = 0 /\ Held.step = 2
    /\ Held.rec = FirstActive.rec /\ Held.desc = FirstDescriptor /\ Held.slot = 1
    /\ Held.ans.tag = "none" /\ Held.ans.rec = Initial.rec /\ Held.gc = Initial.rec
<1>1. /\ "active" \in PC /\ "create" \in ClaimKind \cup {"none", "gc"} /\ 2 \in 0..(MaxGeneration + 3)
      /\ FirstActive.rec \in Record /\ FirstDescriptor \in Descriptor \cup {NoDescriptor} /\ 1 \in 0..2
  BY Constants, FirstActivates, FirstDescriptors DEF PC, InSession, ClaimKind
<1>2. PICK s \in HostRec : s = Off
  BY OffFields
<1>3. PICK rec \in Record : rec = FirstActive.rec
  BY <1>1
<1>4. Held = [s EXCEPT !.pc = "active", !.kind = "create", !.step = 2, !.rec = rec,
                       !.desc = FirstDescriptor, !.slot = 1]
  BY <1>2, <1>3 DEF Held
<1>5. /\ Held \in HostRec /\ Held.pc = "active" /\ Held.kind = "create" /\ Held.flow = s.flow /\ Held.step = 2
      /\ Held.rec = rec /\ Held.desc = FirstDescriptor /\ Held.slot = 1 /\ Held.ans = s.ans /\ Held.gc = s.gc
  BY <1>1, <1>4 DEF HostRec
<1> QED
  BY <1>2, <1>3, <1>5, OffFields

(* What the invariant says of it. *)
LEMMA HeldFacts ==
    ASSUME NEW bak, NEW h, NEW D, FirstSpace \in DOMAIN D, ~D[FirstSpace].tomb, D[FirstSpace].lock = h,
           D[FirstSpace].man[1] = FirstRoot
    PROVE  /\ PlaceOf(Held, 0, bak) /\ SentOf(Held, {}) /\ AnswerOf(Held, {})
           /\ HeldBy(h, Held, {}, D) /\ SettledFor(Held, {FirstActive}) /\ ToldTo(Held, FirstActive.rec)
<1> USE HeldFields
<1>1. InVolume(Held) /\ Live(Held) /\ ~Unsure(Held) /\ Held.pc \notin Waiting
  BY DEF InVolume, Live, Unsure, InSession, Waiting
<1>2. PlaceOf(Held, 0, bak)
  BY FirstDescriptors, <1>1, FirstActivates DEF PlaceOf
<1>3. SentOf(Held, {}) /\ AnswerOf(Held, {})
  BY <1>1 DEF SentOf, AnswerOf
<1>4. HeldBy(h, Held, {}, D)
  BY FirstDescriptors DEF HeldBy
<1>5. SettledFor(Held, {FirstActive})
  BY DEF SettledFor, Settled
<1>6. ToldTo(Held, FirstActive.rec)
  BY FirstActivates, FollowsSelf, FollowsInitial, InitialRec DEF ToldTo
<1> QED
  BY <1>2, <1>3, <1>4, <1>5, <1>6

(* What both starts have in common. *)
LEMMA Starts ==
    ASSUME net = {}, fe = [f \in Frontend |-> Idle], guard = NoHost, backup = NoDescriptor, acked = {},
           used \in Budget, used.flows = 0, marker \in BOOLEAN, granted \in Nat,
           NEW k \in {"file", "etcd"}, NEW first \in State,
           au = [kind |-> k, bad |-> FALSE, now |-> first, may |-> {first}],
           Valid(first.rec), first.rec # Initial.rec => first.req \in Message /\ Made(first.rec, first.req),
           granted <= first.rec.fence, host \in [Host -> HostRec],
           dir \in [DOMAIN dir -> Space], DOMAIN dir \subseteq Namespace,
           \A h \in Host : /\ PlaceOf(host[h], 0, NoDescriptor) /\ SentOf(host[h], {}) /\ AnswerOf(host[h], {})
                           /\ HeldBy(h, host[h], {}, dir) /\ SettledFor(host[h], {first})
                           /\ ToldTo(host[h], first.rec),
           \A g, h \in Host : g # h => host[g].pc = "idle" \/ host[h].pc = "idle",
           first.rec.cur # NoDescriptor => Holds(dir, first.rec.cur.ns, first.rec.cur.root)
    PROVE  IInv
  BY DEF Authorities, Types, Served, Asked, Told, Hosts, Kept, CurrentHeld, Pending, Spaces, Settles, IInv,
     Acks

(* The invariant holds initially. *)
LEMMA InitIInv == Init => IInv
<1> SUFFICES ASSUME Init PROVE IInv
  OBVIOUS
<1>1. /\ net = {} /\ fe = [f \in Frontend |-> Idle] /\ guard = NoHost /\ backup = NoDescriptor /\ acked = {}
  BY DEF Init
<1>2. PICK x \in Setting :
        /\ InitFresh(x.kind) \/ InitHeld(x.kind)
        /\ used = [flows |-> 0, publish |-> x.publish, process |-> x.process, commit |-> x.commit]
  BY DEF Init
<1>3. x.kind \in {"file", "etcd"} /\ x.publish \in Nat /\ x.process \in Nat /\ x.commit \in Nat
  BY RemoteAssumption
<1>4. used \in Budget /\ used.flows = 0
  BY <1>2, <1>3, Constants DEF Budget
<1>5. CASE InitFresh(x.kind)
  <2>1. /\ au = [kind |-> x.kind, bad |-> FALSE, now |-> Initial, may |-> {Initial}]
        /\ dir = [n \in {} |-> NewSpace(NoHost, NoRoot)] /\ marker = FALSE /\ host = [h \in Host |-> Off]
        /\ granted = 0
    BY <1>5 DEF InitFresh
  <2>2. dir \in [DOMAIN dir -> Space] /\ DOMAIN dir \subseteq Namespace
    BY <2>1
  <2>3. host \in [Host -> HostRec] /\ \A h \in Host : host[h] = Off /\ host[h].pc = "idle"
    BY <2>1, OffFields
  <2>4. Initial \in State /\ Valid(Initial.rec) /\ Initial.rec \in Record /\ Initial.rec.fence = 0
        /\ Initial.rec.cur = NoDescriptor
    BY InitialRec
  <2>5. \A h \in Host : /\ PlaceOf(Off, 0, NoDescriptor) /\ SentOf(Off, {}) /\ AnswerOf(Off, {})
                        /\ HeldBy(h, Off, {}, dir) /\ SettledFor(Off, {Initial})
                        /\ ToldTo(Off, Initial.rec)
    BY <2>4, OffFacts
  <2>6. granted \in Nat /\ granted <= Initial.rec.fence /\ marker \in BOOLEAN
    <3>1. granted = 0 /\ Initial.rec.fence = 0
      BY <2>1, <2>4
    <3>2. granted \in Nat /\ granted <= Initial.rec.fence
      BY <3>1
    <3>3. marker \in BOOLEAN
      BY <2>1
    <3> QED
      BY <3>2, <3>3
  <2>7. \A h \in Host : /\ PlaceOf(host[h], 0, NoDescriptor) /\ SentOf(host[h], {}) /\ AnswerOf(host[h], {})
                        /\ HeldBy(h, host[h], {}, dir) /\ SettledFor(host[h], {Initial})
                        /\ ToldTo(host[h], Initial.rec)
    BY <2>3, <2>5
  <2> QED
    BY <1>1, <1>3, <1>4, <2>1, <2>2, <2>3, <2>4, <2>6, <2>7, Starts
<1>6. CASE InitHeld(x.kind)
  <2>1. /\ au = [kind |-> x.kind, bad |-> FALSE, now |-> FirstActive, may |-> {FirstActive}]
        /\ marker = TRUE /\ granted = 1
    BY <1>6 DEF InitHeld
  <2>2. PICK h \in Host : /\ dir = [n \in {FirstSpace} |-> NewSpace(h, FirstRoot)]
                          /\ host = [g \in Host |-> IF g = h THEN Held ELSE Off]
    BY <1>6 DEF InitHeld, Held
  <2>3. NewSpace(h, FirstRoot) \in Space /\ NewSpace(h, FirstRoot).man[1] = FirstRoot
        /\ NewSpace(h, FirstRoot).lock = h /\ NewSpace(h, FirstRoot).tomb = FALSE
    <3>1. h \in Host \cup {NoHost} /\ FirstRoot \in Root \cup {NoRoot}
      BY FirstDescriptors
    <3> QED
      BY ZenonT(60), <3>1, NewSpaces
  <2>4. /\ dir \in [DOMAIN dir -> Space] /\ DOMAIN dir \subseteq Namespace /\ FirstSpace \in DOMAIN dir
        /\ dir[FirstSpace] = NewSpace(h, FirstRoot)
    BY <2>2, <2>3, FirstDescriptors
  <2>5. /\ host \in [Host -> HostRec] /\ host[h] = Held
        /\ \A g \in Host : g # h => host[g] = Off /\ host[g].pc = "idle"
    BY <2>2, OffFields, HeldFields
  <2>6. /\ FirstActive \in State /\ FirstActive.req \in Message /\ Made(FirstActive.rec, FirstActive.req)
        /\ FirstActive.rec \in Record /\ Valid(FirstActive.rec)
        /\ FirstActive.rec.cur = FirstDescriptor /\ FirstActive.rec.fence = 1
    BY FirstActivates
  <2>7. /\ PlaceOf(Held, 0, NoDescriptor) /\ SentOf(Held, {}) /\ AnswerOf(Held, {})
        /\ HeldBy(h, Held, {}, dir) /\ SettledFor(Held, {FirstActive}) /\ ToldTo(Held, FirstActive.rec)
    BY <2>3, <2>4, HeldFacts
  <2>8. \A g \in Host : /\ PlaceOf(Off, 0, NoDescriptor) /\ SentOf(Off, {}) /\ AnswerOf(Off, {})
                        /\ HeldBy(g, Off, {}, dir) /\ SettledFor(Off, {FirstActive})
                        /\ ToldTo(Off, FirstActive.rec)
    BY <2>6, OffFacts
  <2>9. \A g \in Host : /\ PlaceOf(host[g], 0, NoDescriptor) /\ SentOf(host[g], {}) /\ AnswerOf(host[g], {})
                        /\ HeldBy(g, host[g], {}, dir) /\ SettledFor(host[g], {FirstActive})
                        /\ ToldTo(host[g], FirstActive.rec)
    BY <2>5, <2>7, <2>8
  <2>10. Holds(dir, FirstActive.rec.cur.ns, FirstActive.rec.cur.root)
    BY <2>3, <2>4, <2>6, FirstDescriptors DEF Holds
  <2>11. granted \in Nat /\ granted <= FirstActive.rec.fence /\ marker \in BOOLEAN
    BY <2>1, <2>6
  <2>12. \A g, k \in Host : g # k => host[g].pc = "idle" \/ host[k].pc = "idle"
    BY <2>5
  <2> QED
    BY <1>1, <1>3, <1>4, <2>1, <2>4, <2>5, <2>6, <2>9, <2>10, <2>11, <2>12, Starts
<1> QED
  BY <1>2, <1>5, <1>6

(* A step that changes nothing keeps it. *)
LEMMA StutterIInv ==
    ASSUME IInv, UNCHANGED vars
    PROVE  IInv'
  BY Parts DEF vars, Types, Served, Asked, Told, Hosts, Kept, CurrentHeld, Pending, Spaces, Settles, IInv,
     Acks

(* Every step keeps it. *)
LEMMA NextIInv == IInv /\ [Next]_vars => IInv'
<1> SUFFICES ASSUME IInv, [Next]_vars PROVE IInv'
  OBVIOUS
<1>0. Types /\ Served /\ Asked
  BY Parts
<1>1. ASSUME NEW m \in net, Handle(m) PROVE IInv'
  BY <1>0, <1>1, HandleMoves, MoveIInv
<1>2. ASSUME NEW m \in net, HandleFails(m) PROVE IInv'
  BY <1>0, <1>2, HandleFailsMoves, MoveIInv
<1>3. ASSUME NEW m \in net, NEW f \in Frontend, Load(f, m) PROVE IInv'
  BY <1>0, <1>3, LoadMoves, MoveIInv
<1>4. ASSUME AuthorityRestarts PROVE IInv'
  BY <1>0, <1>4, RestartMoves, MoveIInv
<1>5. ASSUME NEW f \in Frontend, Commit(f) PROVE IInv'
  BY <1>0, <1>5, CommitMoves, MoveIInv
<1>6. ASSUME NEW h \in Host, NEW k \in DOMAIN ClaimVerb \ {"open"}, Approve(h, k) PROVE IInv'
  BY <1>6, ApproveKeeps DEF ClaimVerb, ClaimKind
<1>7. ASSUME NEW h \in Host, Begin(h) PROVE IInv'
  BY <1>7, BeginKeeps
<1>8. ASSUME NEW h \in Host, BeginRefused(h) PROVE IInv'
  BY <1>8, BeginRefusedKeeps
<1>9. ASSUME NEW h \in Host, Open(h) PROVE IInv'
  BY <1>9, OpenKeeps
<1>10. ASSUME NEW h \in Host, CollectRemote(h) PROVE IInv'
  BY <1>10, CollectRemoteKeeps
<1>11. ASSUME NEW h \in Host, ActivateFork(h) PROVE IInv'
  BY <1>11, ActivateForkKeeps
<1>12. ASSUME NEW h \in Host, ForkFails(h) PROVE IInv'
  BY <1>12, ForkFailsKeeps
<1>13. ASSUME NEW h \in Host, ActivateDone(h) PROVE IInv'
  BY <1>13, ActivateDoneKeeps
<1>14. ASSUME NEW h \in Host, Fails(h) PROVE IInv'
  BY <1>14, FailsKeeps
<1>15. ASSUME NEW h \in Host, Collect(h) PROVE IInv'
  BY <1>15, CollectKeeps
<1>16. ASSUME NEW h \in Host, Candidate(h) PROVE IInv'
  BY <1>16, CandidateKeeps
<1>17. ASSUME NEW h \in Host, Retire(h) PROVE IInv'
  BY <1>17, RetireKeeps
<1>18. ASSUME NEW h \in Host, RetireFails(h) PROVE IInv'
  BY <1>18, RetireFailsKeeps
<1>19. ASSUME NEW h \in Host, CollectEnds(h) PROVE IInv'
  BY <1>19, CollectEndsKeeps
<1>20. ASSUME NEW h \in Host, Check(h) PROVE IInv'
  BY <1>20, CheckKeeps
<1>21. ASSUME NEW h \in Host, CommitWrite(h) PROVE IInv'
  BY <1>21, CommitWriteKeeps
<1>22. ASSUME NEW h \in Host, CommitFails(h) PROVE IInv'
  BY <1>22, CommitFailsKeeps
<1>23. ASSUME NEW h \in Host, AdvanceDone(h) PROVE IInv'
  BY <1>23, AdvanceDoneKeeps
<1>24. ASSUME NEW h \in Host, Snapshot(h) PROVE IInv'
  BY <1>24, SnapshotKeeps
<1>25. ASSUME NEW h \in Host, Drop(h) PROVE IInv'
  BY <1>25, DropKeeps
<1>26. ASSUME NEW h \in Host, Crash(h) PROVE IInv'
  BY <1>26, CrashKeeps
<1>27. CASE UNCHANGED vars
  BY <1>27, StutterIInv
<1> QED
  BY <1>1, <1>2, <1>3, <1>4, <1>5, <1>6, <1>7, <1>8, <1>9, <1>10, <1>11, <1>12, <1>13, <1>14, <1>15, <1>16,
     <1>17, <1>18, <1>19, <1>20, <1>21, <1>22, <1>23, <1>24, <1>25, <1>26, <1>27 DEF Next

(* The invariant holds always. *)
THEOREM Inductive == Spec => []IInv
  BY InitIInv, NextIInv, PTL DEF Spec

(* It implies what is claimed of answers. *)
LEMMA AcksFollow == IInv => AckedKept
<1> SUFFICES ASSUME IInv PROVE AckedKept
  OBVIOUS
<1>1. TypeOK
  BY Parts, AuFields, NetFields, Here, HostFields DEF Served, Types, PlaceOf, TypeOK
<1> QED
  BY <1>1, Parts DEF AckedKept, Told, Covers

(* It implies what is claimed of the current generation. *)
LEMMA CurrentFollows == IInv => CurrentKept
  BY Parts DEF CurrentKept, CurrentHeld, Holds, Loads

(* It implies what is claimed of sessions. *)
LEMMA SessionFollows == IInv => SessionKept
<1> SUFFICES ASSUME IInv, NEW h \in Host, At(h, InSession), host[h].desc # NoDescriptor
             PROVE  /\ host[h].desc.ns \in DOMAIN dir /\ ~dir[host[h].desc.ns].tomb
                    /\ dir[host[h].desc.ns].lock = h
                    /\ dir[host[h].desc.ns].man[host[h].slot] = host[h].desc.root
                    /\ \A st \in au.may : st.rec = host[h].rec => st.rec.cur = host[h].desc
  BY DEF SessionKept
<1>1. PlaceOf(host[h], used.flows, backup) /\ HeldBy(h, host[h], net, dir)
  BY Here
<1>2. InVolume(host[h]) /\ Live(host[h])
  BY <1>1 DEF PlaceOf, InVolume, Live, At
<1> QED
  BY <1>1, <1>2 DEF PlaceOf, HeldBy

(* What the authority has answered survives in every state that a crash, a *)
(* failed publication or a lost answer may leave it in *)
(* (StateStore::handle, EtcdStore::handle, open_backing): it never falls *)
(* below a fence it granted, and its current descriptor contains every *)
(* commit a writer was told succeeded, unless a restore raised the epoch. *)
THEOREM AcksAreKept == Spec => []AckedKept
  BY Inductive, AcksFollow, PTL

(* The generation the authority calls current can be loaded from the *)
(* backing root, whatever writers, revoked or not (State::commit), and *)
(* collections (gc_retire) do. *)
THEOREM CurrentIsKept == Spec => []CurrentKept
  BY Inductive, CurrentFollows, PTL

(* A live session, revoked or not, keeps its namespace, the lock on it and *)
(* the manifest it committed last; and one whose record the authority *)
(* still holds serves what the authority calls current. *)
THEOREM SessionsAreKept == Spec => []SessionKept
  BY Inductive, SessionFollows, PTL
=============================================================================
