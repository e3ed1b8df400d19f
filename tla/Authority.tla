----------------------------- MODULE Authority -----------------------------
(***************************************************************************)
(* The state machine of the remote freshness authority (maki-backing       *)
(* remote_witness.rs): one record for one volume, changed only by a        *)
(* request that names the whole record it expects.  Both storages of the   *)
(* authority, the file store and the etcd key, apply requests with it.     *)
(*                                                                         *)
(* Abstractions.  A digest is the value it digests, so the hash kept of    *)
(* the last request is the request with its role, and a root is whatever   *)
(* the writer says it is.  The volume identity is the same in all records. *)
(* Encoding and its checksum are left out.                                 *)
(***************************************************************************)
EXTENDS Integers

CONSTANTS
    Op,             \* operation ids of requests
    Auth,           \* session authorizations
    Root,           \* manifest digests
    NoRoot,         \* the root of an absent descriptor
    NilOp,          \* the nil operation id
    NilAuth,        \* no authorization hash
    MaxGeneration,  \* MAX_GENERATION
    MaxFence        \* u64::MAX, the bound on fences

ASSUME AuthorityAssumption ==
    /\ NilOp \notin Op /\ NilAuth \notin Auth /\ NoRoot \notin Root
    /\ MaxGeneration \in Nat /\ MaxFence \in Nat

Namespace == [fence : 1..MaxFence, session : Op]
NoNamespace == [fence |-> 0, session |-> NilOp]

Descriptor == [gen : 0..MaxGeneration, root : Root, epoch : 0..MaxGeneration, ns : Namespace]
NoDescriptor == [gen |-> -1, root |-> NoRoot, epoch |-> -1, ns |-> NoNamespace]

Phase == {"released", "claimed", "restore", "active"}

Record ==
    [cur : Descriptor \cup {NoDescriptor}, fence : 0..MaxFence, session : Op \cup {NilOp},
     phase : Phase, src : Descriptor \cup {NoDescriptor}, last : Op \cup {NilOp}]

Installing == {"claim", "takeover", "recover", "claim_restore"}
Verb == Installing \cup {"activate", "advance", "release"}

\* A mutating request.  desc is the descriptor of ClaimRestore and Activate
\* and carries the anchor of Advance.
Request ==
    [id : Op, expected : Record, action : Verb, desc : Descriptor \cup {NoDescriptor}, auth : Auth]

Role == {"writer", "admin"}

NoRequest == [role |-> "writer", req |-> NilOp]

\* Stored: the record, the last request applied and the session's authorization.
Initial ==
    [rec |-> [cur |-> NoDescriptor, fence |-> 0, session |-> NilOp, phase |-> "released",
              src |-> NoDescriptor, last |-> NilOp],
     req |-> NoRequest, auth |-> NilAuth]

\* namespace(fence, session)
Claimed(rec) == [fence |-> rec.fence, session |-> rec.session]

\* An earlier descriptor of this volume.
Earlier(src, rec) ==
    /\ src.gen <= rec.cur.gen /\ src.epoch <= rec.cur.epoch /\ src.ns.fence <= rec.fence

\* Record::validate
Valid(rec) ==
    IF rec.fence = 0 THEN rec = Initial.rec
    ELSE /\ rec.session # NilOp /\ rec.last # NilOp
         /\ rec.cur # NoDescriptor => /\ rec.cur.epoch <= rec.cur.gen /\ rec.cur.ns.fence <= rec.fence
                                      /\ rec.phase = "active" => rec.cur.ns = Claimed(rec)
         /\ rec.phase \in {"active", "restore"} => rec.cur # NoDescriptor
         /\ (rec.phase = "restore") = (rec.src # NoDescriptor)
         /\ rec.src # NoDescriptor => rec.src.epoch <= rec.src.gen /\ Earlier(rec.src, rec)

-----------------------------------------------------------------------------
(* transition: which requests a record admits and what they make of it. *)

MayInstall(rec, role, req) ==
    /\ req.action = "claim" => rec.phase = "released"
    /\ req.action # "claim" => role = "admin"
    /\ req.action = "takeover" => rec.cur # NoDescriptor
    /\ req.action = "recover" => rec.cur = NoDescriptor /\ rec.phase \in {"released", "claimed"}
    /\ req.action = "claim_restore" =>
         /\ rec.cur # NoDescriptor /\ req.desc # NoDescriptor
         /\ req.desc.epoch <= req.desc.gen /\ Earlier(req.desc, rec)
         /\ rec.cur.gen < MaxGeneration /\ rec.cur.epoch < MaxGeneration
    /\ rec.fence < MaxFence

Installed(rec, req) ==
    [rec EXCEPT !.src = IF req.action = "claim_restore" THEN req.desc ELSE NoDescriptor,
                !.phase = IF req.action = "claim_restore" THEN "restore" ELSE "claimed",
                !.fence = @ + 1, !.session = req.id]

MayActivate(rec, role, d) ==
    /\ d # NoDescriptor /\ d.epoch <= d.gen /\ d.ns = Claimed(rec)
    /\ \/ /\ rec.phase = "claimed"
          /\ IF rec.cur = NoDescriptor THEN d.gen = 0 /\ d.epoch = 0
             ELSE d.gen = rec.cur.gen /\ d.root = rec.cur.root /\ d.epoch = rec.cur.epoch
       \/ /\ rec.phase = "restore" /\ role = "admin"
          /\ d.gen = rec.cur.gen + 1 /\ d.epoch = rec.cur.epoch + 1

MayAdvance(rec, d) == rec.phase = "active" /\ d # NoDescriptor /\ d.gen = rec.cur.gen + 1

MayRelease(rec, role) == rec.phase # "released" /\ (rec.phase = "restore" => role = "admin")

Permitted(rec, role, req) ==
    \/ req.action \in Installing /\ MayInstall(rec, role, req)
    \/ req.action = "activate" /\ MayActivate(rec, role, req.desc)
    \/ req.action = "advance" /\ MayAdvance(rec, req.desc)
    \/ req.action = "release" /\ MayRelease(rec, role)

Transition(rec, req) ==
    CASE req.action \in Installing -> Installed(rec, req)
      [] req.action = "activate" -> [rec EXCEPT !.cur = req.desc, !.src = NoDescriptor, !.phase = "active"]
      [] req.action = "advance" -> [rec EXCEPT !.cur.gen = req.desc.gen, !.cur.root = req.desc.root]
      [] req.action = "release" -> [rec EXCEPT !.phase = "released", !.src = NoDescriptor]

-----------------------------------------------------------------------------
(* CanonicalState::apply *)

Replays(st, role, req) == req.id = st.rec.last /\ st.req = [role |-> role, req |-> req]

\* The exact comparison with the whole record.
Expects(st, req) == req.expected = st.rec

\* The record with which an accepted request leaves the authority.
Successor(rec, req) == [Transition(rec, req) EXCEPT !.last = req.id]

Accepts(st, role, req) ==
    /\ req.id # st.rec.last /\ Expects(st, req)
    /\ req.action \notin Installing => req.auth = st.auth
    /\ Permitted(st.rec, role, req) /\ Valid(Successor(st.rec, req))

Applied(st, role, req) ==
    [rec |-> Successor(st.rec, req),
     req |-> [role |-> role, req |-> req],
     auth |-> IF req.action \in Installing THEN req.auth ELSE st.auth]

\* The states an accepted request leaves: none when it is refused.
Apply(st, role, req) ==
    IF Replays(st, role, req) THEN {st}
    ELSE IF Accepts(st, role, req) THEN {Applied(st, role, req)} ELSE {}
=============================================================================
