---------------------------- MODULE DaemonProofs ----------------------------
(***************************************************************************)
(* Proofs about Daemon, for every value of its constants: the acknowledged *)
(* drain covers what it says it covers, a shutdown that returned Ok has *)
(* released the volume and the socket, the volume lock is exclusive, no *)
(* daemon takes a live socket path away from another, and a callback *)
(* answered with success has done and synced all it was asked for. *)
(* *)
(* DrainCovers and StopReleases are not inductive: that no record is newer *)
(* than the checkpoint rests on nobody being inside a drained gate, which *)
(* rests on one drain at a time, which rests on who may be alive at each *)
(* stage of a process.  RepliesEarned needs, of a callback that runs, that *)
(* the engine calls it has left lead from where it is to the end of its *)
(* extent and that its sync is still ahead.  IInv conjoins these, and each *)
(* conjunct is kept by Next under the ones it needs. *)
(***************************************************************************)
EXTENDS Daemon, FiniteSetTheorems, TLAPS

(* Where a caller stands between closing the gate and the outcome of its *)
(* drain (drain.rs). *)
Stage == {"register", "check", "await", "flush", "checkpoint"}

(* Where a shutdown() stands while it holds the adapter's shutdown mutex. *)
HoldsMutex == {"drain", "worker", "join"} \cup Stage

(* Where a shutdown() still holds its clone of the adapter's state. *)
HasEngine == {"drain", "worker"} \cup Stage

(* The types of a process record, a callback and a volume's records. What *)
(* a callback has done so far is the subject of Earns below. *)
Proc == [up : {"new", "recovered", "bound", "ready", "failed", "exited"},
         state : BOOLEAN, mutex : Stopper \cup {NoOne},
         loop : {"off", "serving", "aborting", "ended", "left"},
         signal : BOOLEAN, busy : Session \cup {NoOne}]

IsCall(c) == c \in [pc : {"idle", "valid", "run", "replied"}, req : {c.req}, calls : {c.calls},
                    done : {c.done}, reply : {c.reply}]

Records == [clean : BOOLEAN, unsynced : SUBSET Thread]

(* The type invariant. *)
Types ==
  /\ volume \in [Daemon -> Volume]
  /\ proc \in [Daemon -> Proc]
  /\ gate \in [Daemon -> Gate(Caller)]
  /\ call = [t \in Thread |-> call[t]] /\ \A t \in Thread : IsCall(call[t])
  /\ sess \in [Session -> {"none", "idle", "admin", "drain"} \cup Stage]
  /\ stop \in [Stopper -> {"no", "mutex", "ok", "err"} \cup HoldsMutex]
  /\ path \in Daemon \cup {"nothing", "dead", "file"}
  /\ eng \in [Volume -> Records]

(* The callbacks and the administrative verbs that are inside daemon d's *)
(* gate. *)
InsideT(d) == {t \in OfD(d, Thread) : call[t].pc \in {"valid", "run"}}
InsideS(d) == {s \in OfD(d, Session) : sess[s] = "admin"}

(* The gate's counter is their number. *)
Counted == \A d \in Daemon : gate[d].active = Cardinality(InsideT(d)) + Cardinality(InsideS(d))

(* One drain at a time, and it owns the closed gate: whoever stands *)
(* between CloseGate and FinishDrain is the holder of the drain mutex and *)
(* the phase is draining; from the check on nobody is inside; a daemon *)
(* that has not started yet has an open gate. *)
DrainAlone ==
  /\ \A c \in Caller : At(c) \in Stage =>
       gate[OwnerOf[c]].drainer = c /\ gate[OwnerOf[c]].phase = "draining"
  /\ \A c \in Caller : At(c) \in {"flush", "checkpoint"} => gate[OwnerOf[c]].active = 0
  /\ \A d \in Daemon : gate[d].phase = "drained" => gate[d].active = 0
  /\ \A d \in Daemon : proc[d].up \in {"new", "recovered"} => gate[d].phase = "running"

(* The volume lock: one daemon holds a volume. *)
Exclusive == \A d, e \in Daemon : Holds(d) /\ Holds(e) /\ volume[d] = volume[e] => d = e

(* An acknowledged drain has every record of the volume under a *)
(* checkpoint. *)
Covered == \A d \in Daemon : gate[d].phase = "drained" /\ Holds(d) => eng[volume[d]].clean

(* Who lives when: callbacks only after a complete start, sessions only *)
(* while the serve loop lives, shutdown() only after the adapter is *)
(* stored, and the socket path names a process that runs without listening *)
(* only where the removal of the socket failed. *)
Life ==
  /\ \A t \in Thread : call[t].pc \in {"valid", "run"} => proc[OwnerOf[t]].up = "ready"
  /\ \A s \in Session : sess[s] # "none" => Listening(OwnerOf[s])
  /\ \A u \in Stopper : stop[u] # "no" => proc[OwnerOf[u]].up \in {"ready", "failed"}
  /\ \A d \in Daemon : /\ Listening(d) \/ proc[d].loop = "left" => proc[d].up \in {"bound", "ready", "failed"}
                       /\ proc[d].up = "bound" => proc[d].state
                       /\ path = d => proc[d].up = "exited" \/ Listening(d) \/ proc[d].loop = "left"

(* Shutdown: its mutex has one owner, past the drain the gate is drained, *)
(* and once the adapter's state is gone nothing in the process refers to *)
(* the engine. *)
Released ==
  /\ \A u \in Stopper : stop[u] \in HoldsMutex => proc[OwnerOf[u]].mutex = u
  /\ \A u \in Stopper : stop[u] \in {"worker", "join"} => gate[OwnerOf[u]].phase = "drained"
  /\ \A u \in Stopper : stop[u] = "ok" => ~proc[OwnerOf[u]].state
  /\ \A d \in Daemon : proc[d].up \in {"ready", "failed"} /\ ~proc[d].state =>
       /\ ~Listening(d)
       /\ \A t \in OfD(d, Thread) : call[t].pc # "run"
       /\ \A u \in OfD(d, Stopper) : stop[u] \notin HasEngine

(* The engine calls of the adapter (adapter.rs). *)
Kinds == {"read", "write", "trim", "flush", "checkpoint"}
EngineCalls == [kind : Kinds, lo : Nat, hi : Nat, fua : BOOLEAN]

(* The engine calls of a callback, one after the other, lead from lo to *)
(* hi without a gap. *)
Leads(s, lo, hi) ==
  /\ s = <<>> => lo = hi
  /\ s # <<>> => s[1].lo = lo /\ s[Len(s)].hi = hi
  /\ \A i \in 1..Len(s) : /\ s[i].lo \in Nat /\ s[i].hi \in Nat /\ s[i].lo <= s[i].hi
                          /\ i < Len(s) => s[i].hi = s[i + 1].lo

(* The sync that a callback with FUA asks for is still to come: the last *)
(* call has it, or no call that is left writes a record. *)
Writes(c) == c.kind \in {"write", "trim"}
SyncAhead(s) == s[Len(s)].fua /\ Writes(s[Len(s)])
WritesNot(s) == \A i \in 1..Len(s) : ~Writes(s[i])

(* A callback that runs: what it has done and the calls it has left make *)
(* its extent. *)
Underway(c) ==
  /\ c.calls \in Seq(EngineCalls) /\ c.calls # <<>>
  /\ HasExtent(c.req) =>
       /\ c.req.off + c.req.len <= Size
       /\ \E at \in Nat : /\ c.req.off <= at /\ c.done = Blocks(c.req.off, at)
                          /\ Leads(c.calls, at, c.req.off + c.req.len)
  /\ ~HasExtent(c.req) => /\ Len(c.calls) = 1 /\ WritesNot(c.calls) /\ c.done = {}
                          /\ Head(c.calls).lo = 0 /\ Head(c.calls).hi = 0

(* What thread t's callback c has earned by now, when the volume's records *)
(* of the threads in S are not synced. *)
Earns(t, c, S) ==
  /\ c.reply = "ok" => c.pc = "replied"
  /\ c.pc # "idle" => c.req \in Request
  /\ c.pc \in {"idle", "valid"} => c.done = {} /\ t \notin S
  /\ c.pc = "run" => Underway(c)
  /\ c.pc = "run" /\ c.req.fua => SyncAhead(c.calls) \/ (WritesNot(c.calls) /\ t \notin S)
  /\ c.reply = "ok" => /\ HasExtent(c.req) => c.done = Blocks(c.req.off, c.req.off + c.req.len)
                       /\ c.done \subseteq Blocks(0, Size)
                       /\ c.req.fua => t \notin S

(* Every callback has earned what it is about to be, or was, told. *)
Earned == \A t \in Thread : Earns(t, call[t], eng[volume[OwnerOf[t]]].unsynced)

(* The inductive invariant. *)
IInv == Types /\ Counted /\ DrainAlone /\ Exclusive /\ Covered /\ Life /\ Released /\ Earned

(* The disjuncts of Next, by who takes the step. *)
DaemonStep(d) == Start(d) \/ ProcessEnds(d) \/ Loop(d)
ThreadStep(t) == \/ CallValidate(t) \/ CallRun(t) \/ CallReplied(t)
                 \/ \E r \in Requests : CallEnter(t, r)
                 \/ \E e \in {"invalid", "full", "other"} : CallFails(t, e)
SessionStep(s) == LoopAccept(s) \/ LoopAborts(s) \/ SessionEnds(s) \/ Verb(s) \/ AdminEnds(s)
DrainStep(c) == \/ DrainLock(c) \/ DrainRegister(c) \/ DrainCheck(c) \/ DrainAwait(c)
                \/ DrainFlush(c) \/ DrainCheckpoint(c)
StopStep(u) == StopCall(u) \/ StopMutex(u) \/ StopSignal(u) \/ StopJoin(u)
-----------------------------------------------------------------------------

(* Every step is a step of one daemon, thread, session, drain or stopper, *)
(* or of the environment. *)
LEMMA Steps ==
  ASSUME Next
  PROVE  \/ \E d \in Daemon : DaemonStep(d)
         \/ \E t \in Thread : ThreadStep(t)
         \/ \E s \in Session : SessionStep(s)
         \/ \E c \in Caller : DrainStep(c)
         \/ \E u \in Stopper : StopStep(u)
         \/ PathChanges
         \/ Done
  BY DEF Next, DaemonStep, ThreadStep, SessionStep, DrainStep, StopStep, Running, Draining, Stopping

(* What each kind of step leaves alone. *)
LEMMA Frames ==
  /\ \A d \in Daemon : Start(d) => UNCHANGED <<volume, gate, call, sess, stop>>
  /\ \A d \in Daemon : Loop(d) => UNCHANGED <<volume, gate, call, sess, stop, eng>>
  /\ \A d \in Daemon : ProcessEnds(d) => UNCHANGED <<volume, path>>
  /\ \A t \in Thread : ThreadStep(t) => UNCHANGED <<volume, proc, sess, stop, path>>
  /\ \A s \in Session : SessionStep(s) => UNCHANGED <<volume, call, stop, path>>
  /\ \A c \in Caller : DrainStep(c) => UNCHANGED <<volume, call, path>>
  /\ \A u \in Stopper : StopStep(u) => UNCHANGED <<volume, gate, call, sess, path, eng>>
  /\ PathChanges => UNCHANGED <<volume, proc, gate, call, sess, stop, eng>>
  /\ Done => UNCHANGED vars
<1>1. ASSUME NEW d \in Daemon, Start(d) PROVE UNCHANGED <<volume, gate, call, sess, stop>>
  BY <1>1 DEF Start, StartRecover, StartBind, StartPublish
<1>2. ASSUME NEW d \in Daemon, Loop(d) PROVE UNCHANGED <<volume, gate, call, sess, stop, eng>>
  BY <1>2 DEF Loop, LoopBreaks, LoopEnds
<1>3. ASSUME NEW d \in Daemon, ProcessEnds(d) PROVE UNCHANGED <<volume, path>>
  BY <1>3 DEF ProcessEnds
<1>4. ASSUME NEW t \in Thread, ThreadStep(t) PROVE UNCHANGED <<volume, proc, sess, stop, path>>
  BY <1>4 DEF ThreadStep, CallEnter, CallValidate, CallRun, CallFails, CallReplied
<1>5. ASSUME NEW s \in Session, SessionStep(s) PROVE UNCHANGED <<volume, call, stop, path>>
  BY <1>5 DEF SessionStep, LoopAccept, LoopAborts, SessionEnds, Verb, AdminEnds
<1>6. ASSUME NEW c \in Caller, DrainStep(c) PROVE UNCHANGED <<volume, call, path>>
  BY <1>6 DEF DrainStep, DrainLock, DrainRegister, DrainCheck, DrainAwait, DrainFlush, DrainCheckpoint
<1>7. ASSUME NEW u \in Stopper, StopStep(u) PROVE UNCHANGED <<volume, gate, call, sess, path, eng>>
  BY <1>7 DEF StopStep, StopCall, StopMutex, StopSignal, StopJoin
<1>8. PathChanges => UNCHANGED <<volume, proc, gate, call, sess, stop, eng>>
  BY DEF PathChanges
<1>9. Done => UNCHANGED vars
  BY DEF Done
<1> QED
  BY <1>1, <1>2, <1>3, <1>4, <1>5, <1>6, <1>7, <1>8, <1>9

(* Every critical section of the gate (drain.rs) yields a gate. *)
LEMMA GateTypes ==
  ASSUME NEW g \in Gate(Caller)
  PROVE  /\ NewGate \in Gate(Caller)
         /\ Enter(g) \in Gate(Caller)
         /\ g.active > 0 => Leave(g) \in Gate(Caller)
         /\ Register(g) \in Gate(Caller)
         /\ DropWaiter(g) \in Gate(Caller)
         /\ Woken(g) \in Gate(Caller)
         /\ CancelDrain(g) \in Gate(Caller)
         /\ \A ok \in BOOLEAN : FinishDrain(g, ok) \in Gate(Caller)
         /\ \A c \in Caller : CloseGate(g, c) \in Gate(Caller)
<1> USE DEF Gate
<1>1. NewGate \in Gate(Caller)
  BY DEF NewGate
<1>2. Enter(g) \in Gate(Caller)
  BY DEF Enter
<1>3. ASSUME NEW h \in Gate(Caller) PROVE NotifyOne(h) \in Gate(Caller)
  BY DEF NotifyOne
<1>4. g.active > 0 => Leave(g) \in Gate(Caller)
  BY <1>3 DEF Leave
<1>5. Register(g) \in Gate(Caller)
  BY DEF Register
<1>6. DropWaiter(g) \in Gate(Caller)
  BY DEF DropWaiter
<1>7. Woken(g) \in Gate(Caller)
  BY DEF Woken
<1>8. CancelDrain(g) \in Gate(Caller)
  BY <1>6 DEF CancelDrain
<1>9. ASSUME NEW ok \in BOOLEAN PROVE FinishDrain(g, ok) \in Gate(Caller)
  BY DEF FinishDrain
<1>10. ASSUME NEW c \in Caller PROVE CloseGate(g, c) \in Gate(Caller)
  BY DEF CloseGate
<1> QED
  BY <1>1, <1>2, <1>4, <1>5, <1>6, <1>7, <1>8, <1>9, <1>10

(* What each critical section does to the phase, the counter and the *)
(* holder of the drain mutex. *)
LEMMA GateSteps ==
  ASSUME NEW g \in Gate(Caller)
  PROVE  /\ Enter(g).active = g.active + 1 /\ Enter(g).phase = g.phase /\ Enter(g).drainer = g.drainer
         /\ Leave(g).active = g.active - 1 /\ Leave(g).phase = g.phase /\ Leave(g).drainer = g.drainer
         /\ Register(g).active = g.active /\ Register(g).phase = g.phase /\ Register(g).drainer = g.drainer
         /\ DropWaiter(g).active = g.active /\ DropWaiter(g).phase = g.phase /\ DropWaiter(g).drainer = g.drainer
         /\ Woken(g).active = g.active /\ Woken(g).phase = g.phase /\ Woken(g).drainer = g.drainer
         /\ CancelDrain(g).active = g.active /\ CancelDrain(g).phase = g.phase /\ CancelDrain(g).drainer = NoOne
         /\ FinishDrain(g, TRUE).active = g.active /\ FinishDrain(g, TRUE).phase = "drained"
         /\ FinishDrain(g, FALSE).active = g.active /\ FinishDrain(g, FALSE).phase = "failed"
         /\ \A c \in Caller : /\ CloseGate(g, c).active = g.active /\ CloseGate(g, c).phase = "draining"
                         /\ CloseGate(g, c).drainer = c
<1> USE DEF Gate
<1>1. Enter(g).active = g.active + 1 /\ Enter(g).phase = g.phase /\ Enter(g).drainer = g.drainer
  BY DEF Enter
<1>2. Leave(g).active = g.active - 1 /\ Leave(g).phase = g.phase /\ Leave(g).drainer = g.drainer
  BY DEF Leave, NotifyOne
<1>3. Register(g).active = g.active /\ Register(g).phase = g.phase /\ Register(g).drainer = g.drainer
  BY DEF Register
<1>4. DropWaiter(g).active = g.active /\ DropWaiter(g).phase = g.phase /\ DropWaiter(g).drainer = g.drainer
  BY DEF DropWaiter
<1>5. Woken(g).active = g.active /\ Woken(g).phase = g.phase /\ Woken(g).drainer = g.drainer
  BY DEF Woken
<1>6. CancelDrain(g).active = g.active /\ CancelDrain(g).phase = g.phase /\ CancelDrain(g).drainer = NoOne
  BY DEF CancelDrain, DropWaiter
<1>7. /\ FinishDrain(g, TRUE).active = g.active /\ FinishDrain(g, TRUE).phase = "drained"
      /\ FinishDrain(g, FALSE).active = g.active /\ FinishDrain(g, FALSE).phase = "failed"
  BY DEF FinishDrain
<1>8. ASSUME NEW c \in Caller
      PROVE  /\ CloseGate(g, c).active = g.active /\ CloseGate(g, c).phase = "draining"
             /\ CloseGate(g, c).drainer = c
  BY DEF CloseGate
<1> QED
  BY <1>1, <1>2, <1>3, <1>4, <1>5, <1>6, <1>7, <1>8

(* Whoever is inside the gate is counted, so the counter is positive and *)
(* Leave never takes it below zero. *)
LEMMA Inside ==
  ASSUME Types, Counted
  PROVE  /\ \A d \in Daemon : IsFiniteSet(InsideT(d)) /\ IsFiniteSet(InsideS(d))
         /\ \A t \in Thread : call[t].pc \in {"valid", "run"} => gate[OwnerOf[t]].active > 0
         /\ \A s \in Session : sess[s] = "admin" => gate[OwnerOf[s]].active > 0
<1>1. ASSUME NEW d \in Daemon PROVE IsFiniteSet(InsideT(d)) /\ IsFiniteSet(InsideS(d))
  BY DaemonAssumption, FS_Subset DEF InsideT, InsideS, OfD
<1>2. ASSUME NEW d \in Daemon
      PROVE  /\ Cardinality(InsideT(d)) \in Nat /\ Cardinality(InsideS(d)) \in Nat
             /\ InsideT(d) # {} => Cardinality(InsideT(d)) > 0
             /\ InsideS(d) # {} => Cardinality(InsideS(d)) > 0
  BY <1>1, FS_CardinalityType, FS_EmptySet
<1>3. ASSUME NEW t \in Thread, call[t].pc \in {"valid", "run"} PROVE gate[OwnerOf[t]].active > 0
  <2>1. OwnerOf[t] \in Daemon /\ t \in InsideT(OwnerOf[t])
    BY <1>3, DaemonAssumption DEF InsideT, OfD
  <2> QED
    BY <2>1, <1>2 DEF Counted
<1>4. ASSUME NEW s \in Session, sess[s] = "admin" PROVE gate[OwnerOf[s]].active > 0
  <2>1. OwnerOf[s] \in Daemon /\ s \in InsideS(OwnerOf[s])
    BY <1>4, DaemonAssumption DEF InsideS, OfD
  <2> QED
    BY <2>1, <1>2 DEF Counted
<1> QED
  BY <1>1, <1>3, <1>4

(* Every update of a process record the actions make yields one. *)
LEMMA ProcTypes ==
  ASSUME NEW p \in Proc
  PROVE  /\ \A x \in {"recovered", "exited"} : [NewProc EXCEPT !.up = x] \in Proc
         /\ [NewProc EXCEPT !.up = "bound", !.state = TRUE, !.loop = "serving"] \in Proc
         /\ \A x \in {"ready", "failed"} : [p EXCEPT !.up = x] \in Proc
         /\ \A x \in {"aborting", "ended", "left"} : [p EXCEPT !.loop = x] \in Proc
         /\ \A x \in Session \cup {NoOne} : [p EXCEPT !.busy = x] \in Proc
         /\ \A x \in Stopper \cup {NoOne} : [p EXCEPT !.mutex = x] \in Proc
         /\ [p EXCEPT !.signal = TRUE] \in Proc
         /\ [p EXCEPT !.state = FALSE] \in Proc
<1>1. ASSUME NEW x \in {"recovered", "exited"} PROVE [NewProc EXCEPT !.up = x] \in Proc
  BY DEF Proc, NewProc
<1>2. [NewProc EXCEPT !.up = "bound", !.state = TRUE, !.loop = "serving"] \in Proc
  BY DEF Proc, NewProc
<1>3. ASSUME NEW x \in {"ready", "failed"} PROVE [p EXCEPT !.up = x] \in Proc
  BY DEF Proc
<1>4. ASSUME NEW x \in {"aborting", "ended", "left"} PROVE [p EXCEPT !.loop = x] \in Proc
  BY DEF Proc
<1>5. ASSUME NEW x \in Session \cup {NoOne} PROVE [p EXCEPT !.busy = x] \in Proc
  BY DEF Proc
<1>6. ASSUME NEW x \in Stopper \cup {NoOne} PROVE [p EXCEPT !.mutex = x] \in Proc
  BY DEF Proc
<1>7. [p EXCEPT !.signal = TRUE] \in Proc
  BY DEF Proc
<1>8. [p EXCEPT !.state = FALSE] \in Proc
  BY DEF Proc
<1> QED
  BY <1>1, <1>2, <1>3, <1>4, <1>5, <1>6, <1>7, <1>8

(* Next keeps the process records typed. *)
LEMMA ProcTyped ==
  ASSUME Types, Next
  PROVE  proc' \in [Daemon -> Proc]
<1>0. proc \in [Daemon -> Proc] /\ OwnerOf \in [Thread \cup Session \cup Stopper -> Daemon]
  BY DaemonAssumption DEF Types
<1>1. CASE UNCHANGED proc
  BY <1>0, <1>1
<1>2. ASSUME NEW d \in Daemon, Start(d) PROVE proc' \in [Daemon -> Proc]
  <2>1. CASE StartRecover(d)
    BY <1>0, <2>1, ProcTypes DEF StartRecover, Set, Refused, StartFails
  <2>2. CASE StartBind(d)
    BY <1>0, <2>2, ProcTypes DEF StartBind, Set, Refused, StartFails
  <2>3. CASE StartPublish(d)
    <3>1. proc[d] \in Proc
      BY <1>0
    <3>2. [proc[d] EXCEPT !.up = "ready"] \in Proc /\ [proc[d] EXCEPT !.up = "failed"] \in Proc
      BY <3>1, ProcTypes
    <3> QED
      BY <1>0, <2>3, <3>2 DEF StartPublish
  <2> QED
    BY <1>2, <2>1, <2>2, <2>3 DEF Start
<1>3. ASSUME NEW d \in Daemon, ProcessEnds(d) \/ Loop(d) PROVE proc' \in [Daemon -> Proc]
  <2>1. CASE ProcessEnds(d)
    BY <1>0, <2>1, ProcTypes DEF ProcessEnds, Set
  <2>2. CASE LoopBreaks(d)
    BY <1>0, <2>2, ProcTypes DEF LoopBreaks
  <2>3. CASE LoopEnds(d)
    <3>1. PICK x \in {"aborting", "ended", "left"} : proc' = [proc EXCEPT ![d].loop = x]
      BY <2>3 DEF LoopEnds
    <3>2. proc[d] \in Proc
      BY <1>0
    <3>3. [proc[d] EXCEPT !.loop = x] \in Proc
      BY <3>2, ProcTypes
    <3> QED
      BY <1>0, <3>1, <3>3
  <2> QED
    BY <1>3, <2>1, <2>2, <2>3 DEF Loop
<1>4. ASSUME NEW s \in Session, LoopAborts(s) \/ Verb(s) \/ AdminEnds(s) PROVE proc' \in [Daemon -> Proc]
  <2>1. OwnerOf[s] \in Daemon /\ proc[OwnerOf[s]] \in Proc
    BY <1>0
  <2>2. proc[OwnerOf[s]].busy \in Session \cup {NoOne}
    BY <2>1 DEF Proc
  <2>3. CASE LoopAborts(s)
    BY <1>0, <2>1, <2>2, <2>3, ProcTypes DEF LoopAborts
  <2>4. CASE Verb(s)
    BY <1>0, <2>1, <2>4, ProcTypes DEF Verb
  <2>5. CASE AdminEnds(s)
    BY <1>0, <2>1, <2>5, ProcTypes DEF AdminEnds
  <2> QED
    BY <1>4, <2>3, <2>4, <2>5
<1>5. ASSUME NEW c \in Caller, NEW ok \in BOOLEAN, DrainAnswer(c, ok) PROVE proc' \in [Daemon -> Proc]
  <2> DEFINE o == OwnerOf[c]
  <2> DEFINE p == [proc[o] EXCEPT !.busy = IF c \in Session THEN NoOne ELSE @]
  <2> DEFINE q == [p EXCEPT !.mutex = IF c \in Stopper /\ ~ok THEN NoOne ELSE @]
  <2>1. o \in Daemon /\ proc[o] \in Proc
    BY <1>0 DEF Caller
  <2>2. p \in Proc
    <3>1. proc[o].busy \in Session \cup {NoOne}
      BY <2>1 DEF Proc
    <3> QED
      BY <2>1, <3>1, ProcTypes
  <2>3. q \in Proc
    <3> HIDE DEF p
    <3>1. p.mutex \in Stopper \cup {NoOne}
      BY <2>2 DEF Proc
    <3> QED
      BY <2>2, <3>1, ProcTypes
  <2>4. proc' = [proc EXCEPT ![o] = q]
    BY <1>0, <1>5, <2>1 DEF DrainAnswer
  <2> QED
    BY <1>0, <2>1, <2>3, <2>4
<1>6. ASSUME NEW c \in Caller, DrainStep(c) PROVE proc' \in [Daemon -> Proc]
  BY <1>1, <1>5, <1>6 DEF DrainStep, DrainLock, DrainRegister, DrainCheck, DrainAwait, DrainFlush, DrainCheckpoint
<1>7. ASSUME NEW u \in Stopper, StopStep(u) PROVE proc' \in [Daemon -> Proc]
  <2>1. OwnerOf[u] \in Daemon /\ proc[OwnerOf[u]] \in Proc
    BY <1>0
  <2>2. CASE StopMutex(u)
    <3>1. [proc[OwnerOf[u]] EXCEPT !.mutex = u] \in Proc
      BY <2>1, ProcTypes
    <3> QED
      BY <1>0, <2>1, <2>2, <3>1 DEF StopMutex
  <2>3. CASE StopSignal(u)
    BY <1>0, <2>1, <2>3, ProcTypes DEF StopSignal
  <2>4. CASE StopJoin(u)
    BY <1>0, <2>1, <2>4, ProcTypes DEF StopJoin
  <2> QED
    BY <1>1, <1>7, <2>2, <2>3, <2>4 DEF StopStep, StopCall
<1>8. ASSUME NEW s \in Session, SessionStep(s) PROVE proc' \in [Daemon -> Proc]
  BY <1>1, <1>4, <1>8 DEF SessionStep, LoopAccept, SessionEnds
<1>9. CASE PathChanges \/ Done \/ \E t \in Thread : ThreadStep(t)
  BY <1>1, <1>9, Frames DEF vars
<1> QED
  BY <1>2, <1>3, <1>6, <1>7, <1>8, <1>9, Steps DEF DaemonStep

(* Next keeps the gates typed; Counted is what keeps the counter a natural *)
(* number. *)
LEMMA GateTyped ==
  ASSUME Types, Counted, Next
  PROVE  gate' \in [Daemon -> Gate(Caller)]
<1>0. gate \in [Daemon -> Gate(Caller)] /\ OwnerOf \in [Thread \cup Session \cup Stopper -> Daemon]
  BY DaemonAssumption DEF Types
<1>1. CASE UNCHANGED gate
  BY <1>0, <1>1
<1>2. ASSUME NEW d \in Daemon, ProcessEnds(d) PROVE gate' \in [Daemon -> Gate(Caller)]
  BY <1>0, <1>2, GateTypes DEF ProcessEnds, Set
<1>3. ASSUME NEW t \in Thread, NEW r \in Requests, CallEnter(t, r) PROVE gate' \in [Daemon -> Gate(Caller)]
  <2>1. OwnerOf[t] \in Daemon /\ Enter(gate[OwnerOf[t]]) \in Gate(Caller)
    BY <1>0, GateTypes
  <2> QED
    BY <1>0, <1>3, <2>1 DEF CallEnter, Set
<1>4. ASSUME NEW t \in Thread, call[t].pc \in {"valid", "run"}, gate' = [gate EXCEPT ![OwnerOf[t]] = Leave(@)]
      PROVE  gate' \in [Daemon -> Gate(Caller)]
  <2>1. OwnerOf[t] \in Daemon /\ gate[OwnerOf[t]].active > 0
    BY <1>0, <1>4, Inside
  <2>2. Leave(gate[OwnerOf[t]]) \in Gate(Caller)
    BY <1>0, <2>1, GateTypes
  <2> QED
    BY <1>0, <1>4, <2>1, <2>2
<1>5. ASSUME NEW t \in Thread, ThreadStep(t) PROVE gate' \in [Daemon -> Gate(Caller)]
  <2>1. CASE CallValidate(t)
    BY <1>1, <1>4, <2>1 DEF CallValidate, Return
  <2>2. CASE CallRun(t)
    BY <1>1, <1>4, <2>2 DEF CallRun, Return
  <2>3. ASSUME NEW e, CallFails(t, e) PROVE gate' \in [Daemon -> Gate(Caller)]
    BY <1>4, <2>3 DEF CallFails, Return
  <2> QED
    BY <1>1, <1>3, <1>5, <2>1, <2>2, <2>3 DEF ThreadStep, CallReplied
<1>6. ASSUME NEW s \in Session, LoopAborts(s) \/ Verb(s) \/ AdminEnds(s) PROVE gate' \in [Daemon -> Gate(Caller)]
  <2>1. OwnerOf[s] \in Daemon /\ gate[OwnerOf[s]] \in Gate(Caller)
    BY <1>0
  <2>2. /\ Enter(gate[OwnerOf[s]]) \in Gate(Caller) /\ CancelDrain(gate[OwnerOf[s]]) \in Gate(Caller)
        /\ sess[s] = "admin" => Leave(gate[OwnerOf[s]]) \in Gate(Caller)
    BY <2>1, GateTypes, Inside
  <2> QED
    BY <1>0, <1>6, <2>1, <2>2 DEF LoopAborts, Verb, AdminEnds, Set
<1>7. ASSUME NEW c \in Caller, DrainStep(c) PROVE gate' \in [Daemon -> Gate(Caller)]
  <2>1. OwnerOf[c] \in Daemon /\ gate[OwnerOf[c]] \in Gate(Caller)
    BY <1>0 DEF Caller
  <2>2. /\ CloseGate(gate[OwnerOf[c]], c) \in Gate(Caller) /\ Register(gate[OwnerOf[c]]) \in Gate(Caller)
        /\ DropWaiter(gate[OwnerOf[c]]) \in Gate(Caller) /\ Woken(gate[OwnerOf[c]]) \in Gate(Caller)
        /\ FinishDrain(gate[OwnerOf[c]], TRUE) \in Gate(Caller)
        /\ FinishDrain(gate[OwnerOf[c]], FALSE) \in Gate(Caller)
    BY <2>1, GateTypes
  <2> QED
    BY <1>0, <1>7, <2>1, <2>2
    DEF DrainStep, DrainLock, DrainRegister, DrainCheck, DrainAwait, DrainFlush, DrainCheckpoint, Set
<1>8. ASSUME NEW s \in Session, SessionStep(s) PROVE gate' \in [Daemon -> Gate(Caller)]
  BY <1>1, <1>6, <1>8 DEF SessionStep, LoopAccept, SessionEnds
<1>9. CASE (\E d \in Daemon : Start(d) \/ Loop(d)) \/ (\E u \in Stopper : StopStep(u)) \/ PathChanges \/ Done
  BY <1>1, <1>9, Frames DEF vars
<1> QED
  BY <1>2, <1>5, <1>7, <1>8, <1>9, Steps DEF DaemonStep

(* Next keeps the callbacks typed. *)
LEMMA CallsTyped ==
  ASSUME Types, Next
  PROVE  call' = [t \in Thread |-> call'[t]] /\ \A t \in Thread : IsCall(call'[t])
<1> DEFINE P == call' = [t \in Thread |-> call'[t]] /\ \A t \in Thread : IsCall(call'[t])
<1>0. call = [t \in Thread |-> call[t]] /\ \A t \in Thread : IsCall(call[t])
  BY DEF Types
<1>1. ASSUME UNCHANGED call PROVE P
  BY <1>0, <1>1
<1>2. IsCall(Idle)
  BY DEF IsCall, Idle
<1>3. ASSUME NEW t \in Thread, NEW c, IsCall(c), call' = Set(call, t, c) PROVE P
  BY <1>0, <1>3 DEF Set
<1>4. ASSUME NEW d \in Daemon, ProcessEnds(d) PROVE P
  BY <1>0, <1>2, <1>4 DEF ProcessEnds
<1>5. ASSUME NEW t \in Thread, NEW r \in Requests, CallEnter(t, r) PROVE P
  <2> DEFINE in == Admits(gate[OwnerOf[t]])
  <2> DEFINE c == [Idle EXCEPT !.pc = IF in THEN "valid" ELSE "replied", !.req = r,
                               !.reply = IF in THEN NoOne ELSE "ESHUTDOWN"]
  <2>1. IsCall(c)
    <3> HIDE DEF in
    <3> QED
      BY DEF IsCall, Idle
  <2>2. call' = Set(call, t, c)
    BY <1>5 DEF CallEnter
  <2> QED
    BY <1>3, <2>1, <2>2
<1>6. ASSUME NEW t \in Thread, NEW reply, NEW c, IsCall(c), Return(t, reply, c) PROVE P
  <2>1. IsCall([c EXCEPT !.pc = "replied", !.reply = reply])
    BY <1>6 DEF IsCall
  <2> QED
    BY <1>3, <1>6, <2>1 DEF Return
<1>7. ASSUME NEW t \in Thread, CallValidate(t) PROVE P
  <2>1. IsCall([call[t] EXCEPT !.pc = "run", !.calls = CallsOf(call[t].req)])
    BY <1>0 DEF IsCall
  <2> QED
    BY <1>0, <1>3, <1>6, <1>7, <2>1 DEF CallValidate
<1>8. ASSUME NEW t \in Thread, CallRun(t) PROVE P
  <2> DEFINE b == Blocks(Head(call[t].calls).lo, Head(call[t].calls).hi)
  <2> DEFINE n == [call[t] EXCEPT !.calls = Tail(@), !.done = @ \cup b]
  <2>1. IsCall(n)
    <3> HIDE DEF b
    <3> QED
      BY <1>0 DEF IsCall
  <2>2. Return(t, "ok", n) \/ call' = Set(call, t, n)
    BY <1>8 DEF CallRun
  <2> QED
    BY <1>3, <1>6, <2>1, <2>2
<1>9. ASSUME NEW t \in Thread, NEW e, CallFails(t, e) PROVE P
  BY <1>0, <1>6, <1>9 DEF CallFails
<1>10. ASSUME NEW t \in Thread, CallReplied(t) PROVE P
  BY <1>2, <1>3, <1>10 DEF CallReplied
<1> HIDE DEF P
<1>11. ASSUME NEW t \in Thread, ThreadStep(t) PROVE P
  BY <1>5, <1>7, <1>8, <1>9, <1>10, <1>11 DEF ThreadStep
<1>12. ASSUME NEW d \in Daemon, DaemonStep(d) PROVE P
  BY <1>1, <1>4, <1>12, Frames DEF DaemonStep
<1>13. ASSUME \/ \E s \in Session : SessionStep(s)
              \/ \E c \in Caller : DrainStep(c)
              \/ \E u \in Stopper : StopStep(u)
              \/ PathChanges
              \/ Done
       PROVE  P
  BY <1>1, <1>13, Frames DEF vars
<1>14. P
  BY <1>11, <1>12, <1>13, Steps
<1> QED
  BY <1>14 DEF P

(* Next keeps sessions and stoppers at known places. *)
LEMMA CallersTyped ==
  ASSUME Types, Next
  PROVE  /\ sess' \in [Session -> {"none", "idle", "admin", "drain"} \cup Stage]
         /\ stop' \in [Stopper -> {"no", "mutex", "ok", "err"} \cup HoldsMutex]
<1> DEFINE S == {"none", "idle", "admin", "drain"} \cup Stage
<1> DEFINE U == {"no", "mutex", "ok", "err"} \cup HoldsMutex
<1> DEFINE P == sess' \in [Session -> S] /\ stop' \in [Stopper -> U]
<1>0. sess \in [Session -> S] /\ stop \in [Stopper -> U]
  BY DEF Types
<1>1. /\ {"none", "idle", "admin", "drain", "register", "check", "await", "flush", "checkpoint"} \subseteq S
      /\ {"no", "mutex", "ok", "err", "worker", "join", "drain",
          "register", "check", "await", "flush", "checkpoint"} \subseteq U
  BY DEF Stage, HoldsMutex
<1> HIDE DEF S, U
<1>2. ASSUME UNCHANGED <<sess, stop>> PROVE P
  BY <1>0, <1>2 DEF P
<1>3. ASSUME NEW d \in Daemon, ProcessEnds(d) PROVE P
  BY <1>0, <1>1, <1>3 DEF ProcessEnds
<1>4. ASSUME NEW s \in Session, SessionStep(s) PROVE P
  BY <1>0, <1>1, <1>4 DEF SessionStep, LoopAccept, LoopAborts, SessionEnds, Verb, AdminEnds, Set
<1>5. ASSUME NEW c \in Caller, NEW to, to \in S \cap U, Move(c, to) PROVE P
  BY <1>0, <1>5 DEF Move, Set, Caller
<1>6. ASSUME NEW c \in Caller, NEW ok \in BOOLEAN, DrainAnswer(c, ok) PROVE P
  BY <1>0, <1>1, <1>6 DEF DrainAnswer, Move, Set, Caller
<1>7. ASSUME NEW c \in Caller, DrainStep(c) PROVE P
  BY <1>1, <1>5, <1>6, <1>7 DEF DrainStep, DrainLock, DrainRegister, DrainCheck, DrainAwait, DrainFlush, DrainCheckpoint
<1>8. ASSUME NEW u \in Stopper, StopStep(u) PROVE P
  BY <1>0, <1>1, <1>8 DEF StopStep, StopCall, StopMutex, StopSignal, StopJoin, Set
<1>9. ASSUME NEW d \in Daemon, DaemonStep(d) PROVE P
  BY <1>2, <1>3, <1>9, Frames DEF DaemonStep
<1>10. ASSUME (\E t \in Thread : ThreadStep(t)) \/ PathChanges \/ Done PROVE P
  BY <1>2, <1>10, Frames DEF vars
<1> HIDE DEF P
<1>11. P
  BY <1>4, <1>7, <1>8, <1>9, <1>10, Steps
<1> QED
  BY <1>11 DEF P, S, U

(* A daemon's volume never changes. *)
LEMMA VolumeFixed == Next => UNCHANGED volume
  BY Steps, Frames DEF DaemonStep, vars

(* The socket path changes only when a daemon publishes on it, when a loop *)
(* drops its listener, or from outside. *)
LEMMA PathSteps ==
  ASSUME Next
  PROVE  \/ UNCHANGED path
         \/ \E d \in Daemon : StartBind(d) /\ MayPublish(d) /\ path' = d
         \/ \E d \in Daemon : LoopEnds(d) /\ path' = DropListener(d)
         \/ PathChanges /\ path' \in {"nothing", "file"}
<1>1. ASSUME NEW d \in Daemon, DaemonStep(d)
      PROVE  UNCHANGED path \/ (StartBind(d) /\ MayPublish(d) /\ path' = d) \/ (LoopEnds(d) /\ path' = DropListener(d))
  <2>1. StartBind(d) => UNCHANGED path \/ (MayPublish(d) /\ path' = d)
    BY DEF StartBind
  <2>2. LoopEnds(d) => UNCHANGED path \/ path' = DropListener(d)
    BY DEF LoopEnds
  <2>3. StartRecover(d) \/ StartPublish(d) \/ ProcessEnds(d) \/ LoopBreaks(d) => UNCHANGED path
    BY DEF StartRecover, StartPublish, ProcessEnds, LoopBreaks
  <2> QED
    BY <1>1, <2>1, <2>2, <2>3 DEF DaemonStep, Start, Loop
<1>2. CASE \/ \E t \in Thread : ThreadStep(t)
           \/ \E s \in Session : SessionStep(s)
           \/ \E c \in Caller : DrainStep(c)
           \/ \E u \in Stopper : StopStep(u)
           \/ Done
  BY <1>2, Frames DEF vars
<1>3. CASE PathChanges
  BY <1>3 DEF PathChanges
<1> QED
  BY <1>1, <1>2, <1>3, Steps

(* Next keeps the volumes, the path and the records typed. *)
LEMMA RestTyped ==
  ASSUME Types, Next
  PROVE  /\ volume' \in [Daemon -> Volume]
         /\ path' \in Daemon \cup {"nothing", "dead", "file"}
         /\ eng' \in [Volume -> Records]
<1> DEFINE P == eng' \in [Volume -> Records]
<1>0. eng \in [Volume -> Records] /\ volume \in [Daemon -> Volume]
  BY DEF Types
<1>1. OwnerOf \in [Thread \cup Session \cup Stopper -> Daemon]
  BY DaemonAssumption
<1>2. ASSUME NEW r \in Records
      PROVE  /\ [clean |-> TRUE, unsynced |-> {}] \in Records
             /\ [clean |-> FALSE, unsynced |-> {}] \in Records
             /\ \A T : [r EXCEPT !.unsynced = @ \ T] \in Records
             /\ [r EXCEPT !.unsynced = {}] \in Records
             /\ \A t \in Thread : [clean |-> FALSE, unsynced |-> r.unsynced \cup {t}] \in Records
  BY DEF Records
<1>3. ASSUME NEW v \in Volume, NEW t \in Thread, NEW c PROVE Effect(v, t, c) \in Records
  <2>1. eng[v] \in Records
    BY <1>0
  <2> QED
    BY <1>2, <2>1 DEF Effect
<1>4. ASSUME UNCHANGED eng PROVE P
  BY <1>0, <1>4
<1>5. ASSUME NEW d \in Daemon, DaemonStep(d) PROVE P
  <2>1. volume[d] \in Volume /\ eng[volume[d]] \in Records
    BY <1>0
  <2>2. CASE StartRecover(d)
    BY <1>0, <1>2, <2>1, <2>2 DEF StartRecover
  <2>3. CASE ProcessEnds(d)
    BY <1>0, <1>2, <2>1, <2>3 DEF ProcessEnds
  <2> QED
    BY <1>4, <1>5, <2>2, <2>3 DEF DaemonStep, Start, StartBind, StartPublish, Loop, LoopBreaks, LoopEnds
<1>6. ASSUME NEW t \in Thread, ThreadStep(t) PROVE  P
  <2>1. volume[OwnerOf[t]] \in Volume /\ eng[volume[OwnerOf[t]]] \in Records
    BY <1>0, <1>1
  <2>2. CASE CallRun(t)
    BY <1>0, <1>3, <2>1, <2>2 DEF CallRun, Set
  <2>3. ASSUME NEW e, CallFails(t, e) PROVE P
    BY <1>0, <1>3, <2>1, <2>3 DEF CallFails, Set
  <2>4. CASE CallReplied(t)
    BY <1>0, <1>2, <2>1, <2>4 DEF CallReplied
  <2> QED
    BY <1>4, <1>6, <2>2, <2>3, <2>4 DEF ThreadStep, CallValidate, CallEnter
<1>7. ASSUME NEW s \in Session, SessionStep(s) PROVE P
  <2>1. volume[OwnerOf[s]] \in Volume /\ eng[volume[OwnerOf[s]]] \in Records
    BY <1>0, <1>1
  <2> QED
    BY <1>0, <1>2, <1>4, <1>7, <2>1 DEF SessionStep, LoopAccept, LoopAborts, SessionEnds, Verb, AdminEnds
<1>8. ASSUME NEW c \in Caller, DrainStep(c) PROVE P
  <2>1. volume[OwnerOf[c]] \in Volume /\ eng[volume[OwnerOf[c]]] \in Records
    BY <1>0, <1>1 DEF Caller
  <2> QED
    BY <1>0, <1>2, <1>4, <1>8, <2>1
    DEF DrainStep, DrainLock, DrainRegister, DrainCheck, DrainAwait, DrainFlush, DrainCheckpoint
<1>9. ASSUME (\E u \in Stopper : StopStep(u)) \/ PathChanges \/ Done PROVE P
  BY <1>4, <1>9, Frames DEF vars
<1> HIDE DEF P
<1>10. P
  BY <1>5, <1>6, <1>7, <1>8, <1>9, Steps
<1>11. UNCHANGED volume
  BY VolumeFixed
<1>12. path' \in Daemon \cup {"nothing", "dead", "file"}
  <2>1. path \in Daemon \cup {"nothing", "dead", "file"}
    BY DEF Types
  <2> QED
    BY <2>1, PathSteps DEF DropListener
<1> QED
  BY <1>0, <1>10, <1>11, <1>12 DEF P

(* Next keeps the type invariant. *)
LEMMA TypesKept ==
  ASSUME Types, Counted, Next
  PROVE  Types'
  BY ProcTyped, GateTyped, CallsTyped, CallersTyped, RestTyped DEF Types

(* A step that moves nobody through the gate keeps the count. *)
LEMMA CountSame ==
  ASSUME Counted,
         \A d \in Daemon : /\ InsideT(d)' = InsideT(d) /\ InsideS(d)' = InsideS(d)
                           /\ gate'[d].active = gate[d].active
  PROVE  Counted'
  BY DEF Counted

(* One thread or session that enters or leaves changes the counter by one, *)
(* and so the number of those inside. *)
LEMMA CountMoved ==
  ASSUME Types, Counted, NEW o \in Daemon, NEW x,
         \A d \in Daemon \ {o} : /\ InsideT(d)' = InsideT(d) /\ InsideS(d)' = InsideS(d)
                                 /\ gate'[d].active = gate[d].active,
         \/ /\ x \notin InsideT(o) /\ InsideT(o)' = InsideT(o) \cup {x} /\ InsideS(o)' = InsideS(o)
            /\ gate'[o].active = gate[o].active + 1
         \/ /\ x \in InsideT(o) /\ InsideT(o)' = InsideT(o) \ {x} /\ InsideS(o)' = InsideS(o)
            /\ gate'[o].active = gate[o].active - 1
         \/ /\ x \notin InsideS(o) /\ InsideS(o)' = InsideS(o) \cup {x} /\ InsideT(o)' = InsideT(o)
            /\ gate'[o].active = gate[o].active + 1
         \/ /\ x \in InsideS(o) /\ InsideS(o)' = InsideS(o) \ {x} /\ InsideT(o)' = InsideT(o)
            /\ gate'[o].active = gate[o].active - 1
  PROVE  Counted'
<1>1. IsFiniteSet(InsideT(o)) /\ IsFiniteSet(InsideS(o))
  BY Inside
<1>2. Cardinality(InsideT(o)) \in Nat /\ Cardinality(InsideS(o)) \in Nat
  BY <1>1, FS_CardinalityType
<1>3. /\ x \notin InsideT(o) => Cardinality(InsideT(o) \cup {x}) = Cardinality(InsideT(o)) + 1
      /\ x \in InsideT(o) => Cardinality(InsideT(o) \ {x}) = Cardinality(InsideT(o)) - 1
  BY <1>1, FS_AddElement, FS_RemoveElement
<1>4. /\ x \notin InsideS(o) => Cardinality(InsideS(o) \cup {x}) = Cardinality(InsideS(o)) + 1
      /\ x \in InsideS(o) => Cardinality(InsideS(o) \ {x}) = Cardinality(InsideS(o)) - 1
  BY <1>1, FS_AddElement, FS_RemoveElement
<1>5. gate[o].active = Cardinality(InsideT(o)) + Cardinality(InsideS(o))
  BY DEF Counted
<1>6. gate'[o].active = Cardinality(InsideT(o)') + Cardinality(InsideS(o)')
  <2> DEFINE T == InsideT(o)
  <2> DEFINE S == InsideS(o)
  <2> DEFINE TT == InsideT(o)'
  <2> DEFINE SS == InsideS(o)'
  <2>1. /\ Cardinality(T) \in Nat /\ Cardinality(S) \in Nat
        /\ gate[o].active = Cardinality(T) + Cardinality(S)
        /\ x \notin T => Cardinality(T \cup {x}) = Cardinality(T) + 1
        /\ x \in T => Cardinality(T \ {x}) = Cardinality(T) - 1
        /\ x \notin S => Cardinality(S \cup {x}) = Cardinality(S) + 1
        /\ x \in S => Cardinality(S \ {x}) = Cardinality(S) - 1
    BY <1>2, <1>3, <1>4, <1>5
  <2>2. \/ x \notin T /\ TT = T \cup {x} /\ SS = S /\ gate'[o].active = gate[o].active + 1
        \/ x \in T /\ TT = T \ {x} /\ SS = S /\ gate'[o].active = gate[o].active - 1
        \/ x \notin S /\ SS = S \cup {x} /\ TT = T /\ gate'[o].active = gate[o].active + 1
        \/ x \in S /\ SS = S \ {x} /\ TT = T /\ gate'[o].active = gate[o].active - 1
    OBVIOUS
  <2> HIDE DEF T, S, TT, SS
  <2>3. gate'[o].active = Cardinality(TT) + Cardinality(SS)
    <3>1. CASE x \notin T /\ TT = T \cup {x} /\ SS = S /\ gate'[o].active = gate[o].active + 1
      BY <2>1, <3>1
    <3>2. CASE x \in T /\ TT = T \ {x} /\ SS = S /\ gate'[o].active = gate[o].active - 1
      BY <2>1, <3>2
    <3>3. CASE x \notin S /\ SS = S \cup {x} /\ TT = T /\ gate'[o].active = gate[o].active + 1
      BY <2>1, <3>3
    <3>4. CASE x \in S /\ SS = S \ {x} /\ TT = T /\ gate'[o].active = gate[o].active - 1
      BY <2>1, <3>4
    <3> QED
      BY <2>2, <3>1, <3>2, <3>3, <3>4
  <2> QED
    BY <2>3 DEF TT, SS
<1> QED
  BY <1>6 DEF Counted

(* Next keeps the count: each enter() has exactly one drop of its guard, *)
(* on every way a callback or a verb ends, an abort by the serve loop *)
(* included. *)
LEMMA CountedKept ==
  ASSUME Types, Counted, Next
  PROVE  Counted'
<1>0. /\ gate \in [Daemon -> Gate(Caller)] /\ OwnerOf \in [Thread \cup Session \cup Stopper -> Daemon]
      /\ call = [t \in Thread |-> call[t]] /\ \A t \in Thread : IsCall(call[t])
      /\ sess \in [Session -> {"none", "idle", "admin", "drain"} \cup Stage]
      /\ Session \cap Stopper = {}
  BY DaemonAssumption DEF Types
<1>1. ASSUME NEW t \in Thread, call[t].pc \in {"valid", "run"}, UNCHANGED sess,
             NEW reply, NEW c, IsCall(c), Return(t, reply, c)
      PROVE  Counted'
  <2> DEFINE o == OwnerOf[t]
  <2>1. o \in Daemon /\ gate[o] \in Gate(Caller)
    BY <1>0
  <2>2. call'[t].pc = "replied" /\ \A x \in Thread \ {t} : call'[x] = call[x]
    BY <1>0, <1>1 DEF Return, Set, IsCall
  <2>3. gate'[o].active = gate[o].active - 1 /\ \A d \in Daemon \ {o} : gate'[d] = gate[d]
    BY <1>0, <1>1, <2>1, GateSteps DEF Return
  <2>4. t \in InsideT(o) /\ InsideT(o)' = InsideT(o) \ {t} /\ InsideS(o)' = InsideS(o)
    BY <1>1, <2>1, <2>2 DEF InsideT, InsideS, OfD
  <2>5. \A d \in Daemon \ {o} : InsideT(d)' = InsideT(d) /\ InsideS(d)' = InsideS(d)
    BY <1>1, <2>2 DEF InsideT, InsideS, OfD
  <2> QED
    BY <2>1, <2>3, <2>4, <2>5, CountMoved
<1>2. ASSUME NEW t \in Thread, UNCHANGED <<gate, sess>>, \A x \in Thread \ {t} : call'[x] = call[x],
             call[t].pc \in {"valid", "run"} <=> call'[t].pc \in {"valid", "run"}
      PROVE  Counted'
  <2>1. \A d \in Daemon : InsideT(d)' = InsideT(d) /\ InsideS(d)' = InsideS(d)
    BY <1>2 DEF InsideT, InsideS, OfD
  <2> QED
    BY <1>2, <2>1, CountSame
<1>3. ASSUME NEW t \in Thread, NEW r, CallEnter(t, r) PROVE Counted'
  <2> DEFINE o == OwnerOf[t]
  <2>1. o \in Daemon /\ gate[o] \in Gate(Caller) /\ call[t].pc = "idle" /\ UNCHANGED sess
    BY <1>0, <1>3 DEF CallEnter
  <2>2. \A x \in Thread \ {t} : call'[x] = call[x]
    BY <1>0, <1>3 DEF CallEnter, Set
  <2>3. CASE Admits(gate[o])
    <3>1. call'[t].pc = "valid"
      BY <1>0, <1>3, <2>3 DEF CallEnter, Set, Idle
    <3>2. gate'[o].active = gate[o].active + 1 /\ \A d \in Daemon \ {o} : gate'[d] = gate[d]
      BY <1>0, <1>3, <2>1, <2>3, GateSteps DEF CallEnter, Set
    <3>3. t \notin InsideT(o) /\ InsideT(o)' = InsideT(o) \cup {t} /\ InsideS(o)' = InsideS(o)
      BY <2>1, <2>2, <3>1 DEF InsideT, InsideS, OfD
    <3>4. \A d \in Daemon \ {o} : InsideT(d)' = InsideT(d) /\ InsideS(d)' = InsideS(d)
      BY <2>1, <2>2 DEF InsideT, InsideS, OfD
    <3> QED
      BY <2>1, <3>2, <3>3, <3>4, CountMoved
  <2>4. CASE ~Admits(gate[o])
    <3>1. call'[t].pc = "replied" /\ UNCHANGED gate
      BY <1>0, <1>3, <2>4 DEF CallEnter, Set, Idle
    <3> QED
      BY <1>2, <2>1, <2>2, <3>1
  <2> QED
    BY <2>3, <2>4
<1>4. ASSUME NEW t \in Thread, CallValidate(t) PROVE Counted'
  <2>1. CASE \E reply : Return(t, reply, call[t])
    BY <1>0, <1>1, <1>4, <2>1 DEF CallValidate
  <2>2. CASE UNCHANGED gate /\ call' = Set(call, t, [call[t] EXCEPT !.pc = "run", !.calls = CallsOf(call[t].req)])
    <3>1. call'[t].pc = "run" /\ \A x \in Thread \ {t} : call'[x] = call[x]
      BY <1>0, <2>2 DEF Set, IsCall
    <3> QED
      BY <1>2, <1>4, <2>2, <3>1 DEF CallValidate
  <2> QED
    BY <1>4, <2>1, <2>2 DEF CallValidate
<1>5. ASSUME NEW t \in Thread, CallRun(t) PROVE Counted'
  <2> DEFINE b == Blocks(Head(call[t].calls).lo, Head(call[t].calls).hi)
  <2> DEFINE n == [call[t] EXCEPT !.calls = Tail(@), !.done = @ \cup b]
  <2>1. IsCall(n) /\ n.pc = call[t].pc
    <3> HIDE DEF b
    <3> QED
      BY <1>0 DEF IsCall
  <2>2. Return(t, "ok", n) \/ (call' = Set(call, t, n) /\ UNCHANGED gate)
    BY <1>5 DEF CallRun
  <2>3. call[t].pc = "run" /\ UNCHANGED sess
    BY <1>5 DEF CallRun
  <2> HIDE DEF n
  <2>4. CASE Return(t, "ok", n)
    BY <1>1, <2>1, <2>3, <2>4
  <2>5. CASE call' = Set(call, t, n) /\ UNCHANGED gate
    <3>1. call'[t] = n /\ \A x \in Thread \ {t} : call'[x] = call[x]
      BY <1>0, <2>5 DEF Set
    <3> QED
      BY <1>2, <2>1, <2>3, <2>5, <3>1
  <2> QED
    BY <2>2, <2>4, <2>5
<1>6. ASSUME NEW t \in Thread, NEW e, CallFails(t, e) PROVE Counted'
  BY <1>0, <1>1, <1>6 DEF CallFails
<1>7. ASSUME NEW t \in Thread, CallReplied(t) PROVE Counted'
  <2>1. call'[t].pc = "idle" /\ \A x \in Thread \ {t} : call'[x] = call[x]
    BY <1>0, <1>7 DEF CallReplied, Set, Idle
  <2> QED
    BY <1>2, <1>7, <2>1 DEF CallReplied
<1>8. ASSUME NEW d \in Daemon, ProcessEnds(d) PROVE Counted'
  <2>1. InsideT(d)' = {} /\ InsideS(d)' = {}
    BY <1>0, <1>8 DEF ProcessEnds, InsideT, InsideS, OfD, Idle
  <2>2. gate'[d].active = 0
    BY <1>0, <1>8 DEF ProcessEnds, Set, NewGate
  <2>3. \A e \in Daemon \ {d} : InsideT(e)' = InsideT(e) /\ InsideS(e)' = InsideS(e) /\ gate'[e] = gate[e]
    BY <1>0, <1>8 DEF ProcessEnds, Set, InsideT, InsideS, OfD
  <2>4. Cardinality({}) = 0
    BY FS_EmptySet
  <2> QED
    BY <2>1, <2>2, <2>3, <2>4 DEF Counted
<1>9. ASSUME UNCHANGED call, \A s \in Session : sess[s] = "admin" <=> sess'[s] = "admin",
             \A d \in Daemon : gate'[d].active = gate[d].active
      PROVE  Counted'
  <2>1. \A d \in Daemon : InsideT(d)' = InsideT(d) /\ InsideS(d)' = InsideS(d)
    BY <1>9 DEF InsideT, InsideS, OfD
  <2> QED
    BY <1>9, <2>1, CountSame
<1>10. ASSUME NEW s \in Session, UNCHANGED call, sess[s] = "admin", NEW to, to # "admin", sess' = Set(sess, s, to),
              gate' = [gate EXCEPT ![OwnerOf[s]] = Leave(@)]
       PROVE  Counted'
  <2> DEFINE o == OwnerOf[s]
  <2>1. o \in Daemon /\ gate[o] \in Gate(Caller)
    BY <1>0
  <2>2. sess'[s] # "admin" /\ \A x \in Session \ {s} : sess'[x] = sess[x]
    BY <1>0, <1>10 DEF Set
  <2>3. gate'[o].active = gate[o].active - 1 /\ \A d \in Daemon \ {o} : gate'[d] = gate[d]
    BY <1>0, <1>10, <2>1, GateSteps
  <2>4. s \in InsideS(o) /\ InsideS(o)' = InsideS(o) \ {s} /\ InsideT(o)' = InsideT(o)
    BY <1>10, <2>1, <2>2 DEF InsideT, InsideS, OfD
  <2>5. \A d \in Daemon \ {o} : InsideT(d)' = InsideT(d) /\ InsideS(d)' = InsideS(d)
    BY <1>10, <2>2 DEF InsideT, InsideS, OfD
  <2> QED
    BY <2>1, <2>3, <2>4, <2>5, CountMoved
<1>11. ASSUME NEW s \in Session, LoopAborts(s) PROVE Counted'
  <2>1. CASE sess[s] = "admin"
    BY <1>0, <1>10, <1>11, <2>1 DEF LoopAborts, Set
  <2>2. CASE sess[s] # "admin"
    <3>1. OwnerOf[s] \in Daemon /\ gate[OwnerOf[s]] \in Gate(Caller)
      BY <1>0
    <3>2. \A d \in Daemon : gate'[d].active = gate[d].active
      <4>1. CancelDrain(gate[OwnerOf[s]]).active = gate[OwnerOf[s]].active
        BY <3>1, GateSteps
      <4> QED
        BY <1>0, <1>11, <2>2, <3>1, <4>1 DEF LoopAborts, Set
    <3>3. \A x \in Session : sess[x] = "admin" <=> sess'[x] = "admin"
      BY <1>0, <1>11, <2>2 DEF LoopAborts, Set
    <3> QED
      BY <1>9, <1>11, <3>2, <3>3 DEF LoopAborts
  <2> QED
    BY <2>1, <2>2
<1>12. ASSUME NEW s \in Session, Verb(s) PROVE Counted'
  <2> DEFINE o == OwnerOf[s]
  <2>1. o \in Daemon /\ gate[o] \in Gate(Caller) /\ sess[s] = "idle" /\ UNCHANGED call
    BY <1>0, <1>12 DEF Verb
  <2>2. CASE gate' = Set(gate, o, Enter(gate[o])) /\ sess' = Set(sess, s, "admin")
    <3>1. sess'[s] = "admin" /\ \A x \in Session \ {s} : sess'[x] = sess[x]
      BY <1>0, <2>2 DEF Set
    <3>2. gate'[o].active = gate[o].active + 1 /\ \A d \in Daemon \ {o} : gate'[d] = gate[d]
      BY <1>0, <2>1, <2>2, GateSteps DEF Set
    <3>3. s \notin InsideS(o) /\ InsideS(o)' = InsideS(o) \cup {s} /\ InsideT(o)' = InsideT(o)
      BY <2>1, <3>1 DEF InsideT, InsideS, OfD
    <3>4. \A d \in Daemon \ {o} : InsideT(d)' = InsideT(d) /\ InsideS(d)' = InsideS(d)
      BY <2>1, <3>1 DEF InsideT, InsideS, OfD
    <3> QED
      BY <2>1, <3>2, <3>3, <3>4, CountMoved
  <2>3. CASE sess' = Set(sess, s, "drain") /\ UNCHANGED gate
    BY <1>0, <1>9, <2>1, <2>3 DEF Set
  <2> QED
    BY <1>12, <2>2, <2>3 DEF Verb
<1>13. ASSUME NEW s \in Session, SessionStep(s) PROVE Counted'
  <2>1. CASE AdminEnds(s)
    BY <1>10, <2>1 DEF AdminEnds
  <2>2. CASE LoopAccept(s) \/ SessionEnds(s)
    BY <1>0, <1>9, <2>2 DEF LoopAccept, SessionEnds, Set
  <2> QED
    BY <1>11, <1>12, <1>13, <2>1, <2>2 DEF SessionStep
<1>14. ASSUME NEW c \in Caller, DrainStep(c) PROVE Counted'
  <2>1. OwnerOf[c] \in Daemon /\ gate[OwnerOf[c]] \in Gate(Caller) /\ (c \in Stopper => c \notin Session)
    BY <1>0 DEF Caller
  <2>2. At(c) \in {"drain"} \cup Stage
    BY <1>14 DEF DrainStep, DrainLock, DrainRegister, DrainCheck, DrainAwait, DrainFlush, DrainCheckpoint, Stage
  <2>3. \E to : to # "admin" /\ Move(c, to)
    BY <1>14 DEF DrainStep, DrainLock, DrainRegister, DrainCheck, DrainAwait, DrainFlush, DrainCheckpoint, DrainAnswer
  <2>4. \A x \in Session : sess[x] = "admin" <=> sess'[x] = "admin"
    BY <1>0, <2>2, <2>3 DEF Move, At, Set, Stage
  <2>5. \A d \in Daemon : gate'[d].active = gate[d].active
    <3> DEFINE g == gate[OwnerOf[c]]
    <3>1. \/ UNCHANGED gate
          \/ \E h \in {CloseGate(g, c), Register(g), DropWaiter(g), Woken(g), FinishDrain(g, TRUE), FinishDrain(g, FALSE)} :
               gate' = [gate EXCEPT ![OwnerOf[c]] = h]
      BY <1>14 DEF DrainStep, DrainLock, DrainRegister, DrainCheck, DrainAwait, DrainFlush, DrainCheckpoint, Set
    <3>2. \A h \in {CloseGate(g, c), Register(g), DropWaiter(g), Woken(g), FinishDrain(g, TRUE), FinishDrain(g, FALSE)} :
            h.active = g.active
      <4>1. /\ CloseGate(g, c).active = g.active /\ Register(g).active = g.active
            /\ DropWaiter(g).active = g.active /\ Woken(g).active = g.active
            /\ FinishDrain(g, TRUE).active = g.active /\ FinishDrain(g, FALSE).active = g.active
        BY <2>1, GateSteps
      <4> QED
        BY <4>1
    <3> QED
      BY <1>0, <2>1, <3>1, <3>2
  <2> QED
    BY <1>9, <1>14, <2>4, <2>5, Frames
<1>15. CASE UNCHANGED <<gate, call, sess>>
  BY <1>9, <1>15
<1>16. ASSUME NEW t \in Thread, ThreadStep(t) PROVE Counted'
  BY <1>3, <1>4, <1>5, <1>6, <1>7, <1>16 DEF ThreadStep
<1>17. CASE (\E d \in Daemon : Start(d) \/ Loop(d)) \/ (\E u \in Stopper : StopStep(u)) \/ PathChanges \/ Done
  BY <1>15, <1>17, Frames DEF vars
<1> QED
  BY <1>8, <1>13, <1>14, <1>16, <1>17, Steps DEF DaemonStep

(* What each kind of step does to the process records. *)
LEMMA ProcSteps ==
  ASSUME Types
  PROVE  /\ \A d \in Daemon : StartRecover(d) =>
              /\ proc[d].up = "new" /\ \A e \in Daemon \ {d} : proc'[e] = proc[e]
              /\ proc'[d].up \in {"recovered", "exited"} /\ proc'[d].state = FALSE /\ proc'[d].loop = "off"
              /\ proc'[d].up = "recovered" => LockFree(d)
         /\ \A d \in Daemon : StartBind(d) =>
              /\ proc[d].up = "recovered" /\ \A e \in Daemon \ {d} : proc'[e] = proc[e]
              /\ \/ proc'[d].up = "exited" /\ proc'[d].state = FALSE /\ proc'[d].loop = "off"
                 \/ /\ proc'[d].up = "bound" /\ proc'[d].state = TRUE /\ proc'[d].loop = "serving"
                    /\ MayPublish(d) /\ path' = d
         /\ \A d \in Daemon : StartPublish(d) =>
              /\ proc[d].up = "bound" /\ proc'[d].up \in {"ready", "failed"} /\ proc'[d].state = proc[d].state
              /\ \A e \in Daemon : proc'[e].loop = proc[e].loop /\ proc'[e].mutex = proc[e].mutex
              /\ \A e \in Daemon \ {d} : proc'[e] = proc[e]
         /\ \A d \in Daemon : ProcessEnds(d) =>
              /\ proc[d].up \notin {"new", "exited"} /\ \A e \in Daemon \ {d} : proc'[e] = proc[e]
              /\ proc'[d].up = "exited" /\ proc'[d].state = FALSE /\ proc'[d].loop = "off"
         /\ \A d \in Daemon : LoopBreaks(d) =>
              /\ proc[d].loop = "serving" /\ proc'[d].loop = "aborting" /\ \A e \in Daemon \ {d} : proc'[e] = proc[e]
              /\ proc'[d].up = proc[d].up /\ proc'[d].state = proc[d].state /\ proc'[d].mutex = proc[d].mutex
         /\ \A d \in Daemon : LoopEnds(d) =>
              /\ proc[d].loop = "aborting" /\ proc'[d].loop \in {"ended", "left"} /\ \A e \in Daemon \ {d} : proc'[e] = proc[e]
              /\ proc'[d].up = proc[d].up /\ proc'[d].state = proc[d].state /\ proc'[d].mutex = proc[d].mutex
         /\ \A s \in Session : SessionStep(s) =>
              \A e \in Daemon : /\ proc'[e].up = proc[e].up /\ proc'[e].state = proc[e].state
                                /\ proc'[e].loop = proc[e].loop /\ proc'[e].mutex = proc[e].mutex
         /\ \A c \in Caller : DrainStep(c) =>
              \A e \in Daemon : /\ proc'[e].up = proc[e].up /\ proc'[e].state = proc[e].state
                                /\ proc'[e].loop = proc[e].loop
                                /\ proc'[e].mutex # proc[e].mutex => e = OwnerOf[c] /\ c \in Stopper /\ stop'[c] = "err"
         /\ \A u \in Stopper : StopStep(u) =>
              /\ \A e \in Daemon : proc'[e].up = proc[e].up /\ proc'[e].loop = proc[e].loop
              /\ \A e \in Daemon \ {OwnerOf[u]} : proc'[e].state = proc[e].state /\ proc'[e].mutex = proc[e].mutex
              /\ \/ proc'[OwnerOf[u]].state = proc[OwnerOf[u]].state
                 \/ StopJoin(u) /\ proc'[OwnerOf[u]].state = FALSE
<1>0. proc \in [Daemon -> Proc] /\ OwnerOf \in [Thread \cup Session \cup Stopper -> Daemon]
  BY DaemonAssumption DEF Types
<1>1. ASSUME NEW d \in Daemon, StartRecover(d)
      PROVE  /\ proc[d].up = "new" /\ \A e \in Daemon \ {d} : proc'[e] = proc[e]
             /\ proc'[d].up \in {"recovered", "exited"} /\ proc'[d].state = FALSE /\ proc'[d].loop = "off"
             /\ proc'[d].up = "recovered" => LockFree(d)
  BY <1>0, <1>1 DEF StartRecover, Set, Refused, StartFails, NewProc
<1>2. ASSUME NEW d \in Daemon, StartBind(d)
      PROVE  /\ proc[d].up = "recovered" /\ \A e \in Daemon \ {d} : proc'[e] = proc[e]
             /\ \/ proc'[d].up = "exited" /\ proc'[d].state = FALSE /\ proc'[d].loop = "off"
                \/ /\ proc'[d].up = "bound" /\ proc'[d].state = TRUE /\ proc'[d].loop = "serving"
                   /\ MayPublish(d) /\ path' = d
  <2>1. proc[d].up = "recovered"
    BY <1>2 DEF StartBind
  <2>2. CASE proc' = Set(proc, d, [NewProc EXCEPT !.up = "exited"])
    BY <1>0, <2>1, <2>2 DEF Set, NewProc
  <2>3. CASE /\ MayPublish(d) /\ path' = d
             /\ proc' = Set(proc, d, [NewProc EXCEPT !.up = "bound", !.state = TRUE, !.loop = "serving"])
    <3>1. /\ proc'[d] = [NewProc EXCEPT !.up = "bound", !.state = TRUE, !.loop = "serving"]
          /\ \A e \in Daemon \ {d} : proc'[e] = proc[e]
      BY <1>0, <2>3 DEF Set
    <3>2. proc'[d].up = "bound" /\ proc'[d].state = TRUE /\ proc'[d].loop = "serving"
      BY <3>1 DEF NewProc
    <3> QED
      BY <2>1, <2>3, <3>1, <3>2
  <2> QED
    BY <1>2, <2>2, <2>3 DEF StartBind, Refused, StartFails
<1>3. ASSUME NEW d \in Daemon, StartPublish(d)
      PROVE  /\ proc[d].up = "bound" /\ proc'[d].up \in {"ready", "failed"} /\ proc'[d].state = proc[d].state
             /\ \A e \in Daemon : proc'[e].loop = proc[e].loop /\ proc'[e].mutex = proc[e].mutex
             /\ \A e \in Daemon \ {d} : proc'[e] = proc[e]
  <2>1. \E x \in {"ready", "failed"} : proc' = [proc EXCEPT ![d] = [proc[d] EXCEPT !.up = x]]
    BY <1>0, <1>3 DEF StartPublish
  <2>2. proc[d].up = "bound"
    BY <1>3 DEF StartPublish
  <2> QED
    BY <1>0, <2>1, <2>2 DEF Proc
<1>4. ASSUME NEW d \in Daemon, ProcessEnds(d)
      PROVE  /\ proc[d].up \notin {"new", "exited"} /\ \A e \in Daemon \ {d} : proc'[e] = proc[e]
             /\ proc'[d].up = "exited" /\ proc'[d].state = FALSE /\ proc'[d].loop = "off"
  BY <1>0, <1>4 DEF ProcessEnds, Set, NewProc
<1>5. ASSUME NEW d \in Daemon, LoopBreaks(d)
      PROVE  /\ proc[d].loop = "serving" /\ proc'[d].loop = "aborting" /\ \A e \in Daemon \ {d} : proc'[e] = proc[e]
             /\ proc'[d].up = proc[d].up /\ proc'[d].state = proc[d].state /\ proc'[d].mutex = proc[d].mutex
  BY <1>0, <1>5 DEF LoopBreaks, Proc
<1>6. ASSUME NEW d \in Daemon, LoopEnds(d)
      PROVE  /\ proc[d].loop = "aborting" /\ proc'[d].loop \in {"ended", "left"} /\ \A e \in Daemon \ {d} : proc'[e] = proc[e]
             /\ proc'[d].up = proc[d].up /\ proc'[d].state = proc[d].state /\ proc'[d].mutex = proc[d].mutex
  <2>1. \E x \in {"ended", "left"} : proc' = [proc EXCEPT ![d].loop = x]
    BY <1>6 DEF LoopEnds
  <2>2. proc[d].loop = "aborting"
    BY <1>6 DEF LoopEnds
  <2> QED
    BY <1>0, <2>1, <2>2 DEF Proc
<1>7. ASSUME NEW s \in Session, SessionStep(s)
      PROVE  \A e \in Daemon : /\ proc'[e].up = proc[e].up /\ proc'[e].state = proc[e].state
                               /\ proc'[e].loop = proc[e].loop /\ proc'[e].mutex = proc[e].mutex
  <2>1. OwnerOf[s] \in Daemon
    BY <1>0
  <2>2. UNCHANGED proc \/ \E x : proc' = [proc EXCEPT ![OwnerOf[s]] = [proc[OwnerOf[s]] EXCEPT !.busy = x]]
    BY <1>0, <1>7, <2>1 DEF SessionStep, LoopAccept, LoopAborts, SessionEnds, Verb, AdminEnds
  <2> QED
    BY <1>0, <2>1, <2>2 DEF Proc
<1>8. ASSUME NEW c \in Caller, DrainStep(c)
      PROVE  \A e \in Daemon : /\ proc'[e].up = proc[e].up /\ proc'[e].state = proc[e].state
                               /\ proc'[e].loop = proc[e].loop
                               /\ proc'[e].mutex # proc[e].mutex => e = OwnerOf[c] /\ c \in Stopper /\ stop'[c] = "err"
  <2> DEFINE o == OwnerOf[c]
  <2>1. o \in Daemon /\ stop \in [Stopper -> {"no", "mutex", "ok", "err"} \cup HoldsMutex] /\ Session \cap Stopper = {}
    BY <1>0, DaemonAssumption DEF Caller, Types
  <2>2. ASSUME NEW ok \in BOOLEAN, DrainAnswer(c, ok)
        PROVE  \E x, y : /\ proc' = [proc EXCEPT ![o] = [proc[o] EXCEPT !.busy = x, !.mutex = y]]
                         /\ y # proc[o].mutex => c \in Stopper /\ stop'[c] = "err"
    <3>1. /\ proc' = [proc EXCEPT ![o] = [proc[o] EXCEPT !.busy = IF c \in Session THEN NoOne ELSE @,
                                                         !.mutex = IF c \in Stopper /\ ~ok THEN NoOne ELSE @]]
      BY <1>0, <2>1, <2>2 DEF DrainAnswer, Proc
    <3>2. c \in Stopper /\ ~ok => stop'[c] = "err"
      BY <2>1, <2>2 DEF DrainAnswer, Move, Set
    <3> QED
      BY <1>0, <2>1, <3>1, <3>2 DEF Proc
  <2>3. \/ UNCHANGED proc
        \/ \E x, y : /\ proc' = [proc EXCEPT ![o] = [proc[o] EXCEPT !.busy = x, !.mutex = y]]
                     /\ y # proc[o].mutex => c \in Stopper /\ stop'[c] = "err"
    BY <1>8, <2>2 DEF DrainStep, DrainLock, DrainRegister, DrainCheck, DrainAwait, DrainFlush, DrainCheckpoint
  <2>4. CASE UNCHANGED proc
    BY <2>4
  <2>5. ASSUME NEW x, NEW y, proc' = [proc EXCEPT ![o] = [proc[o] EXCEPT !.busy = x, !.mutex = y]],
               y # proc[o].mutex => c \in Stopper /\ stop'[c] = "err"
        PROVE  \A e \in Daemon : /\ proc'[e].up = proc[e].up /\ proc'[e].state = proc[e].state
                                 /\ proc'[e].loop = proc[e].loop
                                 /\ proc'[e].mutex # proc[e].mutex => e = o /\ c \in Stopper /\ stop'[c] = "err"
    <3>1. \A e \in Daemon \ {o} : proc'[e] = proc[e]
      BY <1>0, <2>1, <2>5
    <3>2. proc'[o] = [proc[o] EXCEPT !.busy = x, !.mutex = y]
      BY <1>0, <2>1, <2>5
    <3>3. /\ proc'[o].up = proc[o].up /\ proc'[o].state = proc[o].state
          /\ proc'[o].loop = proc[o].loop /\ proc'[o].mutex = y
      BY <1>0, <2>1, <3>2 DEF Proc
    <3> QED
      BY <2>5, <3>1, <3>3
  <2> QED
    BY <2>3, <2>4, <2>5
<1>9. ASSUME NEW u \in Stopper, StopStep(u)
      PROVE  /\ \A e \in Daemon : proc'[e].up = proc[e].up /\ proc'[e].loop = proc[e].loop
             /\ \A e \in Daemon \ {OwnerOf[u]} : proc'[e].state = proc[e].state /\ proc'[e].mutex = proc[e].mutex
             /\ \/ proc'[OwnerOf[u]].state = proc[OwnerOf[u]].state
                \/ StopJoin(u) /\ proc'[OwnerOf[u]].state = FALSE
  <2>1. OwnerOf[u] \in Daemon
    BY <1>0
  <2>2. CASE StopCall(u)
    BY <2>2 DEF StopCall
  <2>3. CASE StopMutex(u)
    <3>1. UNCHANGED proc \/ proc' = [proc EXCEPT ![OwnerOf[u]] = [proc[OwnerOf[u]] EXCEPT !.mutex = u]]
      BY <1>0, <2>1, <2>3 DEF StopMutex
    <3> QED
      BY <1>0, <2>1, <3>1 DEF Proc
  <2>4. CASE StopSignal(u)
    BY <1>0, <2>1, <2>4 DEF StopSignal, Proc
  <2>5. CASE StopJoin(u)
    BY <1>0, <2>1, <2>5 DEF StopJoin, Proc
  <2> QED
    BY <1>9, <2>2, <2>3, <2>4, <2>5 DEF StopStep
<1> QED
  BY <1>1, <1>2, <1>3, <1>4, <1>5, <1>6, <1>7, <1>8, <1>9

(* Who may change a daemon's start, loop and adapter state: its own start, *)
(* end and loop, and a StopJoin of one of its stoppers. *)
LEMMA ProcMoves ==
  ASSUME Types, Next, NEW d \in Daemon
  PROVE  \/ Start(d) \/ ProcessEnds(d) \/ Loop(d)
         \/ /\ proc'[d].up = proc[d].up /\ proc'[d].loop = proc[d].loop
            /\ \/ proc'[d].state = proc[d].state
               \/ \E u \in Stopper : OwnerOf[u] = d /\ StopJoin(u) /\ proc'[d].state = FALSE
<1> DEFINE P == /\ proc'[d].up = proc[d].up /\ proc'[d].loop = proc[d].loop
                /\ \/ proc'[d].state = proc[d].state
                   \/ \E u \in Stopper : OwnerOf[u] = d /\ StopJoin(u) /\ proc'[d].state = FALSE
<1>1. ASSUME NEW e \in Daemon, DaemonStep(e), e # d PROVE P
  BY <1>1, ProcSteps DEF DaemonStep, Start, Loop
<1>2. ASSUME NEW s \in Session, SessionStep(s) PROVE P
  BY <1>2, ProcSteps
<1>3. ASSUME NEW c \in Caller, DrainStep(c) PROVE P
  BY <1>3, ProcSteps
<1>4. ASSUME NEW u \in Stopper, StopStep(u) PROVE P
  <2>1. CASE OwnerOf[u] = d
    BY <1>4, <2>1, ProcSteps
  <2>2. CASE OwnerOf[u] # d
    <3>1. d \in Daemon \ {OwnerOf[u]}
      BY <2>2
    <3>2. /\ proc'[d].up = proc[d].up /\ proc'[d].loop = proc[d].loop
          /\ \A e \in Daemon \ {OwnerOf[u]} : proc'[e].state = proc[e].state
      BY <1>4, ProcSteps
    <3> QED
      BY <3>1, <3>2
  <2> QED
    BY <2>1, <2>2
<1>5. ASSUME (\E t \in Thread : ThreadStep(t)) \/ PathChanges \/ Done PROVE P
  BY <1>5, Frames DEF vars
<1> HIDE DEF P
<1>6. DaemonStep(d) \/ P
  BY <1>1, <1>2, <1>3, <1>4, <1>5, Steps
<1> QED
  BY <1>6 DEF P, DaemonStep

(* A callback comes inside only in a daemon that is ready, and runs only *)
(* on an adapter that still has its state. *)
LEMMA CallMoves ==
  ASSUME Types, Next, NEW t \in Thread
  PROVE  /\ call'[t].pc \in {"valid", "run"} =>
              /\ call[t].pc \in {"valid", "run"} \/ proc[OwnerOf[t]].up = "ready"
              /\ ~ProcessEnds(OwnerOf[t])
         /\ call'[t].pc = "run" => call[t].pc = "run" \/ (proc[OwnerOf[t]].state /\ UNCHANGED proc)
<1> DEFINE o == OwnerOf[t]
<1> DEFINE P == /\ call'[t].pc \in {"valid", "run"} =>
                     call[t].pc \in {"valid", "run"} \/ proc[o].up = "ready"
                /\ call'[t].pc = "run" => call[t].pc = "run" \/ (proc[o].state /\ UNCHANGED proc)
<1>0. /\ call = [x \in Thread |-> call[x]] /\ \A x \in Thread : IsCall(call[x])
      /\ o \in Daemon
  BY DaemonAssumption DEF Types
<1>1. ASSUME call'[t] = call[t] PROVE P
  BY <1>1
<1>2. ASSUME NEW d \in Daemon, ProcessEnds(d)
      PROVE  call'[t] = IF o = d THEN Idle ELSE call[t]
  BY <1>2 DEF ProcessEnds
<1>3. Idle.pc = "idle"
  BY DEF Idle
<1>4. ASSUME NEW d \in Daemon, DaemonStep(d) PROVE P
  <2>1. CASE ProcessEnds(d)
    BY <1>1, <1>2, <1>3, <2>1
  <2> QED
    BY <1>1, <1>4, <2>1, Frames DEF DaemonStep
<1>5. ASSUME NEW x \in Thread, ThreadStep(x) PROVE P
  <2>0. UNCHANGED proc
    BY <1>5, Frames
  <2>1. CASE x # t
    <3>1. call'[t] = call[t]
      BY <1>0, <1>5, <2>1 DEF ThreadStep, CallEnter, CallValidate, CallRun, CallFails, CallReplied, Return, Set
    <3> QED
      BY <1>1, <3>1
  <2>2. ASSUME NEW c, c.pc # "run", c.pc # "valid", call' = Set(call, t, c) PROVE P
    BY <1>0, <2>2 DEF Set
  <2>3. ASSUME NEW reply, NEW c, IsCall(c), Return(t, reply, c) PROVE P
    BY <1>0, <2>3 DEF Return, Set, IsCall
  <2>4. CASE CallValidate(t)
    <3>1. CASE \E reply : Return(t, reply, call[t])
      BY <1>0, <2>3, <3>1
    <3>2. CASE proc[o].state
      BY <2>0, <2>4, <3>2 DEF CallValidate
    <3> QED
      BY <2>4, <3>1, <3>2 DEF CallValidate
  <2>5. CASE CallRun(t)
    BY <2>5 DEF CallRun
  <2>6. ASSUME NEW e, CallFails(t, e) PROVE P
    BY <2>6 DEF CallFails
  <2>7. CASE CallReplied(t)
    BY <1>3, <2>2, <2>7 DEF CallReplied
  <2>8. ASSUME NEW r, CallEnter(t, r) PROVE P
    <3>1. call'[t].pc \in {"valid", "replied"} /\ proc[o].up = "ready"
      BY <1>0, <2>8 DEF CallEnter, Set, Idle
    <3> QED
      BY <3>1
  <2> QED
    BY <1>5, <2>1, <2>4, <2>5, <2>6, <2>7, <2>8 DEF ThreadStep
<1>6. ASSUME (\E s \in Session : SessionStep(s)) \/ (\E c \in Caller : DrainStep(c))
               \/ (\E u \in Stopper : StopStep(u)) \/ PathChanges \/ Done
      PROVE  P
  BY <1>1, <1>6, Frames DEF vars
<1> HIDE DEF P
<1>7. P
  BY <1>4, <1>5, <1>6, Steps
<1> QED
  BY <1>0, <1>2, <1>3, <1>7 DEF P

(* A session or a stopper is moved by its own steps only, or by the end of *)
(* its process. *)
LEMMA CallerMoves ==
  ASSUME Types, Next, NEW c \in Caller
  PROVE  \/ At(c)' = At(c)
         \/ c \in Session /\ SessionStep(c)
         \/ c \in Stopper /\ StopStep(c)
         \/ DrainStep(c)
         \/ ProcessEnds(OwnerOf[c]) /\ At(c)' = IF c \in Session THEN "none" ELSE "no"
<1>0. /\ sess \in [Session -> {"none", "idle", "admin", "drain"} \cup Stage]
      /\ stop \in [Stopper -> {"no", "mutex", "ok", "err"} \cup HoldsMutex]
      /\ Session \cap Stopper = {}
  BY DaemonAssumption DEF Types
<1>1. ASSUME UNCHANGED <<sess, stop>> PROVE At(c)' = At(c)
  BY <1>1 DEF At
<1>2. ASSUME NEW d \in Daemon, ProcessEnds(d)
      PROVE  At(c)' = IF OwnerOf[c] # d THEN At(c) ELSE IF c \in Session THEN "none" ELSE "no"
  BY <1>0, <1>2 DEF ProcessEnds, At, Caller
<1>3. ASSUME NEW s \in Session, SessionStep(s), s # c PROVE At(c)' = At(c)
  BY <1>0, <1>3 DEF SessionStep, LoopAccept, LoopAborts, SessionEnds, Verb, AdminEnds, Set, At, Caller
<1>4. ASSUME NEW u \in Stopper, StopStep(u), u # c PROVE At(c)' = At(c)
  BY <1>0, <1>4 DEF StopStep, StopCall, StopMutex, StopSignal, StopJoin, Set, At, Caller
<1>5. ASSUME NEW x \in Caller, DrainStep(x), x # c PROVE At(c)' = At(c)
  <2>1. PICK to : Move(x, to)
    BY <1>5 DEF DrainStep, DrainLock, DrainRegister, DrainCheck, DrainAwait, DrainFlush, DrainCheckpoint, DrainAnswer
  <2> QED
    BY <1>0, <1>5, <2>1 DEF Move, Set, At, Caller
<1>6. ASSUME NEW d \in Daemon, DaemonStep(d)
      PROVE  At(c)' = At(c) \/ (ProcessEnds(OwnerOf[c]) /\ At(c)' = IF c \in Session THEN "none" ELSE "no")
  <2>1. CASE ProcessEnds(d)
    BY <1>2, <2>1
  <2> QED
    BY <1>1, <1>6, <2>1, Frames DEF DaemonStep
<1>7. ASSUME (\E t \in Thread : ThreadStep(t)) \/ PathChanges \/ Done PROVE At(c)' = At(c)
  BY <1>1, <1>7, Frames DEF vars
<1> QED
  BY <1>3, <1>4, <1>5, <1>6, <1>7, Steps

(* A gate becomes drained only by the step that also writes the *)
(* checkpoint, and stops being drained only by a drain in progress or by *)
(* the end of the process. *)
LEMMA PhaseMoves ==
  ASSUME Types, Next, NEW d \in Daemon
  PROVE  /\ gate'[d].phase = "drained" => \/ gate[d].phase = "drained" /\ ~ProcessEnds(d)
                                          \/ eng'[volume[d]].clean
         /\ gate[d].phase = "drained" => \/ gate'[d].phase = "drained"
                                         \/ ProcessEnds(d)
                                         \/ \E c \in Caller : OwnerOf[c] = d /\ At(c) \in Stage
<1> DEFINE P == /\ gate'[d].phase = "drained" => gate[d].phase = "drained" \/ eng'[volume[d]].clean
                /\ gate[d].phase = "drained" => \/ gate'[d].phase = "drained"
                                                \/ ProcessEnds(d)
                                                \/ \E c \in Caller : OwnerOf[c] = d /\ At(c) \in Stage
<1>0. /\ gate \in [Daemon -> Gate(Caller)] /\ OwnerOf \in [Thread \cup Session \cup Stopper -> Daemon]
      /\ eng \in [Volume -> Records] /\ volume \in [Daemon -> Volume]
  BY DaemonAssumption DEF Types
<1>1. ASSUME gate'[d].phase = gate[d].phase PROVE P
  BY <1>1
<1>1a. ASSUME NEW e \in Daemon, NEW h, h.phase = gate[e].phase, gate' = [gate EXCEPT ![e] = h] PROVE P
  <2>1. gate'[d].phase = gate[d].phase
    BY <1>0, <1>1a
  <2> QED
    BY <1>1, <2>1
<1>2. ASSUME NEW e \in Daemon, ProcessEnds(e)
      PROVE  gate'[d] = IF e = d THEN NewGate ELSE gate[d]
  BY <1>0, <1>2 DEF ProcessEnds, Set
<1>3. NewGate.phase = "running"
  BY DEF NewGate
<1>4. ASSUME NEW e \in Daemon, DaemonStep(e) PROVE P
  <2>1. CASE ProcessEnds(e)
    BY <1>1, <1>2, <1>3, <2>1
  <2> QED
    BY <1>1, <1>4, <2>1, Frames DEF DaemonStep
<1>5. ASSUME NEW t \in Thread, ThreadStep(t) PROVE P
  <2>1. OwnerOf[t] \in Daemon /\ gate[OwnerOf[t]] \in Gate(Caller)
    BY <1>0
  <2>2. \/ UNCHANGED gate
        \/ gate' = [gate EXCEPT ![OwnerOf[t]] = Enter(@)]
        \/ gate' = [gate EXCEPT ![OwnerOf[t]] = Leave(@)]
    BY <1>5 DEF ThreadStep, CallEnter, CallValidate, CallRun, CallFails, CallReplied, Return, Set
  <2>3. Enter(gate[OwnerOf[t]]).phase = gate[OwnerOf[t]].phase /\ Leave(gate[OwnerOf[t]]).phase = gate[OwnerOf[t]].phase
    BY <2>1, GateSteps
  <2> QED
    BY <1>1, <1>1a, <2>1, <2>2, <2>3
<1>6. ASSUME NEW s \in Session, SessionStep(s) PROVE P
  <2>1. OwnerOf[s] \in Daemon /\ gate[OwnerOf[s]] \in Gate(Caller)
    BY <1>0
  <2>2. \/ UNCHANGED gate
        \/ gate' = [gate EXCEPT ![OwnerOf[s]] = Enter(@)]
        \/ gate' = [gate EXCEPT ![OwnerOf[s]] = Leave(@)]
        \/ gate' = [gate EXCEPT ![OwnerOf[s]] = CancelDrain(@)]
    BY <1>6 DEF SessionStep, LoopAccept, LoopAborts, SessionEnds, Verb, AdminEnds, Set
  <2>3. /\ Enter(gate[OwnerOf[s]]).phase = gate[OwnerOf[s]].phase
        /\ Leave(gate[OwnerOf[s]]).phase = gate[OwnerOf[s]].phase
        /\ CancelDrain(gate[OwnerOf[s]]).phase = gate[OwnerOf[s]].phase
    BY <2>1, GateSteps
  <2> QED
    BY <1>1, <1>1a, <2>1, <2>2, <2>3
<1>7. ASSUME NEW c \in Caller, DrainStep(c) PROVE P
  <2> DEFINE o == OwnerOf[c]
  <2> DEFINE g == gate[o]
  <2>1. o \in Daemon /\ g \in Gate(Caller)
    BY <1>0 DEF Caller
  <2>2. CASE o # d
    <3>1. UNCHANGED gate \/ \E h : gate' = [gate EXCEPT ![o] = h]
      BY <1>7 DEF DrainStep, DrainLock, DrainRegister, DrainCheck, DrainAwait, DrainFlush, DrainCheckpoint, Set
    <3> QED
      BY <1>0, <1>1, <2>2, <3>1
  <2>3. CASE o = d /\ At(c) \notin Stage
    <3>1. DrainLock(c)
      BY <1>7, <2>3 DEF DrainStep, DrainRegister, DrainCheck, DrainAwait, DrainFlush, DrainCheckpoint, Stage
    <3>2. UNCHANGED gate \/ (g.phase # "drained" /\ gate' = [gate EXCEPT ![o] = CloseGate(g, c)])
      BY <3>1 DEF DrainLock, Answered, Set
    <3>3. CloseGate(g, c).phase = "draining"
      BY <2>1, GateSteps
    <3> QED
      BY <1>0, <1>1, <2>1, <2>3, <3>2, <3>3
  <2>4. CASE o = d /\ At(c) \in Stage
    <3>1. gate'[d].phase = "drained" => gate[d].phase = "drained" \/ eng'[volume[d]].clean
      <4>1. /\ Register(g).phase = g.phase /\ DropWaiter(g).phase = g.phase /\ Woken(g).phase = g.phase
            /\ FinishDrain(g, FALSE).phase = "failed"
        BY <2>1, GateSteps
      <4>2. CASE eng' = [eng EXCEPT ![volume[o]] = [clean |-> TRUE, unsynced |-> {}]]
        BY <1>0, <2>4, <4>2
      <4>3. CASE \/ UNCHANGED gate
                 \/ \E h \in {Register(g), DropWaiter(g), Woken(g), FinishDrain(g, FALSE)} :
                      gate' = [gate EXCEPT ![o] = h]
        <5>1. CASE UNCHANGED gate
          BY <5>1
        <5>2. ASSUME NEW h, h.phase = g.phase \/ h.phase = "failed", gate' = [gate EXCEPT ![o] = h]
              PROVE  gate'[d].phase = "drained" => gate[d].phase = "drained"
          BY <1>0, <2>1, <2>4, <5>2
        <5> QED
          BY <4>1, <4>3, <5>1, <5>2
      <4> QED
        BY <1>7, <2>4, <4>2, <4>3
        DEF DrainStep, DrainLock, DrainRegister, DrainCheck, DrainAwait, DrainFlush, DrainCheckpoint, Set, Stage
    <3> QED
      BY <2>4, <3>1
  <2> QED
    BY <2>2, <2>3, <2>4
<1>8. ASSUME (\E u \in Stopper : StopStep(u)) \/ PathChanges \/ Done PROVE P
  BY <1>1, <1>8, Frames DEF vars
<1> HIDE DEF P
<1>9. P
  BY <1>4, <1>5, <1>6, <1>7, <1>8, Steps
<1> QED
  BY <1>2, <1>3, <1>9 DEF P

(* Records become newer than the checkpoint only by a recovery that took *)
(* the volume lock, or by a callback that runs. *)
LEMMA EngMoves ==
  ASSUME Types, Next, NEW v \in Volume, eng[v].clean, ~eng'[v].clean
  PROVE  \/ \E d \in Daemon : LockFree(d) /\ proc[d].up = "new" /\ volume[d] = v
         \/ \E t \in Thread : call[t].pc = "run" /\ volume[OwnerOf[t]] = v
<1>0. /\ eng \in [Volume -> Records] /\ volume \in [Daemon -> Volume]
      /\ OwnerOf \in [Thread \cup Session \cup Stopper -> Daemon]
  BY DaemonAssumption DEF Types
<1> DEFINE P == \/ \E d \in Daemon : LockFree(d) /\ proc[d].up = "new" /\ volume[d] = v
                \/ \E t \in Thread : call[t].pc = "run" /\ volume[OwnerOf[t]] = v
<1>1. ASSUME UNCHANGED eng PROVE P
  BY <1>1
<1>2. ASSUME NEW w \in Volume, NEW r, eng' = [eng EXCEPT ![w] = r], r.clean \/ r.clean = eng[w].clean PROVE P
  BY <1>0, <1>2
<1>3. ASSUME NEW w \in Volume, NEW T PROVE [eng[w] EXCEPT !.unsynced = T].clean = eng[w].clean
  BY <1>0 DEF Records
<1>4. ASSUME NEW d \in Daemon, DaemonStep(d) PROVE P
  <2>1. CASE StartRecover(d)
    BY <1>0, <1>1, <2>1 DEF StartRecover
  <2>2. CASE ProcessEnds(d)
    BY <1>0, <1>2, <1>3, <2>2 DEF ProcessEnds
  <2>3. CASE StartBind(d) \/ StartPublish(d) \/ Loop(d)
    BY <1>1, <2>3, Frames DEF StartBind, StartPublish
  <2> QED
    BY <1>4, <2>1, <2>2, <2>3 DEF DaemonStep, Start
<1>5. ASSUME NEW t \in Thread, ThreadStep(t) PROVE P
  <2>1. volume[OwnerOf[t]] \in Volume
    BY <1>0
  <2>2. CASE call[t].pc = "run"
    <3>1. CASE volume[OwnerOf[t]] = v
      BY <2>2, <3>1
    <3>2. CASE volume[OwnerOf[t]] # v
      <4>1. eng'[v] = eng[v]
        BY <1>0, <1>5, <2>1, <2>2, <3>2
        DEF ThreadStep, CallEnter, CallValidate, CallRun, CallFails, CallReplied, Set
      <4> QED
        BY <4>1
    <3> QED
      BY <3>1, <3>2
  <2>3. CASE CallReplied(t)
    BY <1>2, <1>3, <2>1, <2>3 DEF CallReplied
  <2>4. CASE call[t].pc # "run" /\ ~CallReplied(t)
    BY <1>1, <1>5, <2>4 DEF ThreadStep, CallEnter, CallValidate, CallRun, CallFails
  <2> QED
    BY <2>2, <2>3, <2>4
<1>6. ASSUME NEW s \in Session, SessionStep(s) PROVE P
  <2>1. volume[OwnerOf[s]] \in Volume
    BY <1>0
  <2>2. UNCHANGED eng \/ eng' = [eng EXCEPT ![volume[OwnerOf[s]]] = [clean |-> TRUE, unsynced |-> {}]]
    BY <1>6 DEF SessionStep, LoopAccept, LoopAborts, SessionEnds, Verb, AdminEnds
  <2> QED
    BY <1>1, <1>2, <2>1, <2>2
<1>7. ASSUME NEW c \in Caller, DrainStep(c) PROVE P
  <2>1. volume[OwnerOf[c]] \in Volume
    BY <1>0 DEF Caller
  <2>2. \/ UNCHANGED eng
        \/ eng' = [eng EXCEPT ![volume[OwnerOf[c]]] = [clean |-> TRUE, unsynced |-> {}]]
        \/ eng' = [eng EXCEPT ![volume[OwnerOf[c]]].unsynced = {}]
    BY <1>7 DEF DrainStep, DrainLock, DrainRegister, DrainCheck, DrainAwait, DrainFlush, DrainCheckpoint
  <2> QED
    BY <1>1, <1>2, <1>3, <2>1, <2>2
<1>8. ASSUME (\E u \in Stopper : StopStep(u)) \/ PathChanges \/ Done PROVE P
  BY <1>1, <1>8, Frames DEF vars
<1> HIDE DEF P
<1>9. P
  BY <1>4, <1>5, <1>6, <1>7, <1>8, Steps
<1> QED
  BY <1>9 DEF P

(* Who holds a volume, spelled out for this state and for the next. *)
LEMMA Held ==
  \A d \in Daemon :
    /\ Holds(d) <=> \/ proc[d].up = "recovered" \/ proc[d].state \/ Listening(d)
                    \/ \E s \in Session : OwnerOf[s] = d /\ sess[s] # "none"
                    \/ \E t \in Thread : OwnerOf[t] = d /\ call[t].pc = "run"
                    \/ \E u \in Stopper : OwnerOf[u] = d /\ stop[u] \in HasEngine
    /\ Holds(d)' <=> \/ proc'[d].up = "recovered" \/ proc'[d].state \/ Listening(d)'
                     \/ \E s \in Session : OwnerOf[s] = d /\ sess'[s] # "none"
                     \/ \E t \in Thread : OwnerOf[t] = d /\ call'[t].pc = "run"
                     \/ \E u \in Stopper : OwnerOf[u] = d /\ stop'[u] \in HasEngine
  BY DEF Holds, Refs, OfD, HasEngine, Stage, Listening

(* A daemon comes to hold its volume only by StartRecover with the lock *)
(* free: every other reference to the engine is a copy of one that was *)
(* there. *)
LEMMA HoldsFrom ==
  ASSUME Types, Next, NEW d \in Daemon, Holds(d)'
  PROVE  Holds(d) \/ (StartRecover(d) /\ LockFree(d))
<1>0. /\ OwnerOf \in [Thread \cup Session \cup Stopper -> Daemon]
      /\ sess \in [Session -> {"none", "idle", "admin", "drain"} \cup Stage]
      /\ stop \in [Stopper -> {"no", "mutex", "ok", "err"} \cup HoldsMutex]
      /\ Session \cap Stopper = {} /\ Caller = Session \cup Stopper
  BY DaemonAssumption DEF Types, Caller
<1>1. ASSUME proc'[d].up = "recovered" \/ proc'[d].state \/ Listening(d)'
      PROVE  proc[d].up = "recovered" \/ proc[d].state \/ Listening(d) \/ (StartRecover(d) /\ LockFree(d))
  <2>1. CASE StartRecover(d)
    <3>1. proc'[d].up = "recovered"
      BY <1>1, <2>1, ProcSteps DEF Listening
    <3> QED
      BY <2>1, <3>1, ProcSteps
  <2>2. CASE StartBind(d)
    BY <2>2, ProcSteps
  <2>3. CASE StartPublish(d)
    BY <1>1, <2>3, ProcSteps DEF Listening
  <2>4. CASE ProcessEnds(d)
    BY <1>1, <2>4, ProcSteps DEF Listening
  <2>5. CASE Loop(d)
    BY <1>1, <2>5, ProcSteps DEF Listening, Loop
  <2>6. CASE /\ proc'[d].up = proc[d].up /\ proc'[d].loop = proc[d].loop
             /\ proc'[d].state = proc[d].state \/ proc'[d].state = FALSE
    BY <1>1, <2>6 DEF Listening
  <2> QED
    BY <2>1, <2>2, <2>3, <2>4, <2>5, <2>6, ProcMoves DEF Start
<1>2. ASSUME NEW s \in Session, OwnerOf[s] = d, sess'[s] # "none" PROVE sess[s] # "none" \/ Listening(d)
  <2>1. At(s)' = At(s) => sess[s] # "none"
    BY <1>2 DEF At
  <2>2. SessionStep(s) => sess[s] # "none" \/ Listening(d)
    BY <1>2 DEF SessionStep, LoopAccept, LoopAborts, SessionEnds, Verb, AdminEnds, Listening
  <2>3. DrainStep(s) => sess[s] # "none"
    BY DEF DrainStep, DrainLock, DrainRegister, DrainCheck, DrainAwait, DrainFlush, DrainCheckpoint, At
  <2>4. At(s)' # "none" /\ s \in Caller /\ s \notin Stopper
    BY <1>0, <1>2 DEF At
  <2> QED
    BY <2>1, <2>2, <2>3, <2>4, CallerMoves
<1>3. ASSUME NEW u \in Stopper, OwnerOf[u] = d, stop'[u] \in HasEngine PROVE stop[u] \in HasEngine \/ proc[d].state
  <2>0. u \in Caller /\ u \notin Session
    BY <1>0
  <2>1. At(u)' = At(u) => stop[u] \in HasEngine
    BY <1>3, <2>0 DEF At
  <2>2. StopStep(u) => proc[d].state
    BY <1>0, <1>3 DEF StopStep, StopCall, StopMutex, StopSignal, StopJoin, Set, HasEngine, Stage
  <2>3. DrainStep(u) => stop[u] \in HasEngine
    BY <2>0 DEF DrainStep, DrainLock, DrainRegister, DrainCheck, DrainAwait, DrainFlush, DrainCheckpoint, At, HasEngine, Stage
  <2>4. At(u)' # "no"
    BY <1>3, <2>0 DEF At, HasEngine, Stage
  <2> QED
    BY <2>0, <2>1, <2>2, <2>3, <2>4, CallerMoves
<1>4. ASSUME NEW t \in Thread, OwnerOf[t] = d, call'[t].pc = "run" PROVE call[t].pc = "run" \/ proc[d].state
  BY <1>4, CallMoves
<1> QED
  BY <1>1, <1>2, <1>3, <1>4, Held

(* So two daemons never hold one volume. *)
LEMMA ExclusiveKept ==
  ASSUME Types, Exclusive, Next
  PROVE  Exclusive'
<1> SUFFICES ASSUME NEW d \in Daemon, NEW e \in Daemon, Holds(d)', Holds(e)', volume[d] = volume[e], d # e
             PROVE  FALSE
  BY VolumeFixed DEF Exclusive
<1>1. Holds(d) \/ (StartRecover(d) /\ LockFree(d))
  BY HoldsFrom
<1>2. Holds(e) \/ (StartRecover(e) /\ LockFree(e))
  BY HoldsFrom
<1>3. ~(StartRecover(d) /\ StartRecover(e))
  <2>1. StartRecover(d) => proc'[e] = proc[e]
    <3>1. e \in Daemon \ {d}
      OBVIOUS
    <3>2. StartRecover(d) => \A x \in Daemon \ {d} : proc'[x] = proc[x]
      BY ProcSteps
    <3> QED
      BY <3>1, <3>2
  <2>2. StartRecover(e) => proc[e].up = "new" /\ proc'[e].up \in {"recovered", "exited"}
    BY ProcSteps
  <2> QED
    BY <2>1, <2>2
<1>4. ~(Holds(d) /\ Holds(e))
  BY DEF Exclusive
<1> QED
  BY <1>1, <1>2, <1>3, <1>4 DEF LockFree

(* The checkpoint an acknowledged drain answered with stays the last word: *)
(* a callback that could write would be inside the drained gate, or belong *)
(* to another daemon on the same volume. *)
LEMMA CoveredKept ==
  ASSUME Types, Counted, DrainAlone, Exclusive, Covered, Next
  PROVE  Covered'
<1> SUFFICES ASSUME NEW d \in Daemon, gate'[d].phase = "drained", Holds(d)', ~eng'[volume[d]].clean
             PROVE  FALSE
  BY VolumeFixed DEF Covered
<1>1. gate[d].phase = "drained" /\ volume[d] \in Volume
  BY PhaseMoves DEF Types
<1>2. proc[d].up # "new"
  BY <1>1 DEF DrainAlone
<1>3. Holds(d)
  BY <1>2, HoldsFrom, ProcSteps
<1>4. eng[volume[d]].clean
  BY <1>1, <1>3 DEF Covered
<1>5. ASSUME NEW e \in Daemon, LockFree(e), proc[e].up = "new", volume[e] = volume[d] PROVE FALSE
  BY <1>2, <1>3, <1>5 DEF LockFree
<1>6. ASSUME NEW t \in Thread, call[t].pc = "run", volume[OwnerOf[t]] = volume[d] PROVE FALSE
  <2>1. OwnerOf[t] \in Daemon /\ Holds(OwnerOf[t])
    BY <1>6, Held, DaemonAssumption
  <2>2. OwnerOf[t] = d
    BY <1>3, <1>6, <2>1 DEF Exclusive
  <2>3. gate[d].active > 0 /\ gate[d].active = 0
    BY <1>1, <1>6, <2>2, Inside DEF DrainAlone
  <2> QED
    BY <2>3
<1> QED
  BY <1>1, <1>4, <1>5, <1>6, EngMoves

(* Next keeps the drain alone, cancelled drains and answered ones *)
(* included. *)
LEMMA DrainAloneKept ==
  ASSUME Types, Counted, DrainAlone, Life, Next
  PROVE  DrainAlone'
<1>0. /\ gate \in [Daemon -> Gate(Caller)] /\ proc \in [Daemon -> Proc]
      /\ OwnerOf \in [Thread \cup Session \cup Stopper -> Daemon]
      /\ sess \in [Session -> {"none", "idle", "admin", "drain"} \cup Stage]
      /\ stop \in [Stopper -> {"no", "mutex", "ok", "err"} \cup HoldsMutex]
      /\ Session \cap Stopper = {} /\ NoOne \notin Caller
  BY DaemonAssumption DEF Types, Caller
<1>1. \A c \in Caller : OwnerOf[c] \in Daemon
  BY <1>0 DEF Caller
<1>2. ASSUME NEW o \in Daemon, NEW g, g.phase = gate[o].phase, g.drainer = gate[o].drainer,
             gate' = [gate EXCEPT ![o] = g],
             \/ g.active = gate[o].active
             \/ gate[o].phase = "running"
             \/ gate[o].active > 0,
             UNCHANGED stop, \A s \in Session : sess'[s] \in Stage => sess[s] = sess'[s],
             \A d \in Daemon : proc'[d].up \in {"new", "recovered"} => proc[d].up = proc'[d].up
      PROVE  DrainAlone'
  <2>1. \A c \in Caller : At(c)' \in Stage => At(c)' = At(c)
    BY <1>2 DEF At, Caller
  <2>2. gate'[o] = g /\ \A d \in Daemon \ {o} : gate'[d] = gate[d]
    BY <1>0, <1>2
  <2> QED
    BY <1>1, <1>2, <2>1, <2>2 DEF DrainAlone, Stage
<1>3. ASSUME UNCHANGED gate, \A s \in Session : sess'[s] \in Stage => sess[s] = sess'[s],
             \A u \in Stopper : stop'[u] \in Stage => stop[u] = stop'[u],
             \A d \in Daemon : proc'[d].up \in {"new", "recovered"} => gate[d].phase = "running"
      PROVE  DrainAlone'
  <2>1. \A c \in Caller : At(c)' \in Stage => At(c)' = At(c)
    BY <1>3 DEF At, Caller
  <2> QED
    BY <1>1, <1>3, <2>1 DEF DrainAlone, Stage
<1>4. CASE UNCHANGED <<gate, sess, stop, proc>>
  BY <1>3, <1>4 DEF DrainAlone
<1>5. ASSUME NEW d \in Daemon, Start(d) \/ Loop(d) PROVE DrainAlone'
  <2>1. UNCHANGED <<gate, sess, stop>>
    BY <1>5, Frames
  <2>2. \A e \in Daemon : proc'[e].up \in {"new", "recovered"} => proc[e].up \in {"new", "recovered"}
    BY <1>5, ProcSteps DEF Start, Loop
  <2> QED
    BY <1>3, <2>1, <2>2 DEF DrainAlone
<1>6. ASSUME NEW d \in Daemon, ProcessEnds(d) PROVE DrainAlone'
  <2>1. gate'[d] = NewGate /\ \A e \in Daemon \ {d} : gate'[e] = gate[e] /\ proc'[e] = proc[e]
    BY <1>0, <1>6 DEF ProcessEnds, Set
  <2>2. \A c \in Caller : At(c)' = IF OwnerOf[c] = d THEN IF c \in Session THEN "none" ELSE "no" ELSE At(c)
    BY <1>0, <1>6 DEF ProcessEnds, At, Caller
  <2>3. NewGate.phase = "running"
    BY DEF NewGate
  <2> QED
    BY <1>1, <2>1, <2>2, <2>3 DEF DrainAlone, Stage
<1>7. ASSUME NEW t \in Thread, ThreadStep(t) PROVE DrainAlone'
  <2>1. UNCHANGED <<proc, sess, stop>> /\ OwnerOf[t] \in Daemon /\ gate[OwnerOf[t]] \in Gate(Caller)
    BY <1>0, <1>7, Frames
  <2>2. \/ UNCHANGED gate
        \/ Admits(gate[OwnerOf[t]]) /\ gate' = [gate EXCEPT ![OwnerOf[t]] = Enter(@)]
        \/ call[t].pc \in {"valid", "run"} /\ gate' = [gate EXCEPT ![OwnerOf[t]] = Leave(@)]
    BY <1>7 DEF ThreadStep, CallEnter, CallValidate, CallRun, CallFails, CallReplied, Return, Set
  <2>3. CASE UNCHANGED gate
    BY <1>4, <2>1, <2>3
  <2>4. CASE Admits(gate[OwnerOf[t]]) /\ gate' = [gate EXCEPT ![OwnerOf[t]] = Enter(@)]
    BY <1>2, <2>1, <2>4, GateSteps DEF Admits
  <2>5. CASE call[t].pc \in {"valid", "run"} /\ gate' = [gate EXCEPT ![OwnerOf[t]] = Leave(@)]
    BY <1>2, <2>1, <2>5, GateSteps, Inside
  <2> QED
    BY <2>2, <2>3, <2>4, <2>5
<1>8. ASSUME NEW s \in Session, SessionStep(s) PROVE DrainAlone'
  <2> DEFINE o == OwnerOf[s]
  <2>1. o \in Daemon /\ gate[o] \in Gate(Caller) /\ UNCHANGED stop
    BY <1>0, <1>8, Frames
  <2>2. \A d \in Daemon : proc'[d].up = proc[d].up
    BY <1>8, ProcSteps
  <2>3. \A x \in Session : sess'[x] \in Stage => sess[x] = sess'[x]
    BY <1>0, <1>8 DEF SessionStep, LoopAccept, LoopAborts, SessionEnds, Verb, AdminEnds, Set, Stage
  <2>4. \/ UNCHANGED gate
        \/ Admits(gate[o]) /\ gate' = [gate EXCEPT ![o] = Enter(@)]
        \/ sess[s] = "admin" /\ gate' = [gate EXCEPT ![o] = Leave(@)]
        \/ gate[o].drainer = s /\ sess'[s] = "none" /\ gate' = [gate EXCEPT ![o] = CancelDrain(@)]
    BY <1>0, <1>8 DEF SessionStep, LoopAccept, LoopAborts, SessionEnds, Verb, AdminEnds, Set
  <2>5. CASE UNCHANGED gate
    BY <1>3, <2>1, <2>2, <2>3, <2>5 DEF DrainAlone
  <2>6. CASE Admits(gate[o]) /\ gate' = [gate EXCEPT ![o] = Enter(@)]
    BY <1>2, <2>1, <2>2, <2>3, <2>6, GateSteps DEF Admits
  <2>7. CASE sess[s] = "admin" /\ gate' = [gate EXCEPT ![o] = Leave(@)]
    BY <1>2, <2>1, <2>2, <2>3, <2>7, GateSteps, Inside
  <2>8. CASE gate[o].drainer = s /\ sess'[s] = "none" /\ gate' = [gate EXCEPT ![o] = CancelDrain(@)]
    <3>1. /\ gate'[o].phase = gate[o].phase /\ gate'[o].active = gate[o].active
          /\ \A d \in Daemon \ {o} : gate'[d] = gate[d]
      BY <1>0, <2>1, <2>8, GateSteps
    <3>2. \A c \in Caller : At(c)' \in Stage => At(c)' = At(c) /\ c # s
      BY <2>1, <2>3, <2>8 DEF At, Caller, Stage
    <3>3. \A c \in Caller : At(c)' \in Stage => OwnerOf[c] # o
      BY <3>2, <2>8 DEF DrainAlone
    <3> QED
      BY <1>1, <2>2, <3>1, <3>2, <3>3 DEF DrainAlone, Stage
  <2> QED
    BY <2>4, <2>5, <2>6, <2>7, <2>8
<1>9. ASSUME NEW c \in Caller, DrainStep(c) PROVE DrainAlone'
  <2> DEFINE o == OwnerOf[c]
  <2>1. o \in Daemon /\ gate[o] \in Gate(Caller)
    BY <1>0, <1>1
  <2>2. \A d \in Daemon : proc'[d].up = proc[d].up
    BY <1>9, ProcSteps
  <2>3. ASSUME NEW to, Move(c, to) PROVE At(c)' = to /\ \A x \in Caller \ {c} : At(x)' = At(x)
    BY <1>0, <2>3 DEF Move, At, Set, Caller
  <2>4. ASSUME NEW to, Move(c, to), NEW g, gate' = [gate EXCEPT ![o] = g], g.active = gate[o].active,
               \A x \in Caller \ {c} : OwnerOf[x] = o => At(x) \notin Stage,
               to \in Stage => g.drainer = c /\ g.phase = "draining",
               to \in {"flush", "checkpoint"} => g.active = 0,
               g.phase = "drained" => g.active = 0,
               proc[o].up \notin {"new", "recovered"}
        PROVE  DrainAlone'
    <3>1. At(c)' = to /\ \A x \in Caller \ {c} : At(x)' = At(x)
      BY <2>3, <2>4
    <3>2. gate'[o] = g /\ \A d \in Daemon \ {o} : gate'[d] = gate[d]
      BY <1>0, <2>1, <2>4
    <3> QED
      BY <1>1, <2>1, <2>2, <2>4, <3>1, <3>2 DEF DrainAlone, Stage
  <2> DEFINE g == gate[o]
  <2>5. At(c) \in {"drain"} \cup Stage
    BY <1>9 DEF DrainStep, DrainLock, DrainRegister, DrainCheck, DrainAwait, DrainFlush, DrainCheckpoint, Stage
  <2>6. proc[o].up \notin {"new", "recovered"}
    <3>1. CASE c \in Session
      BY <2>1, <2>5, <3>1 DEF Life, At, Stage
    <3>2. CASE c \in Stopper
      BY <1>0, <2>1, <2>5, <3>2 DEF Life, At, Stage
    <3> QED
      BY <3>1, <3>2 DEF Caller
  <2>7. At(c) \in Stage \/ g.drainer = NoOne => \A x \in Caller \ {c} : OwnerOf[x] = o => At(x) \notin Stage
    BY <1>0 DEF DrainAlone
  <2>8. At(c) \in Stage => g.drainer = c /\ g.phase = "draining"
    BY DEF DrainAlone
  <2>9. At(c) \in {"flush", "checkpoint"} => g.active = 0
    BY DEF DrainAlone
  <2>10. ASSUME NEW ok \in BOOLEAN, DrainAnswer(c, ok)
         PROVE  \E to : Move(c, to) /\ to \notin Stage
    BY <2>10 DEF DrainAnswer, Stage
  <2>11. gate = [gate EXCEPT ![o] = g]
    BY <1>0, <2>1
  <2> HIDE DEF g
  <2>12. CASE DrainLock(c)
    <3>1. CASE Answered(g)
      <4>1. DrainAnswer(c, TRUE) /\ UNCHANGED gate /\ g.drainer = NoOne
        BY <2>12, <3>1 DEF DrainLock, CanLock, g
      <4>2. g.phase = "drained" => g.active = 0
        BY <2>1 DEF DrainAlone, g
      <4> QED
        BY <2>4, <2>6, <2>7, <2>10, <2>11, <4>1, <4>2 DEF g, Stage
    <3>2. CASE ~Answered(g)
      <4>1. Move(c, "register") /\ gate' = [gate EXCEPT ![o] = CloseGate(g, c)] /\ g.drainer = NoOne
        BY <2>12, <3>2 DEF DrainLock, CanLock, g, Set
      <4>2. /\ CloseGate(g, c).active = g.active /\ CloseGate(g, c).phase = "draining"
            /\ CloseGate(g, c).drainer = c
        BY <2>1, GateSteps DEF g
      <4>3. "register" \notin {"flush", "checkpoint"} /\ CloseGate(g, c).phase # "drained"
        BY <4>2
      <4> QED
        BY <2>4, <2>6, <2>7, <4>1, <4>2, <4>3 DEF g
    <3> QED
      BY <3>1, <3>2
  <2>13. CASE DrainRegister(c)
    <3>1. At(c) \in Stage /\ Move(c, "check") /\ gate' = [gate EXCEPT ![o] = Register(g)]
      BY <2>13 DEF DrainRegister, g, Stage
    <3>2. Register(g).active = g.active /\ Register(g).phase = g.phase /\ Register(g).drainer = g.drainer
      BY <2>1, GateSteps DEF g
    <3>3. "check" \notin {"flush", "checkpoint"} /\ Register(g).phase # "drained"
      BY <2>8, <3>1, <3>2
    <3> QED
      BY <2>4, <2>6, <2>7, <2>8, <3>1, <3>2, <3>3 DEF g
  <2>14. CASE DrainCheck(c)
    <3>1. At(c) \in Stage
      BY <2>14 DEF DrainCheck, Stage
    <3>2. CASE g.active = 0
      <4>1. Move(c, "flush") /\ gate' = [gate EXCEPT ![o] = DropWaiter(g)]
        BY <2>14, <3>2 DEF DrainCheck, g, Set
      <4>2. DropWaiter(g).active = g.active /\ DropWaiter(g).phase = g.phase /\ DropWaiter(g).drainer = g.drainer
        BY <2>1, GateSteps DEF g
      <4> QED
        BY <2>4, <2>6, <2>7, <2>8, <3>1, <3>2, <4>1, <4>2 DEF g
    <3>3. CASE g.active # 0
      <4>1. Move(c, "await") /\ UNCHANGED gate
        BY <2>14, <3>3 DEF DrainCheck, g
      <4> QED
        BY <2>4, <2>6, <2>7, <2>8, <2>11, <3>1, <4>1 DEF g
    <3> QED
      BY <3>2, <3>3
  <2>15. CASE DrainAwait(c)
    <3>1. At(c) \in Stage /\ Move(c, "register") /\ gate' = [gate EXCEPT ![o] = Woken(g)]
      BY <2>15 DEF DrainAwait, g, Set, Stage
    <3>2. Woken(g).active = g.active /\ Woken(g).phase = g.phase /\ Woken(g).drainer = g.drainer
      BY <2>1, GateSteps DEF g
    <3>3. "register" \notin {"flush", "checkpoint"} /\ Woken(g).phase # "drained"
      BY <2>8, <3>1, <3>2
    <3> QED
      BY <2>4, <2>6, <2>7, <2>8, <3>1, <3>2, <3>3 DEF g
  <2>16. ASSUME At(c) \in {"flush", "checkpoint"}, NEW ok \in BOOLEAN, DrainAnswer(c, ok), NEW f,
                gate' = [gate EXCEPT ![o] = f], f.active = g.active
         PROVE  DrainAlone'
    BY <2>4, <2>6, <2>7, <2>9, <2>10, <2>16 DEF g, Stage
  <2>17. FinishDrain(g, TRUE).active = g.active /\ FinishDrain(g, FALSE).active = g.active
    BY <2>1, GateSteps DEF g
  <2>18. CASE DrainFlush(c)
    <3>1. At(c) = "flush" /\ At(c) \in Stage
      BY <2>18 DEF DrainFlush, Stage
    <3>2. CASE Move(c, "checkpoint") /\ UNCHANGED gate
      BY <2>4, <2>6, <2>7, <2>8, <2>9, <2>11, <3>1, <3>2 DEF g
    <3>3. CASE DrainAnswer(c, FALSE) /\ gate' = [gate EXCEPT ![o] = FinishDrain(g, FALSE)]
      BY <2>16, <2>17, <3>1, <3>3
    <3> QED
      BY <2>18, <3>2, <3>3 DEF DrainFlush, g, Set
  <2>19. CASE DrainCheckpoint(c)
    <3>1. At(c) = "checkpoint"
      BY <2>19 DEF DrainCheckpoint
    <3>2. \/ DrainAnswer(c, FALSE) /\ gate' = [gate EXCEPT ![o] = FinishDrain(g, FALSE)]
          \/ DrainAnswer(c, TRUE) /\ gate' = [gate EXCEPT ![o] = FinishDrain(g, TRUE)]
      BY <2>19 DEF DrainCheckpoint, g, Set
    <3> QED
      BY <2>16, <2>17, <3>1, <3>2
  <2> QED
    BY <1>9, <2>12, <2>13, <2>14, <2>15, <2>18, <2>19 DEF DrainStep
<1>10. ASSUME NEW u \in Stopper, StopStep(u) PROVE DrainAlone'
  <2>1. UNCHANGED <<gate, sess>> /\ \A d \in Daemon : proc'[d].up = proc[d].up
    BY <1>10, Frames, ProcSteps
  <2>2. \A x \in Stopper : stop'[x] \in Stage => stop[x] = stop'[x]
    BY <1>0, <1>10 DEF StopStep, StopCall, StopMutex, StopSignal, StopJoin, Set, Stage
  <2> QED
    BY <1>3, <2>1, <2>2 DEF DrainAlone
<1>11. CASE PathChanges \/ Done
  BY <1>4, <1>11, Frames DEF vars
<1> QED
  BY <1>5, <1>6, <1>7, <1>8, <1>9, <1>10, <1>11, Steps DEF DaemonStep

(* When the serve loop ends, no session is left. *)
LEMMA NoSessions ==
  ASSUME NEW d \in Daemon, LoopEnds(d)
  PROVE  \A s \in Session : OwnerOf[s] = d => sess[s] = "none"
<1> DEFINE L == {s \in OfD(d, Session) : sess[s] # "none"}
<1>1. IsFiniteSet(L)
  BY DaemonAssumption, FS_Subset DEF OfD
<1>2. Cardinality(L) = 0
  BY DEF LoopEnds, LiveSessions
<1>3. L = {}
  BY <1>1, <1>2, FS_EmptySet
<1> QED
  BY <1>3 DEF OfD

(* Next keeps Life. *)
LEMMA LifeKept ==
  ASSUME Types, Life, Next
  PROVE  Life'
<1>0. /\ OwnerOf \in [Thread \cup Session \cup Stopper -> Daemon]
      /\ sess \in [Session -> {"none", "idle", "admin", "drain"} \cup Stage]
      /\ stop \in [Stopper -> {"no", "mutex", "ok", "err"} \cup HoldsMutex]
      /\ Session \cap Stopper = {} /\ Caller = Session \cup Stopper
  BY DaemonAssumption DEF Types, Caller
<1>1. ASSUME NEW d \in Daemon, proc[d].up \in {"ready", "failed"}, ~ProcessEnds(d) PROVE proc'[d].up = proc[d].up
  BY <1>1, ProcMoves, ProcSteps DEF Start, Loop
<1>2. ASSUME NEW t \in Thread, call'[t].pc \in {"valid", "run"} PROVE proc'[OwnerOf[t]].up = "ready"
  <2>1. proc[OwnerOf[t]].up = "ready" /\ ~ProcessEnds(OwnerOf[t]) /\ OwnerOf[t] \in Daemon
    BY <1>0, <1>2, CallMoves DEF Life
  <2> QED
    BY <1>1, <2>1
<1>3. ASSUME NEW s \in Session, sess'[s] # "none" PROVE Listening(OwnerOf[s])'
  <2> DEFINE o == OwnerOf[s]
  <2>0. o \in Daemon /\ s \in Caller /\ s \notin Stopper
    BY <1>0
  <2>1. ~ProcessEnds(o)
    BY <1>3, <2>0 DEF ProcessEnds
  <2>2. LoopAccept(s) \/ sess[s] # "none"
    <3>1. At(s)' = sess'[s] /\ At(s) = sess[s]
      BY DEF At
    <3>2. SessionStep(s) => LoopAccept(s) \/ sess[s] # "none"
      BY DEF SessionStep, LoopAborts, SessionEnds, Verb, AdminEnds
    <3>3. DrainStep(s) => sess[s] # "none"
      BY <3>1 DEF DrainStep, DrainLock, DrainRegister, DrainCheck, DrainAwait, DrainFlush, DrainCheckpoint
    <3> QED
      BY <1>3, <2>0, <2>1, <3>1, <3>2, <3>3, CallerMoves
  <2>3. CASE LoopAccept(s)
    BY <2>3 DEF LoopAccept, Listening
  <2>4. CASE sess[s] # "none"
    <3>1. Listening(o) /\ proc[o].up \in {"bound", "ready", "failed"}
      BY <2>0, <2>4 DEF Life
    <3>2. ~LoopEnds(o)
      BY <2>0, <2>4, NoSessions
    <3> QED
      BY <2>0, <2>1, <3>1, <3>2, ProcMoves, ProcSteps DEF Start, Loop, Listening
  <2> QED
    BY <2>2, <2>3, <2>4
<1>4. ASSUME NEW u \in Stopper, stop'[u] # "no" PROVE proc'[OwnerOf[u]].up \in {"ready", "failed"}
  <2> DEFINE o == OwnerOf[u]
  <2>0. o \in Daemon /\ u \in Caller /\ u \notin Session
    BY <1>0
  <2>1. ~ProcessEnds(o)
    BY <1>4, <2>0 DEF ProcessEnds
  <2>2. proc[o].up \in {"ready", "failed"}
    <3>1. At(u)' = stop'[u] /\ At(u) = stop[u]
      BY <2>0 DEF At
    <3>2. stop[u] # "no" => proc[o].up \in {"ready", "failed"}
      BY DEF Life
    <3>3. StopStep(u) => stop[u] # "no" \/ proc[o].up \in {"ready", "failed"}
      BY DEF StopStep, StopCall, StopMutex, StopSignal, StopJoin
    <3>4. DrainStep(u) => stop[u] # "no"
      BY <3>1 DEF DrainStep, DrainLock, DrainRegister, DrainCheck, DrainAwait, DrainFlush, DrainCheckpoint
    <3> QED
      BY <1>4, <2>0, <2>1, <3>1, <3>2, <3>3, <3>4, CallerMoves
  <2> QED
    BY <1>1, <2>0, <2>1, <2>2
<1>5. ASSUME NEW d \in Daemon
      PROVE  /\ Listening(d)' \/ proc'[d].loop = "left" => proc'[d].up \in {"bound", "ready", "failed"}
             /\ proc'[d].up = "bound" => proc'[d].state
  <2>1. /\ Listening(d) \/ proc[d].loop = "left" => proc[d].up \in {"bound", "ready", "failed"}
        /\ proc[d].up = "bound" => proc[d].state
    BY DEF Life
  <2>2. CASE Start(d) \/ ProcessEnds(d)
    BY <2>1, <2>2, ProcSteps DEF Start, Listening
  <2>3. CASE Loop(d)
    BY <2>1, <2>3, ProcSteps DEF Loop, Listening
  <2>4. CASE /\ proc'[d].up = proc[d].up /\ proc'[d].loop = proc[d].loop
             /\ \/ proc'[d].state = proc[d].state
                \/ \E u \in Stopper : OwnerOf[u] = d /\ StopJoin(u) /\ proc'[d].state = FALSE
    <3>1. ASSUME NEW u \in Stopper, OwnerOf[u] = d, StopJoin(u) PROVE proc[d].up # "bound"
      BY <3>1 DEF Life, StopJoin
    <3> QED
      BY <2>1, <2>4, <3>1 DEF Listening
  <2> QED
    BY <2>2, <2>3, <2>4, ProcMoves
<1>6. ASSUME NEW d \in Daemon, path' = d
      PROVE  proc'[d].up = "exited" \/ Listening(d)' \/ proc'[d].loop = "left"
  <2>1. d \notin {"nothing", "dead", "file"}
    BY DaemonAssumption
  <2>2. CASE StartBind(d) /\ path' = d
    <3>1. CASE proc'[d].up = "exited"
      BY <3>1
    <3>2. CASE proc'[d].loop = "serving"
      BY <3>2 DEF Listening
    <3> QED
      BY <2>2, <3>1, <3>2, ProcSteps
  <2>3. CASE path = d /\ ~LoopEnds(d)
    <3>1. proc[d].up = "exited" \/ Listening(d) \/ proc[d].loop = "left"
      BY <2>3 DEF Life
    <3>2. Listening(d) \/ proc[d].loop = "left" => proc[d].up \in {"bound", "ready", "failed"}
      BY DEF Life
    <3> QED
      BY <2>3, <3>1, <3>2, ProcMoves, ProcSteps DEF Start, Loop, Listening
  <2>4. CASE LoopEnds(d)
    <3>1. proc' = [proc EXCEPT ![d].loop = "left"]
      BY <1>6, <2>1, <2>4 DEF LoopEnds, DropListener
    <3> QED
      BY <3>1 DEF Types, Proc
  <2>5. ASSUME NEW e \in Daemon, path' = DropListener(e) PROVE path = d
    BY <1>6, <2>1, <2>5 DEF DropListener
  <2>6. path = d \/ StartBind(d)
    BY <1>6, <2>1, <2>5, PathSteps
  <2> QED
    BY <1>6, <2>2, <2>3, <2>4, <2>6
<1> QED
  BY <1>2, <1>3, <1>4, <1>5, <1>6 DEF Life

(* Next keeps Released: StopJoin drops the adapter's state when the loop *)
(* has ended, the gate is drained (so no callback runs) and no other *)
(* stopper is past the mutex. *)
LEMMA ReleasedKept ==
  ASSUME Types, Counted, DrainAlone, Life, Released, Next
  PROVE  Released'
<1>0. /\ OwnerOf \in [Thread \cup Session \cup Stopper -> Daemon] /\ proc \in [Daemon -> Proc]
      /\ sess \in [Session -> {"none", "idle", "admin", "drain"} \cup Stage]
      /\ stop \in [Stopper -> {"no", "mutex", "ok", "err"} \cup HoldsMutex]
      /\ gate \in [Daemon -> Gate(Caller)]
      /\ Session \cap Stopper = {} /\ Caller = Session \cup Stopper
  BY DaemonAssumption DEF Types, Caller
<1>1. \A u \in Stopper : OwnerOf[u] \in Daemon /\ u \in Caller /\ u \notin Session
  BY <1>0
<1>2. ASSUME NEW u \in Stopper, stop'[u] # "no" PROVE ~ProcessEnds(OwnerOf[u])
  BY <1>1, <1>2 DEF ProcessEnds
<1>3. ASSUME NEW u \in Stopper
      PROVE  stop'[u] = stop[u] \/ StopStep(u) \/ DrainStep(u) \/ ProcessEnds(OwnerOf[u])
  BY <1>1, CallerMoves DEF At
<1>4. ASSUME NEW u \in Stopper, DrainStep(u) PROVE stop[u] \in HasEngine /\ stop[u] \in HoldsMutex
  BY <1>1, <1>4
  DEF DrainStep, DrainLock, DrainRegister, DrainCheck, DrainAwait, DrainFlush, DrainCheckpoint, At, HasEngine, HoldsMutex, Stage
<1>5. ASSUME NEW u \in Stopper, NEW x \in Stopper, OwnerOf[x] = OwnerOf[u], stop[x] \in HoldsMutex, stop[u] \in HoldsMutex
      PROVE  x = u
  BY <1>5 DEF Released
<1>6. ASSUME NEW u \in Stopper, stop'[u] \in HoldsMutex PROVE proc'[OwnerOf[u]].mutex = u
  <2> DEFINE o == OwnerOf[u]
  <2>0. stop'[u] \notin {"no", "mutex", "ok", "err"}
    BY <1>6 DEF HoldsMutex, Stage
  <2>1. StopMutex(u) \/ stop[u] \in HoldsMutex
    <3>1. StopStep(u) => StopMutex(u) \/ stop[u] \in HoldsMutex
      BY <1>0, <2>0 DEF StopStep, StopCall, StopSignal, StopJoin, Set, HoldsMutex
    <3> QED
      BY <1>2, <1>3, <1>4, <1>6, <2>0, <3>1
  <2>2. CASE StopMutex(u)
    <3>1. proc' = [proc EXCEPT ![o].mutex = u]
      BY <1>0, <2>0, <2>2 DEF StopMutex, Set
    <3> QED
      BY <1>0, <1>1, <3>1 DEF Proc
  <2>3. CASE stop[u] \in HoldsMutex
    <3>1. proc[o].mutex = u /\ proc[o].up \in {"ready", "failed"} /\ u # NoOne
      BY <2>3, DaemonAssumption DEF Released, Life, HoldsMutex, Stage
    <3>2. ASSUME NEW d \in Daemon, DaemonStep(d) PROVE proc'[o].mutex = proc[o].mutex
      <4>1. CASE d = o
        BY <1>2, <2>0, <3>1, <3>2, <4>1, ProcSteps DEF DaemonStep, Start, Loop
      <4>2. CASE d # o
        <5>1. o \in Daemon \ {d}
          BY <1>1, <4>2
        <5>2. \A e \in Daemon \ {d} : proc'[e] = proc[e]
          BY <3>2, ProcSteps DEF DaemonStep, Start, Loop
        <5> QED
          BY <5>1, <5>2
      <4> QED
        BY <4>1, <4>2
    <3>3. ASSUME NEW s \in Session, SessionStep(s) PROVE proc'[o].mutex = proc[o].mutex
      BY <1>1, <3>3, ProcSteps
    <3>4. ASSUME NEW c \in Caller, DrainStep(c) PROVE proc'[o].mutex = proc[o].mutex
      <4>1. SUFFICES ASSUME proc'[o].mutex # proc[o].mutex PROVE FALSE
        OBVIOUS
      <4>2. o = OwnerOf[c] /\ c \in Stopper /\ stop'[c] = "err"
        BY <1>1, <3>4, <4>1, ProcSteps
      <4>3. c = u
        BY <1>4, <1>5, <2>3, <3>4, <4>2
      <4> QED
        BY <2>0, <4>2, <4>3
    <3>5. ASSUME NEW x \in Stopper, StopStep(x) PROVE proc'[o].mutex = proc[o].mutex
      <4>1. CASE OwnerOf[x] # o
        <5>1. o \in Daemon \ {OwnerOf[x]}
          BY <1>1, <4>1
        <5>2. \A e \in Daemon \ {OwnerOf[x]} : proc'[e].state = proc[e].state /\ proc'[e].mutex = proc[e].mutex
          BY <3>5, ProcSteps
        <5> QED
          BY <5>1, <5>2
      <4>2. CASE OwnerOf[x] = o /\ StopMutex(x)
        BY <3>1, <4>2 DEF StopMutex
      <4>3. CASE OwnerOf[x] = o /\ StopJoin(x)
        <5>1. stop[x] \in HoldsMutex /\ stop'[x] = "ok"
          BY <1>0, <4>3 DEF StopJoin, Set, HoldsMutex
        <5>2. x = u
          BY <1>5, <2>3, <4>3, <5>1
        <5> QED
          BY <2>0, <5>1, <5>2
      <4>4. CASE StopCall(x)
        BY <4>4 DEF StopCall
      <4>5. CASE StopSignal(x)
        BY <1>0, <1>1, <4>5 DEF StopSignal, Proc
      <4> QED
        BY <3>5, <4>1, <4>2, <4>3, <4>4, <4>5 DEF StopStep
    <3>6. ASSUME (\E t \in Thread : ThreadStep(t)) \/ PathChanges \/ Done PROVE proc'[o].mutex = proc[o].mutex
      BY <3>6, Frames DEF vars
    <3> QED
      BY <3>1, <3>2, <3>3, <3>4, <3>5, <3>6, Steps
  <2> QED
    BY <2>1, <2>2, <2>3
<1>7. ASSUME NEW u \in Stopper, stop'[u] \in {"worker", "join"} PROVE gate'[OwnerOf[u]].phase = "drained"
  <2> DEFINE o == OwnerOf[u]
  <2>1. CASE stop[u] \in {"worker", "join"}
    <3>1. gate[o].phase = "drained"
      BY <2>1 DEF Released
    <3>2. ~ProcessEnds(o)
      BY <1>2, <1>7
    <3>3. \A c \in Caller : OwnerOf[c] = o => At(c) \notin Stage
      BY <3>1 DEF DrainAlone
    <3> QED
      BY <1>1, <3>1, <3>2, <3>3, PhaseMoves
  <2>2. CASE stop[u] \notin {"worker", "join"}
    <3>1. DrainStep(u)
      <4>1. StopStep(u) => FALSE
        BY <1>0, <1>7, <2>2 DEF StopStep, StopCall, StopMutex, StopSignal, StopJoin, Set
      <4> QED
        BY <1>2, <1>3, <1>7, <2>2, <4>1
    <3>2. ASSUME NEW to, Move(u, to) PROVE to \in {"worker", "join"}
      BY <1>0, <1>1, <1>7, <3>2 DEF Move, Set
    <3>3. ~DrainAnswer(u, FALSE)
      BY <1>1, <3>2 DEF DrainAnswer
    <3>3a. /\ ~Move(u, "register") /\ ~Move(u, "check") /\ ~Move(u, "await")
          /\ ~Move(u, "flush") /\ ~Move(u, "checkpoint")
      BY <3>2
    <3>4. \/ UNCHANGED gate /\ gate[o].phase = "drained"
          \/ gate' = [gate EXCEPT ![o] = FinishDrain(gate[o], TRUE)]
      <4>1. ~DrainRegister(u) /\ ~DrainCheck(u) /\ ~DrainAwait(u) /\ ~DrainFlush(u)
        BY <3>3, <3>3a DEF DrainRegister, DrainCheck, DrainAwait, DrainFlush
      <4>2. DrainLock(u) => UNCHANGED gate /\ gate[o].phase = "drained"
        BY <3>3a DEF DrainLock, Answered
      <4>3. DrainCheckpoint(u) => gate' = [gate EXCEPT ![o] = FinishDrain(gate[o], TRUE)]
        BY <3>3 DEF DrainCheckpoint, Set
      <4> QED
        BY <3>1, <4>1, <4>2, <4>3 DEF DrainStep
    <3>5. FinishDrain(gate[o], TRUE).phase = "drained"
      BY <1>0, <1>1, GateSteps
    <3> QED
      BY <1>0, <1>1, <3>4, <3>5
  <2> QED
    BY <2>1, <2>2
<1>8. ASSUME NEW d \in Daemon, proc[d].up \in {"ready", "failed"}, ~proc[d].state
      PROVE  ~proc'[d].state
  BY <1>8, ProcMoves, ProcSteps DEF Start, Loop
<1>9. ASSUME NEW u \in Stopper, stop'[u] = "ok" PROVE ~proc'[OwnerOf[u]].state
  <2> DEFINE o == OwnerOf[u]
  <2>1. CASE stop[u] = "ok"
    <3>1. ~proc[o].state /\ proc[o].up \in {"ready", "failed"}
      BY <2>1 DEF Released, Life
    <3> QED
      BY <1>1, <1>8, <3>1
  <2>2. CASE stop[u] # "ok"
    <3>1. DrainStep(u) => FALSE
      <4>1. ASSUME NEW to, Move(u, to) PROVE to = "ok"
        BY <1>0, <1>1, <1>9, <4>1 DEF Move, Set
      <4> QED
        BY <1>1, <4>1
        DEF DrainStep, DrainLock, DrainRegister, DrainCheck, DrainAwait, DrainFlush, DrainCheckpoint, DrainAnswer
    <3>2. StopStep(u)
      BY <1>2, <1>3, <1>9, <2>2, <3>1
    <3>3. CASE StopMutex(u)
      BY <1>0, <1>9, <3>3 DEF StopMutex, Set
    <3>4. CASE StopJoin(u)
      BY <1>0, <1>1, <3>4 DEF StopJoin, Proc
    <3> QED
      BY <1>0, <1>9, <3>2, <3>3, <3>4 DEF StopStep, StopCall, StopSignal, Set
  <2> QED
    BY <2>1, <2>2
<1>10. ASSUME NEW d \in Daemon, proc'[d].up \in {"ready", "failed"}, ~proc'[d].state
       PROVE  /\ ~Listening(d)'
              /\ \A t \in Thread : OwnerOf[t] = d => call'[t].pc # "run"
              /\ \A u \in Stopper : OwnerOf[u] = d => stop'[u] \notin HasEngine
  <2>1. ~ProcessEnds(d) /\ ~StartRecover(d) /\ ~StartBind(d) /\ ~StartPublish(d)
    BY <1>10, ProcSteps DEF Life
  <2>2. ASSUME NEW t \in Thread, OwnerOf[t] = d, call'[t].pc = "run"
        PROVE  call[t].pc = "run"
    BY <1>10, <2>2, CallMoves
  <2>3. ASSUME NEW u \in Stopper, OwnerOf[u] = d, stop'[u] \in HasEngine
        PROVE  stop[u] \in HasEngine
    <3>1. StopStep(u) => FALSE
      <4>1. StopMutex(u) /\ proc[d].state => proc'[d].state
        BY <1>0, <2>3 DEF StopMutex, Proc
      <4> QED
        BY <1>0, <1>10, <2>3, <4>1 DEF StopStep, StopCall, StopMutex, StopSignal, StopJoin, Set, HasEngine, Stage
    <3> QED
      BY <1>3, <1>4, <2>1, <2>3, <3>1
  <2>4. proc[d].up \in {"ready", "failed"} /\ (Listening(d)' => Listening(d))
    BY <1>10, <2>1, ProcMoves, ProcSteps DEF Start, Loop, Listening
  <2>5. CASE ~proc[d].state
    <3>1. /\ ~Listening(d)
          /\ \A t \in Thread : OwnerOf[t] = d => call[t].pc # "run"
          /\ \A u \in Stopper : OwnerOf[u] = d => stop[u] \notin HasEngine
      BY <2>4, <2>5 DEF Released, OfD
    <3> QED
      BY <2>2, <2>3, <2>4, <3>1
  <2>6. CASE proc[d].state
    <3>1. PICK u \in Stopper : OwnerOf[u] = d /\ StopJoin(u)
      BY <1>10, <2>1, <2>6, ProcMoves, ProcSteps DEF Start, Loop
    <3>2. stop[u] = "join" /\ proc[d].loop \in {"ended", "left"} /\ stop'[u] = "ok"
      BY <1>0, <3>1 DEF StopJoin, JoinDone, Set
    <3>3. gate[d].active = 0
      BY <3>1, <3>2 DEF Released, DrainAlone
    <3>4. ~Listening(d)
      BY <3>2 DEF Listening
    <3>5. ASSUME NEW t \in Thread, OwnerOf[t] = d PROVE call[t].pc # "run"
      BY <3>3, <3>5, Inside
    <3>6. ASSUME NEW x \in Stopper, OwnerOf[x] = d, stop[x] \in HasEngine PROVE FALSE
      <4>1. stop[x] \in HoldsMutex /\ stop[u] \in HoldsMutex
        BY <3>2, <3>6 DEF HasEngine, HoldsMutex
      <4>2. x = u
        BY <1>5, <3>1, <3>6, <4>1
      <4> QED
        BY <3>2, <3>6, <4>2 DEF HasEngine, Stage
    <3> QED
      BY <2>2, <2>3, <2>4, <3>4, <3>5, <3>6
  <2> QED
    BY <2>5, <2>6
<1> QED
  BY <1>6, <1>7, <1>9, <1>10 DEF Released, OfD

(* Arithmetic of the splits: division, and products of bounded factors. *)
LEMMA Division ==
  ASSUME NEW a \in Nat, NEW b \in Nat \ {0}
  PROVE  /\ a \div b \in Nat
         /\ b * (a \div b) <= a /\ a < b * (a \div b) + b
  OBVIOUS

(* A product grows with its factor. *)
LEMMA Times ==
  ASSUME NEW i \in Nat, NEW j \in Nat, NEW m \in Nat, i <= j
  PROVE  i * m \in Nat /\ i * m <= j * m
  OBVIOUS

(* One chunk less, one chunk more. *)
LEMMA Distributes ==
  ASSUME NEW i \in Int, NEW m \in Int
  PROVE  (i - 1) * m = i * m - m /\ (i + 1) * m = i * m + m /\ m * i = i * m
  OBVIOUS

(* What is true of a run of chunks. *)
LeadingChunks(s, kind, lo, hi, fua) ==
  /\ s \in Seq(EngineCalls) /\ Leads(s, lo, hi)
  /\ \A i \in 1..Len(s) : s[i].kind = kind
  /\ lo < hi => s # <<>> /\ s[Len(s)].fua = fua
  /\ lo = hi => s = <<>>

(* The chunks of lo..hi lead from lo to hi, and only the last has FUA *)
(* (adapter.rs: the loops of pread, pwrite and zero). *)
LEMMA ChunksLead ==
  ASSUME NEW kind \in Kinds, NEW lo \in Nat, NEW hi \in Nat, NEW fua \in BOOLEAN, lo <= hi
  PROVE  LeadingChunks(Chunks(kind, lo, hi, fua), kind, lo, hi, fua)
<1> DEFINE n == (hi - lo + MaxIo - 1) \div MaxIo
           s == Chunks(kind, lo, hi, fua)
<1>0. MaxIo \in Nat \ {0}
  BY SizesAssumption
<1>1. /\ n \in Nat /\ n * MaxIo <= hi - lo + MaxIo - 1 /\ hi - lo + MaxIo - 1 < n * MaxIo + MaxIo
  <2>1. hi - lo + MaxIo - 1 \in Nat
    BY <1>0
  <2>2. n \in Nat /\ MaxIo * n <= hi - lo + MaxIo - 1 /\ hi - lo + MaxIo - 1 < MaxIo * n + MaxIo
    BY <1>0, <2>1, Division
  <2>3. MaxIo * n = n * MaxIo
    BY <1>0, <2>2, Distributes
  <2> QED
    BY <2>2, <2>3
<1>2. s = [i \in 1..n |-> EngineCall(kind, lo + (i - 1) * MaxIo,
                                     IF i = n THEN hi ELSE lo + i * MaxIo, fua /\ i = n)]
  BY DEF Chunks
<1> HIDE DEF n, s
<1>3. ASSUME NEW i \in 1..n
      PROVE  /\ (i - 1) * MaxIo \in Nat /\ i * MaxIo \in Nat
             /\ (i - 1) * MaxIo = i * MaxIo - MaxIo
             /\ (i - 1) * MaxIo <= hi - lo
             /\ i # n => i * MaxIo <= hi - lo
  <2>1. i \in Nat /\ n \in Nat /\ i - 1 \in Nat /\ i <= n
    BY <1>1
  <2>2. i * MaxIo \in Nat /\ (i - 1) * MaxIo \in Nat /\ i * MaxIo <= n * MaxIo /\ n * MaxIo \in Nat
    BY <1>0, <2>1, Times
  <2>3. (i - 1) * MaxIo = i * MaxIo - MaxIo
    BY <1>0, <2>1, Distributes
  <2>4. i # n => i * MaxIo <= n * MaxIo - MaxIo
    <3>1. CASE i # n
      <4>1. i + 1 \in Nat /\ i + 1 <= n
        BY <2>1, <3>1
      <4>2. (i + 1) * MaxIo <= n * MaxIo
        BY <1>0, <2>1, <4>1, Times
      <4>3. (i + 1) * MaxIo = i * MaxIo + MaxIo
        BY <1>0, <2>1, Distributes
      <4> QED
        BY <1>0, <2>2, <4>2, <4>3
    <3> QED
      BY <3>1
  <2> QED
    BY <1>0, <1>1, <2>2, <2>3, <2>4
<1>4. ASSUME NEW i \in 1..n
      PROVE  /\ s[i] \in EngineCalls /\ s[i].kind = kind /\ s[i].fua = (fua /\ i = n)
             /\ s[i].lo = lo + (i - 1) * MaxIo
             /\ s[i].hi = IF i = n THEN hi ELSE lo + i * MaxIo
  <2> DEFINE a == lo + (i - 1) * MaxIo
             b == IF i = n THEN hi ELSE lo + i * MaxIo
             f == fua /\ i = n
  <2>1. a \in Nat /\ b \in Nat /\ f \in BOOLEAN
    BY <1>3
  <2>2. s[i] = EngineCall(kind, a, b, f)
    BY <1>2
  <2> HIDE DEF a, b, f
  <2>3. EngineCall(kind, a, b, f) \in EngineCalls
    BY <2>1 DEF EngineCall, EngineCalls
  <2>4. s[i].kind = kind /\ s[i].lo = a /\ s[i].hi = b /\ s[i].fua = f
    BY <2>2 DEF EngineCall
  <2> QED
    BY <2>2, <2>3, <2>4 DEF a, b, f
<1>5. s \in Seq(EngineCalls) /\ Len(s) = n
  <2>1. s \in [1..n -> EngineCalls]
    BY <1>2, <1>4
  <2> QED
    BY <1>1, <2>1
<1>6. lo < hi => n > 0
  <2>1. n = 0 => n * MaxIo = 0
    BY <1>0
  <2> QED
    BY <1>0, <1>1, <2>1
<1>7. n = 0 => lo = hi
  <2>1. n = 0 => n * MaxIo = 0
    BY <1>0
  <2> QED
    BY <1>0, <1>1, <2>1
<1>8. n > 0 => s[1].lo = lo /\ s[n].hi = hi
  <2>1. (1 - 1) * MaxIo = 0
    BY <1>0
  <2> QED
    BY <1>1, <1>4, <2>1
<1>9. ASSUME NEW i \in 1..n
      PROVE  /\ s[i].lo \in Nat /\ s[i].hi \in Nat /\ s[i].lo <= s[i].hi
             /\ i < n => s[i].hi = s[i + 1].lo
  <2>1. s[i].lo \in Nat /\ s[i].hi \in Nat /\ s[i].lo <= s[i].hi
    BY <1>0, <1>3, <1>4
  <2>2. CASE i < n
    <3>1. i + 1 \in 1..n /\ i # n
      BY <1>1, <2>2
    <3>2. s[i + 1].lo = lo + ((i + 1) - 1) * MaxIo /\ s[i].hi = lo + i * MaxIo
      BY <1>4, <3>1
    <3>3. (i + 1) - 1 = i
      OBVIOUS
    <3> QED
      BY <2>1, <3>2, <3>3
  <2> QED
    BY <2>1, <2>2
<1>10. Leads(s, lo, hi)
  <2>1. s = <<>> => n = 0
    BY <1>5
  <2>2. s # <<>> => n > 0
    BY <1>1, <1>5
  <2> QED
    BY <1>5, <1>7, <1>8, <1>9, <2>1, <2>2 DEF Leads
<1>11. lo < hi => s # <<>> /\ s[Len(s)].fua = fua
  <2>1. ASSUME lo < hi PROVE s # <<>> /\ s[n].fua = fua
    <3>1. n \in 1..n /\ n > 0
      BY <1>1, <1>6, <2>1
    <3>2. s[n].fua = (fua /\ n = n)
      BY <1>4, <3>1
    <3>3. s # <<>>
      BY <1>5, <3>1
    <3> QED
      BY <3>2, <3>3
  <2> QED
    BY <1>5, <2>1
<1>12. lo = hi => s = <<>>
  <2>1. ASSUME lo = hi, n # 0 PROVE FALSE
    <3>1. 1 * MaxIo <= n * MaxIo /\ n * MaxIo \in Nat
      BY <1>0, <1>1, <2>1, Times
    <3> QED
      BY <1>0, <1>1, <2>1, <3>1
  <2> QED
    BY <1>5, <2>1
<1> QED
  BY <1>4, <1>5, <1>10, <1>11, <1>12 DEF s, LeadingChunks

(* Calls that lead on from where others end. *)
LEMMA Joined ==
  ASSUME NEW s \in Seq(EngineCalls), NEW t \in Seq(EngineCalls),
         NEW lo \in Nat, NEW at \in Nat, NEW hi \in Nat, Leads(s, lo, at), Leads(t, at, hi)
  PROVE  s \o t \in Seq(EngineCalls) /\ Leads(s \o t, lo, hi)
<1> DEFINE u == s \o t
<1>1. /\ u \in Seq(EngineCalls) /\ Len(u) = Len(s) + Len(t)
      /\ \A i \in 1..Len(s) : u[i] = s[i]
      /\ \A i \in 1..Len(t) : u[i + Len(s)] = t[i]
  <2>1. \A i \in 1..Len(t) : i + Len(s) \in 1..Len(s) + Len(t) /\ i + Len(s) > Len(s) /\ (i + Len(s)) - Len(s) = i
    OBVIOUS
  <2> QED
    BY <2>1
<1>2. Len(s) \in Nat /\ Len(t) \in Nat /\ (s = <<>> <=> Len(s) = 0) /\ (t = <<>> <=> Len(t) = 0)
  OBVIOUS
<1>3. /\ Len(s) = 0 => lo = at
      /\ Len(s) # 0 => s[1].lo = lo /\ s[Len(s)].hi = at
      /\ Len(t) = 0 => at = hi
      /\ Len(t) # 0 => t[1].lo = at /\ t[Len(t)].hi = hi
      /\ \A i \in 1..Len(s) : /\ s[i].lo \in Nat /\ s[i].hi \in Nat /\ s[i].lo <= s[i].hi
                              /\ i < Len(s) => s[i].hi = s[i + 1].lo
      /\ \A i \in 1..Len(t) : /\ t[i].lo \in Nat /\ t[i].hi \in Nat /\ t[i].lo <= t[i].hi
                              /\ i < Len(t) => t[i].hi = t[i + 1].lo
  BY <1>2 DEF Leads
<1> HIDE DEF u
<1>4. Len(u) = 0 => lo = hi
  BY <1>1, <1>2, <1>3
<1>5. Len(u) # 0 => u[1].lo = lo /\ u[Len(u)].hi = hi
  <2>1. CASE Len(s) = 0
    <3>1. Len(t) # 0 => u[1] = t[1] /\ u[Len(u)] = t[Len(t)]
      BY <1>1, <1>2, <2>1
    <3> QED
      BY <1>1, <1>2, <1>3, <2>1, <3>1
  <2>2. CASE Len(s) # 0
    <3>1. u[1] = s[1]
      BY <1>1, <1>2, <2>2
    <3>2. CASE Len(t) = 0
      BY <1>1, <1>2, <1>3, <2>2, <3>1, <3>2
    <3>3. CASE Len(t) # 0
      <4>1. Len(t) \in 1..Len(t) /\ Len(u) = Len(t) + Len(s)
        BY <1>1, <1>2, <3>3
      <4>2. u[Len(u)] = t[Len(t)]
        BY <1>1, <4>1
      <4> QED
        BY <1>3, <2>2, <3>1, <3>3, <4>2
    <3> QED
      BY <3>2, <3>3
  <2> QED
    BY <2>1, <2>2
<1>6. ASSUME NEW i \in 1..Len(u)
      PROVE  /\ u[i].lo \in Nat /\ u[i].hi \in Nat /\ u[i].lo <= u[i].hi
             /\ i < Len(u) => u[i].hi = u[i + 1].lo
  <2>1. CASE i <= Len(s)
    <3>1. i \in 1..Len(s) /\ u[i] = s[i]
      BY <1>1, <1>2, <2>1
    <3>2. CASE i < Len(s)
      <4>1. i + 1 \in 1..Len(s)
        BY <1>2, <3>1, <3>2
      <4>2. u[i + 1] = s[i + 1]
        BY <1>1, <4>1
      <4> QED
        BY <1>3, <3>1, <3>2, <4>2
    <3>3. CASE i = Len(s)
      <4>1. s[i].hi = at
        BY <1>3, <3>1, <3>3
      <4>2. CASE i < Len(u)
        <5>1. 1 \in 1..Len(t) /\ i + 1 = 1 + Len(s)
          BY <1>1, <1>2, <3>3, <4>2
        <5>2. u[i + 1] = t[1]
          BY <1>1, <5>1
        <5>3. t[1].lo = at
          BY <1>3, <5>1
        <5> QED
          BY <1>3, <3>1, <4>1, <5>2, <5>3
      <4> QED
        BY <1>3, <3>1, <4>2
    <3> QED
      BY <1>2, <2>1, <3>1, <3>2, <3>3
  <2>2. CASE i > Len(s)
    <3> DEFINE j == i - Len(s)
    <3>1. j \in 1..Len(t) /\ i = j + Len(s) /\ i + 1 = (j + 1) + Len(s)
      BY <1>1, <1>2, <2>2
    <3>2. u[i] = t[j]
      BY <1>1, <3>1
    <3>3. CASE i < Len(u)
      <4>1. j + 1 \in 1..Len(t) /\ j < Len(t)
        BY <1>1, <1>2, <3>1, <3>3
      <4> HIDE DEF j
      <4>2. u[i + 1] = t[j + 1]
        BY <1>1, <3>1, <4>1
      <4> QED
        BY <1>3, <3>1, <3>2, <4>1, <4>2
    <3> HIDE DEF j
    <3> QED
      BY <1>3, <3>1, <3>2, <3>3
  <2> QED
    BY <1>2, <2>1, <2>2
<1>7. u = <<>> <=> Len(u) = 0
  BY <1>1
<1>8. Leads(u, lo, hi)
  BY <1>4, <1>5, <1>6, <1>7 DEF Leads
<1> QED
  BY <1>1, <1>8 DEF u

(* The whole units inside an extent lie inside it. *)
LEMMA UnitsInside ==
  ASSUME NEW off \in Nat, NEW end \in Nat
  PROVE  /\ ((off + Unit - 1) \div Unit) * Unit \in Nat
         /\ off <= ((off + Unit - 1) \div Unit) * Unit
         /\ (end \div Unit) * Unit \in Nat
         /\ (end \div Unit) * Unit <= end
<1>0. Unit \in Nat \ {0}
  BY SizesAssumption
<1> DEFINE p == (off + Unit - 1) \div Unit
           q == end \div Unit
<1>1. off + Unit - 1 \in Nat
  BY <1>0
<1>2. p \in Nat /\ Unit * p <= off + Unit - 1 /\ off + Unit - 1 < Unit * p + Unit
  BY <1>0, <1>1, Division
<1>3. q \in Nat /\ Unit * q <= end
  BY <1>0, Division
<1> HIDE DEF p, q
<1>4. p * Unit = Unit * p /\ q * Unit = Unit * q /\ p * Unit \in Nat /\ q * Unit \in Nat
  BY <1>0, <1>2, <1>3, Distributes, Times
<1> QED
  BY <1>0, <1>2, <1>3, <1>4 DEF p, q

(* zero(): the head, the trim and the tail lead through the extent, and *)
(* the last of them syncs when the callback has FUA. *)
LEMMA ZeroLeads ==
  ASSUME NEW r \in Request, r.len # 0
  PROVE  /\ ZeroCalls(r) \in Seq(EngineCalls) /\ ZeroCalls(r) # <<>>
         /\ Leads(ZeroCalls(r), r.off, r.off + r.len)
         /\ r.fua => SyncAhead(ZeroCalls(r))
<1>0. r.off \in Nat /\ r.len \in Nat /\ r.fua \in BOOLEAN /\ r.may \in BOOLEAN
  BY DEF Request
<1> DEFINE end  == r.off + r.len
           trims == r.may /\ CanTrim
           from == IF trims THEN ((r.off + Unit - 1) \div Unit) * Unit ELSE end
           to   == IF trims THEN (end \div Unit) * Unit ELSE end
           tail == r.fua /\ to < end
           head == Chunks("write", r.off, from, FALSE)
           mid  == << EngineCall("trim", from, to, r.fua /\ ~tail) >>
           last == Chunks("write", to, end, tail)
<1>1. end \in Nat /\ r.off < end
  BY <1>0
<1>2. from \in Nat /\ to \in Nat /\ r.off <= from /\ to <= end
  BY <1>0, <1>1, UnitsInside
<1>3. ZeroCalls(r) = IF from >= to THEN Chunks("write", r.off, end, r.fua) ELSE head \o mid \o last
  BY DEF ZeroCalls
<1> HIDE DEF from, to, end
<1>4. CASE from >= to
  <2> DEFINE s == Chunks("write", r.off, end, r.fua)
  <2>1. /\ s \in Seq(EngineCalls) /\ Leads(s, r.off, end) /\ s # <<>> /\ s[Len(s)].fua = r.fua
        /\ \A i \in 1..Len(s) : s[i].kind = "write"
    <3>1. LeadingChunks(s, "write", r.off, end, r.fua)
      BY <1>0, <1>1, ChunksLead DEF Kinds
    <3> QED
      BY <1>0, <1>1, <3>1 DEF LeadingChunks
  <2>2. ZeroCalls(r) = s
    BY <1>3, <1>4
  <2> HIDE DEF s
  <2>3. Len(s) \in 1..Len(s)
    BY <2>1
  <2>4. r.fua => SyncAhead(s)
    BY <2>1, <2>3 DEF SyncAhead, Writes
  <2> QED
    BY <2>1, <2>2, <2>4 DEF end
<1>5. CASE from < to
  <2>0. tail \in BOOLEAN
    BY <1>0
  <2> DEFINE f == r.fua /\ ~tail
  <2>1. head \in Seq(EngineCalls) /\ Leads(head, r.off, from)
    <3>1. LeadingChunks(head, "write", r.off, from, FALSE)
      BY <1>0, <1>2, ChunksLead DEF Kinds
    <3> QED
      BY <3>1 DEF LeadingChunks
  <2>2. /\ last \in Seq(EngineCalls) /\ Leads(last, to, end)
        /\ \A i \in 1..Len(last) : last[i].kind = "write"
        /\ to < end => last # <<>> /\ last[Len(last)].fua = tail
        /\ to = end => last = <<>>
    <3>1. LeadingChunks(last, "write", to, end, tail)
      BY <1>1, <1>2, <2>0, ChunksLead DEF Kinds
    <3> QED
      BY <3>1 DEF LeadingChunks
  <2>3. /\ EngineCall("trim", from, to, f) \in EngineCalls
        /\ EngineCall("trim", from, to, f).kind = "trim" /\ EngineCall("trim", from, to, f).fua = f
        /\ EngineCall("trim", from, to, f).lo = from /\ EngineCall("trim", from, to, f).hi = to
    <3>1. f \in BOOLEAN
      OBVIOUS
    <3> HIDE DEF f
    <3>2. EngineCall("trim", from, to, f) \in EngineCalls
      BY <1>2, <3>1 DEF EngineCall, EngineCalls, Kinds
    <3>3. /\ EngineCall("trim", from, to, f).kind = "trim" /\ EngineCall("trim", from, to, f).fua = f
          /\ EngineCall("trim", from, to, f).lo = from /\ EngineCall("trim", from, to, f).hi = to
      BY DEF EngineCall
    <3> QED
      BY <3>2, <3>3
  <2>4. /\ mid \in Seq(EngineCalls) /\ Len(mid) = 1 /\ mid # <<>> /\ mid[1] = EngineCall("trim", from, to, f)
    BY <2>3
  <2>5. Leads(mid, from, to)
    <3> HIDE DEF mid
    <3> QED
      BY <1>2, <1>5, <2>3, <2>4 DEF Leads
  <2> HIDE DEF head, mid, last
  <2>6. head \o mid \in Seq(EngineCalls) /\ Leads(head \o mid, r.off, to)
    BY <1>0, <1>2, <2>1, <2>4, <2>5, Joined
  <2>7. (head \o mid) \o last \in Seq(EngineCalls) /\ Leads((head \o mid) \o last, r.off, end)
    BY <1>0, <1>1, <1>2, <2>2, <2>6, Joined
  <2> DEFINE s == (head \o mid) \o last
  <2>8. ZeroCalls(r) = s
    BY <1>2, <1>3, <1>5
  <2>9. Len(head) \in Nat /\ Len(last) \in Nat /\ Len(head \o mid) = Len(head) + 1 /\ Len(s) = Len(head) + 1 + Len(last)
    <3> DEFINE hm == head \o mid
    <3>1. hm \in Seq(EngineCalls)
      BY <2>6
    <3>3. Len(hm) = Len(head) + 1
      <4>1. \A x, y \in Seq(EngineCalls) : Len(x \o y) = Len(x) + Len(y)
        OBVIOUS
      <4>2. Len(head \o mid) = Len(head) + Len(mid)
        BY <2>1, <2>4, <4>1
      <4> QED
        BY <2>4, <4>2
    <3> HIDE DEF hm
    <3>2. Len(hm \o last) = Len(hm) + Len(last)
      BY <2>2, <3>1
    <3> QED
      BY <2>1, <2>2, <3>1, <3>2, <3>3 DEF hm
  <2>10. CASE to < end
    <3>1. Len(last) \in 1..Len(last) /\ Len(last) # 0
      BY <2>2, <2>10
    <3>2. s[Len(s)] = last[Len(last)]
      BY <2>2, <2>6, <2>9, <3>1
    <3>3. r.fua => last[Len(last)].fua /\ last[Len(last)].kind = "write"
      BY <2>2, <2>10, <3>1
    <3>4. r.fua => SyncAhead(s)
      BY <3>2, <3>3 DEF SyncAhead, Writes
    <3>5. s # <<>>
      BY <2>7, <2>9, <3>1
    <3> QED
      BY <2>7, <2>8, <3>4, <3>5 DEF end
  <2>11. CASE to >= end
    <3>1. to = end /\ f = r.fua
      BY <1>0, <1>1, <1>2, <2>11
    <3>2. Len(last) = 0
      BY <2>2, <3>1
    <3>3. Len(s) = Len(head \o mid) /\ Len(s) \in 1..Len(head \o mid) /\ Len(s) = Len(head) + 1
      BY <2>9, <3>2
    <3>4. s[Len(s)] = (head \o mid)[Len(s)]
      <4> DEFINE hm == head \o mid
      <4>1. hm \in Seq(EngineCalls) /\ Len(s) \in 1..Len(hm)
        BY <2>6, <3>3
      <4> HIDE DEF hm
      <4>2. \A i \in 1..Len(hm) : (hm \o last)[i] = hm[i]
        BY <2>2, <4>1
      <4> QED
        BY <4>1, <4>2 DEF hm
    <3>5. (head \o mid)[Len(head) + 1] = mid[1]
      BY <2>1, <2>4, <2>9
    <3>6. r.fua => SyncAhead(s)
      BY <2>3, <2>4, <3>1, <3>3, <3>4, <3>5 DEF SyncAhead, Writes
    <3>7. s # <<>>
      BY <2>7, <3>3
    <3> QED
      BY <2>7, <2>8, <3>6, <3>7 DEF end
  <2> QED
    BY <1>1, <1>2, <2>10, <2>11
<1> QED
  BY <1>2, <1>4, <1>5

(* The engine calls of a callback that passed validate_extent lead through *)
(* its extent; with FUA the last one syncs, unless none writes; a callback *)
(* without an extent is one call that writes no block. *)
LEMMA CallsLead ==
  ASSUME NEW r \in Request, ValidExtent(r)
  PROVE  /\ CallsOf(r) \in Seq(EngineCalls) /\ CallsOf(r) # <<>>
         /\ HasExtent(r) => Leads(CallsOf(r), r.off, r.off + r.len) /\ r.off + r.len <= Size
         /\ ~HasExtent(r) => Len(CallsOf(r)) = 1 /\ WritesNot(CallsOf(r))
                               /\ CallsOf(r)[1].lo = 0 /\ CallsOf(r)[1].hi = 0
         /\ r.fua => SyncAhead(CallsOf(r)) \/ WritesNot(CallsOf(r))
<1>0. /\ r.off \in Nat /\ r.len \in Nat /\ r.fua \in BOOLEAN /\ r.off + r.len \in Nat
      /\ r.op \in {"pread", "pwrite", "flush", "trim", "zero", "checkpoint"}
  BY DEF Request
<1>1. HasExtent(r) => r.len # 0 /\ r.off + r.len <= Size /\ r.off < r.off + r.len
  BY <1>0 DEF ValidExtent
<1> DEFINE end == r.off + r.len
<1>2. CASE r.op = "pread"
  <2> DEFINE s == Chunks("read", r.off, end, FALSE)
  <2>1. CallsOf(r) = s /\ HasExtent(r)
    BY <1>2 DEF CallsOf, HasExtent
  <2>a. end \in Nat /\ r.off <= end /\ "read" \in Kinds /\ FALSE \in BOOLEAN
    BY <1>0, <1>1, <2>1 DEF Kinds
  <2> HIDE DEF end
  <2>2. LeadingChunks(s, "read", r.off, end, FALSE)
    BY <1>0, <2>a, ChunksLead
  <2> HIDE DEF s
  <2>3. s \in Seq(EngineCalls) /\ s # <<>> /\ Leads(s, r.off, end) /\ WritesNot(s)
    BY <1>1, <2>1, <2>2 DEF LeadingChunks, WritesNot, Writes, end
  <2> QED
    BY <1>1, <2>1, <2>3 DEF end
<1>3. CASE r.op = "pwrite"
  <2> DEFINE s == Chunks("write", r.off, end, r.fua)
  <2>1. CallsOf(r) = s /\ HasExtent(r)
    BY <1>3 DEF CallsOf, HasExtent
  <2>2. LeadingChunks(s, "write", r.off, end, r.fua)
    BY <1>0, <1>1, <2>1, ChunksLead DEF Kinds
  <2> HIDE DEF s, end
  <2>3. s \in Seq(EngineCalls) /\ s # <<>> /\ Leads(s, r.off, end) /\ s[Len(s)].fua = r.fua
    BY <1>1, <2>1, <2>2 DEF LeadingChunks, end
  <2>4. Len(s) \in 1..Len(s)
    BY <2>3
  <2>5. s[Len(s)].kind = "write"
    BY <2>2, <2>4 DEF LeadingChunks
  <2>6. r.fua => SyncAhead(s)
    BY <2>3, <2>5 DEF SyncAhead, Writes
  <2> QED
    BY <1>1, <2>1, <2>3, <2>6 DEF end
<1>4. CASE r.op = "zero"
  <2>1. CallsOf(r) = ZeroCalls(r) /\ HasExtent(r)
    BY <1>4 DEF CallsOf, HasExtent
  <2> QED
    BY <1>1, <2>1, ZeroLeads
<1>5. CASE r.op = "trim"
  <2> DEFINE c == EngineCall("trim", r.off, end, r.fua)
  <2>1. CallsOf(r) = <<c>> /\ HasExtent(r)
    BY <1>5 DEF CallsOf, HasExtent
  <2>2. c \in EngineCalls /\ c.kind = "trim" /\ c.lo = r.off /\ c.hi = end /\ c.fua = r.fua
    BY <1>0 DEF EngineCall, EngineCalls, Kinds
  <2> HIDE DEF c
  <2>3. <<c>> \in Seq(EngineCalls) /\ <<c>> # <<>> /\ Len(<<c>>) = 1 /\ <<c>>[1] = c
    BY <2>2
  <2>4. Leads(<<c>>, r.off, end)
    BY <1>0, <1>1, <2>1, <2>2, <2>3 DEF Leads
  <2>5. r.fua => SyncAhead(<<c>>)
    BY <2>2, <2>3 DEF SyncAhead, Writes
  <2> QED
    BY <1>1, <2>1, <2>3, <2>4, <2>5
<1>6. CASE r.op \in {"flush", "checkpoint"}
  <2> DEFINE c == EngineCall(r.op, 0, 0, FALSE)
  <2>1. CallsOf(r) = <<c>> /\ ~HasExtent(r)
    BY <1>6 DEF CallsOf, HasExtent
  <2>2. c \in EngineCalls /\ c.kind = r.op /\ c.lo = 0 /\ c.hi = 0
    BY <1>6 DEF EngineCall, EngineCalls, Kinds
  <2> HIDE DEF c
  <2>3. <<c>> \in Seq(EngineCalls) /\ <<c>> # <<>> /\ Len(<<c>>) = 1 /\ <<c>>[1] = c
    BY <2>2
  <2>4. WritesNot(<<c>>)
    BY <1>6, <2>2, <2>3 DEF WritesNot, Writes
  <2> QED
    BY <2>1, <2>2, <2>3, <2>4
<1> QED
  BY <1>0, <1>2, <1>3, <1>4, <1>5, <1>6

(* After the first of the calls the rest leads on from where it ended. *)
LEMMA LeadsOn ==
  ASSUME NEW s \in Seq(EngineCalls), s # <<>>, NEW lo \in Nat, NEW hi \in Nat, Leads(s, lo, hi)
  PROVE  /\ Head(s).lo = lo /\ Head(s).hi \in Nat /\ lo <= Head(s).hi
         /\ Tail(s) \in Seq(EngineCalls) /\ Leads(Tail(s), Head(s).hi, hi)
<1> DEFINE t == Tail(s)
<1>1. /\ Head(s) = s[1] /\ t \in Seq(EngineCalls) /\ Len(t) = Len(s) - 1 /\ Len(s) \in Nat \ {0}
      /\ \A i \in 1..Len(t) : t[i] = s[i + 1]
  OBVIOUS
<1> HIDE DEF t
<1>2. 1 \in 1..Len(s)
  BY <1>1
<1>3. /\ s[1].lo = lo /\ s[Len(s)].hi = hi
      /\ \A i \in 1..Len(s) : /\ s[i].lo \in Nat /\ s[i].hi \in Nat /\ s[i].lo <= s[i].hi
                              /\ i < Len(s) => s[i].hi = s[i + 1].lo
  BY DEF Leads
<1>4. t = <<>> => Head(s).hi = hi
  <2>1. t = <<>> => Len(s) = 1
    BY <1>1
  <2> QED
    BY <1>1, <1>3, <2>1
<1>5. t # <<>> => t[1].lo = Head(s).hi /\ t[Len(t)].hi = hi
  <2>1. CASE t # <<>>
    <3>1. 1 \in 1..Len(t) /\ Len(t) \in 1..Len(t) /\ 1 < Len(s) /\ Len(t) + 1 = Len(s)
      BY <1>1, <2>1
    <3>2. t[1] = s[1 + 1] /\ t[Len(t)] = s[Len(t) + 1]
      BY <1>1, <3>1
    <3> QED
      BY <1>1, <1>2, <1>3, <3>1, <3>2
  <2> QED
    BY <2>1
<1>6. ASSUME NEW i \in 1..Len(t)
      PROVE  /\ t[i].lo \in Nat /\ t[i].hi \in Nat /\ t[i].lo <= t[i].hi
             /\ i < Len(t) => t[i].hi = t[i + 1].lo
  <2>1. i + 1 \in 1..Len(s) /\ t[i] = s[i + 1]
    BY <1>1
  <2>2. i < Len(t) => t[i + 1] = s[(i + 1) + 1] /\ i + 1 < Len(s)
    BY <1>1
  <2> QED
    BY <1>3, <2>1, <2>2
<1>7. Leads(t, Head(s).hi, hi)
  BY <1>4, <1>5, <1>6 DEF Leads
<1> QED
  BY <1>1, <1>2, <1>3, <1>7 DEF t

(* What the rest of the calls still has ahead. *)
LEMMA SyncsOn ==
  ASSUME NEW s \in Seq(EngineCalls), s # <<>>
  PROVE  /\ WritesNot(s) => ~Writes(Head(s)) /\ WritesNot(Tail(s))
         /\ SyncAhead(s) /\ Tail(s) # <<>> => SyncAhead(Tail(s))
         /\ SyncAhead(s) /\ Tail(s) = <<>> => Head(s).fua /\ Writes(Head(s))
<1> DEFINE t == Tail(s)
<1>1. /\ Head(s) = s[1] /\ t \in Seq(EngineCalls) /\ Len(t) = Len(s) - 1 /\ Len(s) \in Nat \ {0}
      /\ \A i \in 1..Len(t) : t[i] = s[i + 1]
  OBVIOUS
<1> HIDE DEF t
<1>2. 1 \in 1..Len(s) /\ \A i \in 1..Len(t) : i + 1 \in 1..Len(s)
  BY <1>1
<1>3. WritesNot(s) => ~Writes(Head(s)) /\ WritesNot(t)
  BY <1>1, <1>2 DEF WritesNot
<1>4. t # <<>> => t[Len(t)] = s[Len(s)]
  <2>1. t # <<>> => Len(t) \in 1..Len(t) /\ Len(t) + 1 = Len(s)
    BY <1>1
  <2> QED
    BY <1>1, <2>1
<1>5. t = <<>> => Len(s) = 1
  BY <1>1
<1> QED
  BY <1>1, <1>3, <1>4, <1>5 DEF SyncAhead, t

(* A callback keeps what it has earned when records are synced. *)
LEMMA SyncedEarns ==
  ASSUME NEW t, NEW c, NEW S, NEW T, Earns(t, c, S), t \in T => t \in S
  PROVE  Earns(t, c, T)
  BY DEF Earns

(* A thread without a callback. *)
LEMMA IdleEarns ==
  ASSUME NEW t, NEW S, t \notin S
  PROVE  Earns(t, Idle, S)
<1>1. Idle.pc = "idle" /\ Idle.reply = NoOne /\ Idle.done = {}
  BY DEF Idle
<1>2. NoOne # "ok"
  BY DaemonAssumption
<1> QED
  BY <1>1, <1>2 DEF Earns

(* A callback at the gate: inside, or answered ESHUTDOWN. *)
LEMMA EntryEarns ==
  ASSUME NEW t, NEW S, t \notin S, NEW r \in Request, NEW pc \in {"valid", "replied"},
         NEW reply, reply # "ok",
         NEW c, c = [Idle EXCEPT !.pc = pc, !.req = r, !.reply = reply]
  PROVE  Earns(t, c, S)
<1>1. c.pc = pc /\ c.req = r /\ c.reply = reply /\ c.done = {}
  BY DEF Idle
<1> QED
  BY <1>1 DEF Earns

(* A callback answered with an error has earned nothing. *)
LEMMA ErrorEarns ==
  ASSUME NEW t, NEW c, NEW S, NEW T, IsCall(c), Earns(t, c, S), c.pc # "idle", NEW reply, reply # "ok",
         NEW n, n = [c EXCEPT !.pc = "replied", !.reply = reply]
  PROVE  Earns(t, n, T)
<1>1. n.pc = "replied" /\ n.reply = reply /\ n.req = c.req
  BY DEF IsCall
<1> QED
  BY <1>1 DEF Earns

(* A callback whose extent is valid starts to run. *)
LEMMA ValidEarns ==
  ASSUME NEW t, NEW c, NEW S, IsCall(c), Earns(t, c, S), c.pc = "valid", ValidExtent(c.req),
         NEW n, n = [c EXCEPT !.pc = "run", !.calls = CallsOf(c.req)]
  PROVE  Earns(t, n, S)
<1>1. n.pc = "run" /\ n.reply = c.reply /\ n.req = c.req /\ n.calls = CallsOf(c.req) /\ n.done = c.done
  BY DEF IsCall
<1>2. c.reply # "ok" /\ c.req \in Request /\ c.done = {} /\ t \notin S
  BY DEF Earns
<1> DEFINE r == c.req
           s == CallsOf(r)
<1>3. /\ s \in Seq(EngineCalls) /\ s # <<>>
      /\ HasExtent(r) => Leads(s, r.off, r.off + r.len) /\ r.off + r.len <= Size
      /\ ~HasExtent(r) => Len(s) = 1 /\ WritesNot(s) /\ s[1].lo = 0 /\ s[1].hi = 0
      /\ r.fua => SyncAhead(s) \/ WritesNot(s)
  BY <1>2, CallsLead
<1>4. r.off \in Nat
  BY <1>2 DEF Request
<1> HIDE DEF r, s
<1>5. Head(s) = s[1]
  BY <1>3
<1>6. Blocks(r.off, r.off) = {}
  BY <1>4 DEF Blocks
<1>7. n.req = r /\ n.calls = s /\ n.done = {}
  BY <1>1, <1>2 DEF r, s
<1>8. Underway(n)
  <2>1. HasExtent(r) => \E at \in Nat : /\ r.off <= at /\ n.done = Blocks(r.off, at)
                                        /\ Leads(s, at, r.off + r.len)
    <3>1. r.off <= r.off /\ n.done = Blocks(r.off, r.off)
      BY <1>4, <1>6, <1>7
    <3> QED
      BY <1>3, <1>4, <3>1
  <2> QED
    BY <1>3, <1>5, <1>7, <2>1 DEF Underway
<1> QED
  BY <1>1, <1>2, <1>3, <1>7, <1>8 DEF Earns

(* One more engine call of the callback succeeds: with FUA it leaves no *)
(* record of the thread behind, and without writing it adds none. *)
LEMMA RunEarns ==
  ASSUME NEW t, NEW c, NEW S, NEW T, IsCall(c), Earns(t, c, S), c.pc = "run",
         Writes(Head(c.calls)) /\ Head(c.calls).fua => t \notin T,
         ~Writes(Head(c.calls)) => (t \in T => t \in S),
         NEW n, n = [c EXCEPT !.calls = Tail(@),
                              !.done = @ \cup Blocks(Head(c.calls).lo, Head(c.calls).hi)]
  PROVE  /\ n.calls # <<>> => Earns(t, n, T)
         /\ n.calls = <<>> => Earns(t, [n EXCEPT !.pc = "replied", !.reply = "ok"], T)
<1> DEFINE h == Head(c.calls)
           b == Blocks(h.lo, h.hi)
           r == c.req
           s == Tail(c.calls)
           e == [n EXCEPT !.pc = "replied", !.reply = "ok"]
<1>1. n.pc = "run" /\ n.reply = c.reply /\ n.req = r /\ n.calls = s /\ n.done = c.done \cup b
  BY DEF IsCall
<1>2. e.pc = "replied" /\ e.reply = "ok" /\ e.req = r /\ e.done = n.done
  BY DEF IsCall
<1>3. c.reply # "ok" /\ r \in Request /\ Underway(c) /\ (r.fua => SyncAhead(c.calls) \/ (WritesNot(c.calls) /\ t \notin S))
  BY DEF Earns
<1>4. r.off \in Nat /\ r.len \in Nat
  BY <1>3 DEF Request
<1>5. /\ c.calls \in Seq(EngineCalls) /\ c.calls # <<>> /\ s \in Seq(EngineCalls)
      /\ s = <<>> \/ Len(c.calls) # 1
  <2>1. c.calls \in Seq(EngineCalls) /\ c.calls # <<>>
    BY <1>3 DEF Underway
  <2>2. \A q \in Seq(EngineCalls) : q # <<>> => Tail(q) \in Seq(EngineCalls) /\ Len(Tail(q)) = Len(q) - 1
    OBVIOUS
  <2>3. s \in Seq(EngineCalls) /\ Len(s) = Len(c.calls) - 1
    BY <2>1, <2>2
  <2> HIDE DEF s
  <2>4. Len(c.calls) = 1 => s = <<>>
    BY <2>3
  <2> QED
    BY <2>1, <2>3, <2>4
<1> HIDE DEF s, e
<1>6. /\ WritesNot(c.calls) => ~Writes(h) /\ WritesNot(s)
      /\ SyncAhead(c.calls) /\ s # <<>> => SyncAhead(s)
      /\ SyncAhead(c.calls) /\ s = <<>> => h.fua /\ Writes(h)
  BY <1>5, SyncsOn DEF s
<1>7. HasExtent(r) => /\ r.off + r.len <= Size
                      /\ \E at \in Nat : /\ r.off <= at /\ n.done = Blocks(r.off, at)
                                         /\ Leads(s, at, r.off + r.len)
  <2> SUFFICES ASSUME HasExtent(r)
               PROVE  /\ r.off + r.len <= Size
                      /\ \E at \in Nat : /\ r.off <= at /\ n.done = Blocks(r.off, at)
                                         /\ Leads(s, at, r.off + r.len)
    OBVIOUS
  <2>1. PICK at \in Nat : /\ r.off <= at /\ c.done = Blocks(r.off, at)
                          /\ Leads(c.calls, at, r.off + r.len)
    BY <1>3 DEF Underway
  <2>2. h.lo = at /\ h.hi \in Nat /\ at <= h.hi /\ Leads(s, h.hi, r.off + r.len)
    <3>1. r.off + r.len \in Nat
      BY <1>4
    <3> QED
      BY <1>5, <2>1, <3>1, LeadsOn DEF s
  <2>3. Blocks(r.off, at) \cup Blocks(at, h.hi) = Blocks(r.off, h.hi)
    BY <1>4, <2>1, <2>2 DEF Blocks
  <2>4. r.off <= h.hi /\ n.done = Blocks(r.off, h.hi)
    BY <1>1, <1>4, <2>1, <2>2, <2>3
  <2> QED
    BY <1>3, <2>2, <2>4 DEF Underway
<1>8. ~HasExtent(r) => s = <<>> /\ n.done = {}
  <2>1. ~HasExtent(r) => Len(c.calls) = 1 /\ c.done = {} /\ h.lo = 0 /\ h.hi = 0
    BY <1>3 DEF Underway
  <2>2. Blocks(0, 0) = {}
    BY DEF Blocks
  <2> QED
    BY <1>1, <1>5, <2>1, <2>2
<1> HIDE DEF h, r, b
<1>9. ASSUME s # <<>> PROVE Earns(t, n, T)
  <2>1. Underway(n)
    BY <1>1, <1>5, <1>7, <1>8, <1>9 DEF Underway
  <2>2. r.fua => SyncAhead(s) \/ (WritesNot(s) /\ t \notin T)
    BY <1>3, <1>6, <1>9 DEF h
  <2> QED
    BY <1>1, <1>3, <2>1, <2>2 DEF Earns
<1>10. ASSUME s = <<>> PROVE Earns(t, e, T)
  <2>1. r.fua => t \notin T
    BY <1>3, <1>6, <1>10 DEF h
  <2>2. HasExtent(r) => n.done = Blocks(r.off, r.off + r.len) /\ r.off + r.len <= Size
    <3>1. \A at : Leads(s, at, r.off + r.len) => at = r.off + r.len
      BY <1>10 DEF Leads
    <3> QED
      BY <1>7, <3>1
  <2>3. n.done \subseteq Blocks(0, Size)
    <3>1. CASE HasExtent(r)
      <4>1. Size \in Nat
        BY SizesAssumption
      <4>2. Blocks(r.off, r.off + r.len) \subseteq Blocks(0, Size)
        BY <1>4, <2>2, <3>1, <4>1 DEF Blocks
      <4> QED
        BY <2>2, <3>1, <4>2
    <3> QED
      BY <1>8, <3>1
  <2> QED
    BY <1>2, <1>3, <2>1, <2>2, <2>3 DEF Earns
<1> QED
  BY <1>1, <1>9, <1>10 DEF e

(* A record of thread t becomes unsynced by t's own callback only. *)
LEMMA UnsyncedMoves ==
  ASSUME Types, Next, NEW t \in Thread,
         t \in eng'[volume[OwnerOf[t]]].unsynced, t \notin eng[volume[OwnerOf[t]]].unsynced
  PROVE  CallRun(t) \/ \E e \in {"invalid", "full", "other"} : CallFails(t, e)
<1> DEFINE v == volume[OwnerOf[t]]
           P == CallRun(t) \/ \E e \in {"invalid", "full", "other"} : CallFails(t, e)
<1>0. /\ eng \in [Volume -> Records] /\ volume \in [Daemon -> Volume] /\ v \in Volume
      /\ OwnerOf \in [Thread \cup Session \cup Stopper -> Daemon]
  BY DaemonAssumption DEF Types
<1>1. ASSUME UNCHANGED eng PROVE P
  BY <1>1
<1>2. ASSUME NEW w \in Volume, NEW r, eng' = [eng EXCEPT ![w] = r], t \in r.unsynced => t \in eng[w].unsynced
      PROVE  P
  BY <1>0, <1>2
<1>3. ASSUME NEW w \in Volume, NEW T PROVE [eng[w] EXCEPT !.unsynced = T].unsynced = T
  BY <1>0 DEF Records
<1>4. ASSUME NEW d \in Daemon, DaemonStep(d) PROVE P
  <2>0. volume[d] \in Volume
    BY <1>0
  <2>1. CASE StartRecover(d)
    BY <1>1, <1>2, <2>0, <2>1 DEF StartRecover
  <2>2. CASE ProcessEnds(d)
    BY <1>2, <1>3, <2>0, <2>2 DEF ProcessEnds
  <2>3. CASE StartBind(d) \/ StartPublish(d) \/ Loop(d)
    BY <1>1, <2>3, Frames DEF StartBind, StartPublish
  <2> QED
    BY <1>4, <2>1, <2>2, <2>3 DEF DaemonStep, Start
<1>5. ASSUME NEW x \in Thread, ThreadStep(x) PROVE P
  <2>1. volume[OwnerOf[x]] \in Volume
    BY <1>0
  <2>2. ASSUME NEW w \in Volume, NEW c, x # t PROVE t \in Effect(w, x, c).unsynced => t \in eng[w].unsynced
    <3>1. [eng[w] EXCEPT !.unsynced = {}].unsynced = {}
      BY <1>3
    <3> QED
      BY <2>2, <3>1 DEF Effect
  <2>3. CASE CallRun(x)
    BY <1>2, <2>1, <2>2, <2>3 DEF CallRun, Set
  <2>4. ASSUME NEW e \in {"invalid", "full", "other"}, CallFails(x, e) PROVE P
    BY <1>1, <1>2, <2>1, <2>2, <2>4 DEF CallFails, Set
  <2>5. CASE CallReplied(x)
    BY <1>2, <1>3, <2>1, <2>5 DEF CallReplied
  <2> QED
    BY <1>1, <1>5, <2>3, <2>4, <2>5 DEF ThreadStep, CallEnter, CallValidate
<1>6. ASSUME NEW s \in Session, SessionStep(s) PROVE P
  <2>1. volume[OwnerOf[s]] \in Volume
    BY <1>0
  <2>2. UNCHANGED eng \/ eng' = [eng EXCEPT ![volume[OwnerOf[s]]] = [clean |-> TRUE, unsynced |-> {}]]
    BY <1>6 DEF SessionStep, LoopAccept, LoopAborts, SessionEnds, Verb, AdminEnds
  <2> QED
    BY <1>1, <1>2, <2>1, <2>2
<1>7. ASSUME NEW c \in Caller, DrainStep(c) PROVE P
  <2>1. volume[OwnerOf[c]] \in Volume
    BY <1>0 DEF Caller
  <2>2. \/ UNCHANGED eng
        \/ eng' = [eng EXCEPT ![volume[OwnerOf[c]]] = [clean |-> TRUE, unsynced |-> {}]]
        \/ eng' = [eng EXCEPT ![volume[OwnerOf[c]]].unsynced = {}]
    BY <1>7 DEF DrainStep, DrainLock, DrainRegister, DrainCheck, DrainAwait, DrainFlush, DrainCheckpoint
  <2> QED
    BY <1>1, <1>2, <1>3, <2>1, <2>2
<1>8. ASSUME (\E u \in Stopper : StopStep(u)) \/ PathChanges \/ Done PROVE P
  BY <1>1, <1>8, Frames DEF vars
<1> HIDE DEF P
<1>9. P
  BY <1>4, <1>5, <1>6, <1>7, <1>8, Steps
<1> QED
  BY <1>9 DEF P

(* Next keeps what the callbacks have earned. *)
LEMMA EarnedKept ==
  ASSUME Types, Earned, Next
  PROVE  Earned'
<1> SUFFICES ASSUME NEW t \in Thread
             PROVE  Earns(t, call'[t], eng'[volume'[OwnerOf[t]]].unsynced)
  BY DEF Earned
<1> DEFINE v == volume[OwnerOf[t]]
           S == eng[v].unsynced
           T == eng'[v].unsynced
           P == Earns(t, call'[t], T)
<1>0. /\ call = [x \in Thread |-> call[x]] /\ IsCall(call[t]) /\ OwnerOf[t] \in Daemon
      /\ eng \in [Volume -> Records] /\ v \in Volume /\ volume \in [Daemon -> Volume]
      /\ Requests \subseteq Request
  BY DaemonAssumption DEF Types
<1>1. Earns(t, call[t], S)
  BY DEF Earned
<1> HIDE DEF P
<1>2. ASSUME call'[t] = call[t], ~CallRun(t), \A e \in {"invalid", "full", "other"} : ~CallFails(t, e) PROVE P
  <2>1. t \in T => t \in S
    BY <1>2, UnsyncedMoves
  <2> HIDE DEF S, T
  <2> QED
    BY <1>1, <1>2, <2>1, SyncedEarns DEF P
<1>3. ASSUME NEW d \in Daemon, ProcessEnds(d), OwnerOf[t] = d PROVE P
  <2>1. call'[t] = Idle
    BY <1>3 DEF ProcessEnds
  <2>2. eng' = [eng EXCEPT ![v].unsynced = @ \ Thread]
    BY <1>3 DEF ProcessEnds
  <2>3. t \notin T
    <3>1. eng'[v] = [eng[v] EXCEPT !.unsynced = @ \ Thread] /\ eng[v] \in Records
      BY <1>0, <2>2
    <3> QED
      BY <3>1 DEF Records
  <2> HIDE DEF T
  <2> QED
    BY <2>1, <2>3, IdleEarns DEF P
<1>4. ASSUME NEW r \in Requests, CallEnter(t, r) PROVE P
  <2> DEFINE in == Admits(gate[OwnerOf[t]])
             pc == IF in THEN "valid" ELSE "replied"
             reply == IF in THEN NoOne ELSE "ESHUTDOWN"
  <2>1. call'[t] = [Idle EXCEPT !.pc = pc, !.req = r, !.reply = reply]
    BY <1>0, <1>4 DEF CallEnter, Set
  <2>2. T = S /\ call[t].pc = "idle"
    BY <1>4 DEF CallEnter
  <2>3. pc \in {"valid", "replied"} /\ reply # "ok" /\ r \in Request
    BY <1>0, DaemonAssumption
  <2> HIDE DEF S, T, pc, reply
  <2>4. t \notin S
    BY <1>1, <2>2 DEF Earns
  <2> QED
    BY <2>1, <2>2, <2>3, <2>4, EntryEarns DEF P
<1>5. ASSUME NEW reply, reply # "ok", Return(t, reply, call[t]), call[t].pc # "idle" PROVE P
  <2>1. call'[t] = [call[t] EXCEPT !.pc = "replied", !.reply = reply]
    BY <1>0, <1>5 DEF Return, Set
  <2> HIDE DEF S, T
  <2> QED
    BY <1>0, <1>1, <1>5, <2>1, ErrorEarns DEF P
<1>6. ASSUME CallValidate(t) PROVE P
  <2>1. call[t].pc = "valid" /\ T = S
    BY <1>6 DEF CallValidate
  <2>2. CASE Return(t, "ESHUTDOWN", call[t]) \/ Return(t, "EINVAL", call[t])
    BY <1>5, <2>1, <2>2
  <2>3. CASE ValidExtent(call[t].req) /\ call' = Set(call, t, [call[t] EXCEPT !.pc = "run", !.calls = CallsOf(call[t].req)])
    <3>1. call'[t] = [call[t] EXCEPT !.pc = "run", !.calls = CallsOf(call[t].req)]
      BY <1>0, <2>3 DEF Set
    <3> HIDE DEF S, T
    <3> QED
      BY <1>0, <1>1, <2>1, <2>3, <3>1, ValidEarns DEF P
  <2> QED
    BY <1>6, <2>2, <2>3 DEF CallValidate
<1>7. ASSUME CallRun(t) PROVE P
  <2> DEFINE h == Head(call[t].calls)
             n == [call[t] EXCEPT !.calls = Tail(@), !.done = @ \cup Blocks(h.lo, h.hi)]
  <2>1. call[t].pc = "run" /\ eng' = Set(eng, v, Effect(v, t, h))
    BY <1>7 DEF CallRun
  <2>2. T = Effect(v, t, h).unsynced
    BY <1>0, <2>1 DEF Set
  <2>3. Writes(h) /\ h.fua => t \notin T
    BY <2>2 DEF Writes, Effect
  <2>4. ~Writes(h) => (t \in T => t \in S)
    <3>1. [eng[v] EXCEPT !.unsynced = {}].unsynced = {}
      BY <1>0 DEF Records
    <3> QED
      BY <2>2, <3>1 DEF Writes, Effect
  <2>5. /\ n.calls # <<>> => call' = Set(call, t, n)
        /\ n.calls = <<>> => call' = Set(call, t, [n EXCEPT !.pc = "replied", !.reply = "ok"])
    BY <1>7 DEF CallRun, Return
  <2>6. /\ n.calls # <<>> => call'[t] = n
        /\ n.calls = <<>> => call'[t] = [n EXCEPT !.pc = "replied", !.reply = "ok"]
    <3> HIDE DEF n
    <3> QED
      BY <1>0, <2>5 DEF Set
  <2> HIDE DEF S, T
  <2>7. /\ n.calls # <<>> => Earns(t, n, T)
        /\ n.calls = <<>> => Earns(t, [n EXCEPT !.pc = "replied", !.reply = "ok"], T)
    BY <1>0, <1>1, <2>1, <2>3, <2>4, RunEarns
  <2> HIDE DEF n
  <2> QED
    BY <2>6, <2>7 DEF P
<1>8. ASSUME NEW e \in {"invalid", "full", "other"}, CallFails(t, e) PROVE P
  <2>1. call[t].pc = "run" /\ Return(t, Errno(e), call[t])
    BY <1>8 DEF CallFails
  <2>2. Errno(e) # "ok"
    BY DEF Errno
  <2> QED
    BY <1>5, <2>1, <2>2
<1>9. ASSUME CallReplied(t) PROVE P
  <2>1. call'[t] = Idle /\ eng' = [eng EXCEPT ![v].unsynced = @ \ {t}]
    BY <1>0, <1>9 DEF CallReplied, Set
  <2>2. t \notin T
    <3>1. eng'[v] = [eng[v] EXCEPT !.unsynced = @ \ {t}] /\ eng[v] \in Records
      BY <1>0, <2>1
    <3> QED
      BY <3>1 DEF Records
  <2> HIDE DEF T
  <2> QED
    BY <2>1, <2>2, IdleEarns DEF P
<1> DEFINE own == CallRun(t) \/ \E e \in {"invalid", "full", "other"} : CallFails(t, e)
<1>10. ASSUME ~own /\ call'[t] = call[t] PROVE P
  BY <1>2, <1>10
<1>11. own => P
  BY <1>7, <1>8
<1>12. ASSUME NEW x \in Thread, ThreadStep(x), x # t PROVE call'[t] = call[t]
  BY <1>0, <1>12 DEF ThreadStep, CallEnter, CallValidate, CallRun, CallFails, CallReplied, Return, Set
<1>13. ASSUME NEW d \in Daemon, DaemonStep(d) PROVE P \/ call'[t] = call[t]
  <2>1. CASE ProcessEnds(d)
    <3>1. CASE OwnerOf[t] # d
      BY <2>1, <3>1 DEF ProcessEnds
    <3> QED
      BY <1>3, <2>1, <3>1
  <2> QED
    BY <1>13, <2>1, Frames DEF DaemonStep
<1>14. ASSUME (\E s \in Session : SessionStep(s)) \/ (\E c \in Caller : DrainStep(c))
                \/ (\E u \in Stopper : StopStep(u)) \/ PathChanges \/ Done
       PROVE  call'[t] = call[t]
  BY <1>14, Frames DEF vars
<1>15. ASSUME ThreadStep(t) PROVE P
  BY <1>4, <1>6, <1>7, <1>8, <1>9, <1>15 DEF ThreadStep
<1> HIDE DEF own
<1>16. P
  BY <1>10, <1>11, <1>12, <1>13, <1>14, <1>15, Steps
<1> QED
  BY <1>16, VolumeFixed DEF P

(* The initial states satisfy the invariant. *)
LEMMA InitHolds == Init => IInv
<1> SUFFICES ASSUME Init PROVE IInv
  OBVIOUS
<1>0. /\ OwnerOf \in [Thread \cup Session \cup Stopper -> Daemon] /\ Configured \subseteq [Daemon -> Volume]
      /\ Daemon \cap {"nothing", "dead", "file"} = {} /\ Caller = Session \cup Stopper
  BY DaemonAssumption DEF Caller
<1>1. /\ volume \in [Daemon -> Volume] /\ path \in {"nothing", "dead", "file"}
      /\ proc = [d \in Daemon |-> NewProc] /\ gate = [d \in Daemon |-> NewGate]
      /\ call = [t \in Thread |-> Idle] /\ sess = [s \in Session |-> "none"] /\ stop = [u \in Stopper |-> "no"]
      /\ eng = [v \in Volume |-> [clean |-> TRUE, unsynced |-> {}]]
  BY <1>0 DEF Init
<1>2. NewProc \in Proc /\ NewProc.up = "new" /\ NewProc.state = FALSE /\ NewProc.loop = "off"
  BY DEF NewProc, Proc
<1>3. NewGate \in Gate(Caller) /\ NewGate.phase = "running" /\ NewGate.active = 0
  BY DEF NewGate, Gate
<1>4. IsCall(Idle) /\ Idle.pc = "idle"
  BY DEF IsCall, Idle
<1>5. [clean |-> TRUE, unsynced |-> {}] \in Records
  BY DEF Records
<1>6. \A c \in Caller : At(c) \in {"none", "no"}
  BY <1>0, <1>1 DEF At
<1>7. \A d \in Daemon : ~Holds(d) /\ ~Listening(d)
  BY <1>0, <1>1, <1>2, <1>4, Held DEF Listening, HasEngine, Stage
<1>8. Types
  BY <1>1, <1>2, <1>3, <1>4, <1>5 DEF Types
<1>9. Counted
  <2>1. \A d \in Daemon : InsideT(d) = {} /\ InsideS(d) = {}
    BY <1>1, <1>4 DEF InsideT, InsideS, OfD
  <2>2. Cardinality({}) = 0
    BY FS_EmptySet
  <2>3. ASSUME NEW d \in Daemon PROVE gate[d].active = Cardinality(InsideT(d)) + Cardinality(InsideS(d))
    <3>1. gate[d].active = 0
      BY <1>1, <1>3
    <3>2. Cardinality(InsideT(d)) = 0 /\ Cardinality(InsideS(d)) = 0
      BY <2>1, <2>2
    <3> QED
      BY <3>1, <3>2
  <2> QED
    BY <2>3 DEF Counted
<1>10. DrainAlone
  BY <1>1, <1>3, <1>6 DEF DrainAlone, Stage
<1>11. Exclusive /\ Covered
  BY <1>7 DEF Exclusive, Covered
<1>12. Life
  BY <1>0, <1>1, <1>2, <1>4, <1>7 DEF Life
<1>13. Released
  BY <1>0, <1>1, <1>2 DEF Released, HoldsMutex, Stage
<1>14. Earned
  <2> SUFFICES ASSUME NEW t \in Thread PROVE Earns(t, call[t], eng[volume[OwnerOf[t]]].unsynced)
    BY DEF Earned
  <2>1. call[t] = Idle /\ eng[volume[OwnerOf[t]]].unsynced = {}
    BY <1>0, <1>1
  <2> QED
    BY <2>1, IdleEarns
<1> QED
  BY <1>8, <1>9, <1>10, <1>11, <1>12, <1>13, <1>14 DEF IInv

(* Every step keeps the invariant. *)
LEMMA StepHolds == IInv /\ [Next]_vars => IInv'
<1>1. ASSUME IInv, Next PROVE IInv'
  BY <1>1, TypesKept, CountedKept, DrainAloneKept, ExclusiveKept, CoveredKept, LifeKept, ReleasedKept, EarnedKept DEF IInv
<1>2. ASSUME IInv, UNCHANGED vars PROVE IInv'
  <2>0. UNCHANGED <<volume, proc, gate, call, sess, stop, path, eng>>
    BY <1>2 DEF vars
  <2>1. Types'
    BY <1>2, <2>0 DEF IInv, Types
  <2>2. Counted'
    BY <1>2, <2>0 DEF IInv, Counted, InsideT, InsideS, OfD
  <2>3. DrainAlone'
    BY <1>2, <2>0 DEF IInv, DrainAlone, At
  <2>4. \A d \in Daemon : Holds(d)' <=> Holds(d)
    BY <2>0 DEF Holds, Refs, OfD
  <2>5. Exclusive' /\ Covered'
    BY <1>2, <2>0, <2>4 DEF IInv, Exclusive, Covered
  <2>6. \A d \in Daemon : Listening(d)' <=> Listening(d)
    BY <2>0 DEF Listening
  <2>7. Life' /\ Released'
    BY <1>2, <2>0, <2>6, DaemonAssumption DEF IInv, Life, Released, OfD
  <2>8. Earned'
    BY <1>2, <2>0 DEF IInv, Earned
  <2> QED
    BY <2>1, <2>2, <2>3, <2>5, <2>7, <2>8 DEF IInv
<1> QED
  BY <1>1, <1>2

(* The invariant holds in every reachable state, for any number of *)
(* daemons, volumes, threads, sessions and stoppers. *)
THEOREM Inductive == Spec => []IInv
  BY InitHolds, StepHolds, PTL DEF Spec

(* An acknowledged drain (drain.rs) has counted out every callback and *)
(* covered every record, for all constants: DrainCovers is an invariant. *)
THEOREM DrainCoversAlways == Spec => []DrainCovers
<1>1. IInv => DrainCovers
  <2> SUFFICES ASSUME IInv PROVE DrainCovers
    OBVIOUS
  <2>1. TypeOK
    <3>1. /\ volume \in [Daemon -> Volume] /\ proc \in [Daemon -> Proc] /\ gate \in [Daemon -> Gate(Caller)]
          /\ path \in Daemon \cup {"nothing", "dead", "file"} /\ eng \in [Volume -> Records]
      BY DEF IInv, Types
    <3>2. \A p \in Proc : p.mutex \in Stopper \cup {NoOne} /\ p.busy \in Session \cup {NoOne}
      BY DEF Proc
    <3>3. \A r \in Records : r.clean \in BOOLEAN /\ r.unsynced \subseteq Thread
      BY DEF Records
    <3> QED
      BY <3>1, <3>2, <3>3 DEF TypeOK
  <2> QED
    BY <2>1 DEF IInv, DrainCovers, Counted, InsideT, InsideS, DrainAlone, Covered
<1> QED
  BY <1>1, Inductive, PTL

(* A shutdown() that returned Ok has released the engine (adapter.rs) and, *)
(* unless its removal failed (uds.rs, Drop), the socket; and two daemons *)
(* never hold one volume, for all constants: StopReleases is an invariant. *)
THEOREM StopReleasesAlways == Spec => []StopReleases
<1>1. IInv => StopReleases
  <2> SUFFICES ASSUME IInv PROVE StopReleases
    OBVIOUS
  <2>1. ASSUME NEW u \in Stopper, stop[u] = "ok" PROVE Refs(OwnerOf[u]) = {} /\ (path = OwnerOf[u] => proc[OwnerOf[u]].loop = "left")
    <3> DEFINE d == OwnerOf[u]
    <3>1. d \in Daemon /\ proc[d].up \in {"ready", "failed"} /\ ~proc[d].state
      BY <2>1, DaemonAssumption DEF IInv, Life, Released
    <3>2. /\ ~Listening(d)
          /\ \A t \in Thread : OwnerOf[t] = d => call[t].pc # "run"
          /\ \A x \in Stopper : OwnerOf[x] = d => stop[x] \notin HasEngine
      BY <3>1 DEF IInv, Released, OfD
    <3>3. \A s \in Session : OwnerOf[s] = d => sess[s] = "none"
      BY <3>2 DEF IInv, Life
    <3>4. ~Holds(d)
      BY <3>1, <3>2, <3>3, Held
    <3>5. path = d => proc[d].loop = "left"
      BY <3>1, <3>2 DEF IInv, Life
    <3> QED
      BY <3>4, <3>5 DEF Holds
  <2> QED
    BY <2>1 DEF IInv, Exclusive, StopReleases
<1> QED
  BY <1>1, Inductive, PTL

(* A callback that is answered with success has done its whole extent, and *)
(* with FUA left no record unsynced, however it was split (adapter.rs) and *)
(* whatever ran in between, for all sizes: RepliesEarned is an invariant. *)
THEOREM RepliesEarnedAlways == Spec => []RepliesEarned
<1>1. IInv => RepliesEarned
  BY DEF IInv, Earned, Earns, RepliesEarned
<1> QED
  BY <1>1, Inductive, PTL

(* No daemon takes the control socket path from one that still listens on *)
(* it (uds.rs), for all constants: every step satisfies SocketKept. *)
THEOREM SocketKeptAlways == Spec => SocketKept
<1> DEFINE A == \A d \in Daemon : path = d /\ Listening(d) /\ Listening(d)' => path' = d \/ PathChanges
<1>1. ASSUME IInv, Next PROVE A
  <2> SUFFICES ASSUME NEW d \in Daemon, path = d, Listening(d), Listening(d)', path' # d PROVE PathChanges
    OBVIOUS
  <2>0. Types /\ d \notin {"nothing", "dead", "file"}
    BY <1>1, DaemonAssumption DEF IInv
  <2>1. ASSUME NEW e \in Daemon, MayPublish(e) PROVE FALSE
    BY <2>0, <2>1 DEF MayPublish
  <2>2. ASSUME NEW e \in Daemon, LoopEnds(e), path' = DropListener(e) PROVE FALSE
    <3>1. e = d
      BY <2>2 DEF DropListener
    <3> QED
      BY <2>0, <2>2, <3>1, ProcSteps DEF Listening
  <2> QED
    BY <1>1, <2>1, <2>2, PathSteps
<1>2. IInv /\ [Next]_vars => [A]_vars
  BY <1>1
<1> QED
  BY <1>2, Inductive, PTL DEF Spec, SocketKept
=============================================================================
