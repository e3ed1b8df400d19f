------------------------------- MODULE Daemon -------------------------------
(***************************************************************************)
(* The life of a volume daemon (crate maki-nbdkit with maki-control): the  *)
(* start nbdkit's after_fork runs, the NBD connection and its callbacks,   *)
(* the control socket with its sessions and verbs, the acknowledged drain  *)
(* and the clean shutdown.  Several daemons may run, on one volume or on   *)
(* different ones, all configured with one control socket path.            *)
(*                                                                         *)
(* The engine is what Engine and Volume show it to be: here it keeps only  *)
(* whether some record is newer than the last checkpoint and whose records *)
(* are not yet synced.  A member of Daemon is one process and never        *)
(* restarts; a restart is another member.                                  *)
(***************************************************************************)
EXTENDS NbdRequest, FiniteSets

CONSTANTS
  Daemon, Volume,
  Thread,       \* nbdkit threads that run callbacks
  Session,      \* control sessions (tasks of the serve loop)
  Stopper,      \* callers of NbdAdapter::shutdown
  OwnerOf,      \* the process of each thread, session and stopper
  Configured,   \* which volumes the daemons are configured with
  Requests,     \* the callbacks clients send
  NoOne,
  MaxSessions,  \* ControlLimits::max_sessions
  MaxCalls,     \* bound: callbacks a client sends
  MaxVerbs,     \* bound: control verbs
  MaxFaults     \* bound: failures of engine calls, start steps and processes,
                \*        and changes of the socket path by others

ASSUME DaemonAssumption ==
  /\ OwnerOf \in [Thread \cup Session \cup Stopper -> Daemon]
  /\ Configured \subseteq [Daemon -> Volume]
  /\ Requests \subseteq Request
  /\ MaxSessions \in Nat \ {0}
  /\ {MaxCalls, MaxVerbs, MaxFaults} \subseteq Nat
  /\ IsFiniteSet(Thread) /\ IsFiniteSet(Session)
  /\ Session \cap Stopper = {} /\ NoOne \notin Session \cup Stopper
  /\ NoOne # "ok"
  /\ Daemon \cap {"nothing", "dead", "file"} = {}

INSTANCE DrainGate

VARIABLES
  volume,   \* the volume each daemon is configured with
  proc,     \* per daemon: start, adapter state, serve loop
  gate,     \* per daemon: its DrainGate
  call,     \* per thread: the callback it runs
  sess,     \* per session: the verb it runs
  stop,     \* per stopper: how far its shutdown() is
  path,     \* what the control socket path names
  eng,      \* per volume: the engine's records
  left      \* the bounds that are left

vars == <<volume, proc, gate, call, sess, stop, path, eng, left>>

Caller == Session \cup Stopper
Idle == [pc |-> "idle", req |-> NoOne, calls |-> <<>>, done |-> {}, reply |-> NoOne]
NewProc == [up |-> "new", state |-> FALSE, mutex |-> NoOne,
            loop |-> "off", signal |-> FALSE, busy |-> NoOne]

Init ==
  /\ volume \in Configured
  /\ proc = [d \in Daemon |-> NewProc]
  /\ gate = [d \in Daemon |-> NewGate]
  /\ call = [t \in Thread |-> Idle]
  /\ sess = [s \in Session |-> "none"]
  /\ stop = [u \in Stopper |-> "no"]
  /\ path \in {"nothing", "dead", "file"}
  /\ eng = [v \in Volume |-> [clean |-> TRUE, unsynced |-> {}]]
  /\ left = [calls |-> MaxCalls, verbs |-> MaxVerbs, faults |-> MaxFaults]

OfD(d, S) == {x \in S : OwnerOf[x] = d}
Set(f, x, v) == [f EXCEPT ![x] = v]
Fault == left.faults > 0 /\ left' = [left EXCEPT !.faults = @ - 1]

(* Everything in process d that holds a reference to the Engine (or to the *)
(* recovered Volume before it): the start, the adapter's state, the serve  *)
(* loop's backend, each session, a callback, a stopper's clone of state.   *)
Refs(d) ==
  {x \in {"start"} : proc[d].up = "recovered"}
    \cup {x \in {"adapter"} : proc[d].state}
    \cup {x \in {"loop"} : proc[d].loop \in {"serving", "aborting"}}
    \cup {s \in OfD(d, Session) : sess[s] # "none"}
    \cup {t \in OfD(d, Thread) : call[t].pc = "run"}
    \cup {u \in OfD(d, Stopper) : stop[u] \in {"drain", "register", "check", "await",
                                                "flush", "checkpoint", "worker"}}

(* The volume lock goes with the last reference.                           *)
Holds(d) == Refs(d) # {}
Listening(d) == proc[d].loop \in {"serving", "aborting"}

-----------------------------------------------------------------------------
(* Start: after_fork -> Startup::run -> open_native_config.  A failed step *)
(* drops what was built; the result is sticky, nothing retries it.         *)
StartFails(d) == /\ Fault
                 /\ proc' = Set(proc, d, [NewProc EXCEPT !.up = "exited"])

Refused(d) == proc' = Set(proc, d, [NewProc EXCEPT !.up = "exited"]) /\ UNCHANGED left

(* The configuration, the listener of nbdkit, process hardening and the    *)
(* backing are checked first, before the volume is touched; then           *)
(* Volume::recover takes the volume lock or fails.                         *)
LockFree(d) == \A e \in Daemon \ {d} : volume[e] = volume[d] => ~Holds(e)

StartRecover(d) ==
  /\ proc[d].up = "new"
  /\ \/ /\ LockFree(d)
        /\ proc' = Set(proc, d, [NewProc EXCEPT !.up = "recovered"])
        /\ eng' = [eng EXCEPT ![volume[d]] = [clean |-> FALSE, unsynced |-> {}]]
        /\ UNCHANGED left
     \/ ~LockFree(d) /\ Refused(d) /\ UNCHANGED eng
     \/ LockFree(d) /\ StartFails(d) /\ UNCHANGED eng
  /\ UNCHANGED <<volume, gate, call, sess, stop, path>>

(* The geometry against the configuration, the provider and its endpoints, *)
(* the engine and the memory budget: a step that fails drops the volume.   *)
(* Then bind_control_socket: under the directory lock, a path that names a live *)
(* socket or anything but a socket is refused, a dead socket is replaced   *)
(* by the rename.                                                          *)
MayPublish(d) == \/ path \in {"nothing", "dead"}
                 \/ path \in Daemon /\ ~Listening(path)

StartBind(d) ==
  /\ proc[d].up = "recovered"
  /\ \/ /\ MayPublish(d)
        /\ path' = d
        /\ proc' = Set(proc, d, [NewProc EXCEPT !.up = "bound", !.state = TRUE, !.loop = "serving"])
        /\ UNCHANGED left
     \/ ~MayPublish(d) /\ Refused(d) /\ UNCHANGED path
     \/ MayPublish(d) /\ StartFails(d) /\ UNCHANGED path
  /\ UNCHANGED <<volume, gate, call, sess, stop, eng>>

(* ADAPTER.set and notify_ready: without a notification open() stays       *)
(* disabled, and unload can still shut the stored adapter down.            *)
StartPublish(d) ==
  /\ proc[d].up = "bound"
  /\ \/ proc' = [proc EXCEPT ![d].up = "ready"] /\ UNCHANGED left
     \/ Fault /\ proc' = [proc EXCEPT ![d].up = "failed"]
  /\ UNCHANGED <<volume, gate, call, sess, stop, path, eng>>

(* The process ends, by itself after a shutdown or a failed start, or by a *)
(* kill: its lock and its listener go, its socket file stays.              *)
ProcessEnds(d) ==
  /\ proc[d].up \notin {"new", "exited"}
  /\ \/ (proc[d].up = "failed" \/ \E u \in OfD(d, Stopper) : stop[u] = "ok") /\ UNCHANGED left
     \/ Fault
  /\ proc' = Set(proc, d, [NewProc EXCEPT !.up = "exited"])
  /\ gate' = Set(gate, d, NewGate)
  /\ call' = [t \in Thread |-> IF OwnerOf[t] = d THEN Idle ELSE call[t]]
  /\ sess' = [s \in Session |-> IF OwnerOf[s] = d THEN "none" ELSE sess[s]]
  /\ stop' = [u \in Stopper |-> IF OwnerOf[u] = d THEN "no" ELSE stop[u]]
  /\ eng' = [eng EXCEPT ![volume[d]].unsynced = @ \ Thread]
  /\ UNCHANGED <<volume, path>>

-----------------------------------------------------------------------------
(* Callbacks come on an open connection: open() hands one out after a      *)
(* complete start only.                                                    *)
(* A callback enters the gate, or is answered ESHUTDOWN.                   *)
CallEnter(t, r) ==
  /\ proc[OwnerOf[t]].up = "ready" /\ call[t].pc = "idle" /\ left.calls > 0
  /\ left' = [left EXCEPT !.calls = @ - 1]
  /\ LET d == OwnerOf[t]
         admitted == Admits(gate[d])
     IN  /\ gate' = IF admitted THEN Set(gate, d, Enter(gate[d])) ELSE gate
         /\ call' = Set(call, t, [Idle EXCEPT !.pc = IF admitted THEN "valid" ELSE "replied",
                                              !.req = r,
                                              !.reply = IF admitted THEN NoOne ELSE "ESHUTDOWN"])
  /\ UNCHANGED <<volume, proc, sess, stop, path, eng>>

(* The callback returns: its guard drops before nbdkit sees the reply.     *)
Return(t, reply, c) ==
  /\ gate' = [gate EXCEPT ![OwnerOf[t]] = Leave(@)]
  /\ call' = Set(call, t, [c EXCEPT !.pc = "replied", !.reply = reply])

CallValidate(t) ==
  /\ call[t].pc = "valid"
  /\ IF ~proc[OwnerOf[t]].state THEN Return(t, "ESHUTDOWN", call[t])
     ELSE IF ~ValidExtent(call[t].req) THEN Return(t, "EINVAL", call[t])
     ELSE /\ call' = Set(call, t, [call[t] EXCEPT !.pc = "run", !.calls = CallsOf(call[t].req)])
          /\ UNCHANGED gate
  /\ UNCHANGED <<volume, proc, sess, stop, path, eng, left>>

(* What one engine call does to the records of volume v.                   *)
Effect(v, t, c) ==
  CASE c.kind \in {"write", "trim"} ->
         [clean |-> FALSE, unsynced |-> IF c.fua THEN {} ELSE eng[v].unsynced \cup {t}]
    [] c.kind = "flush"      -> [eng[v] EXCEPT !.unsynced = {}]
    [] c.kind = "checkpoint" -> [clean |-> TRUE, unsynced |-> {}]
    [] OTHER                 -> eng[v]

(* run(): the next engine call succeeds; the last one's result is the      *)
(* callback's.                                                             *)
CallRun(t) ==
  /\ call[t].pc = "run"
  /\ LET c    == Head(call[t].calls)
         next == [call[t] EXCEPT !.calls = Tail(@), !.done = @ \cup Blocks(c.lo, c.hi)]
         v    == volume[OwnerOf[t]]
     IN  /\ eng' = Set(eng, v, Effect(v, t, c))
         /\ IF next.calls = <<>> THEN Return(t, "ok", next)
            ELSE call' = Set(call, t, next) /\ UNCHANGED gate
  /\ UNCHANGED <<volume, proc, sess, stop, path, left>>

(* run(): the engine fails or panics, with or without the records written. *)
CallFails(t, e) ==
  /\ call[t].pc = "run" /\ Fault
  /\ LET v == volume[OwnerOf[t]]
     IN  \E written \in BOOLEAN :
           eng' = IF written
                    THEN Set(eng, v, Effect(v, t, [Head(call[t].calls) EXCEPT !.fua = FALSE]))
                    ELSE eng
  /\ Return(t, Errno(e), call[t])
  /\ UNCHANGED <<volume, proc, sess, stop, path>>

(* nbdkit sends the reply and the thread takes the next request.           *)
CallReplied(t) ==
  /\ call[t].pc = "replied"
  /\ call' = Set(call, t, Idle)
  /\ eng' = [eng EXCEPT ![volume[OwnerOf[t]]].unsynced = @ \ {t}]
  /\ UNCHANGED <<volume, proc, gate, sess, stop, path, left>>

-----------------------------------------------------------------------------
(* The serve loop waits for a session slot and then for a connection; both *)
(* waits also end on the shutdown signal.  A failed accept() gives the     *)
(* slot back and the loop goes on.                                         *)
LiveSessions(d) == Cardinality({s \in OfD(d, Session) : sess[s] # "none"})

LoopAccept(s) ==
  /\ proc[OwnerOf[s]].loop = "serving" /\ sess[s] = "none"
  /\ LiveSessions(OwnerOf[s]) < MaxSessions
  /\ sess' = Set(sess, s, "idle")
  /\ UNCHANGED <<volume, proc, gate, call, stop, path, eng, left>>

SignalledWithSlot(d) == proc[d].signal /\ LiveSessions(d) < MaxSessions
Signalled(d) == proc[d].signal

LoopBreaks(d) ==
  /\ proc[d].loop = "serving" /\ Signalled(d)
  /\ proc' = [proc EXCEPT ![d].loop = "aborting"]
  /\ UNCHANGED <<volume, gate, call, sess, stop, path, eng, left>>

(* JoinSet::shutdown: every session is aborted wherever it waits; its      *)
(* guard, its turn as the one mutation and the drain mutex drop with it.   *)
LoopAborts(s) ==
  LET d == OwnerOf[s] IN
  /\ proc[d].loop = "aborting" /\ sess[s] # "none"
  /\ sess' = Set(sess, s, "none")
  /\ proc' = [proc EXCEPT ![d].busy = IF @ = s THEN NoOne ELSE @]
  /\ gate' = IF sess[s] = "admin" THEN Set(gate, d, Leave(gate[d]))
             ELSE IF gate[d].drainer = s THEN Set(gate, d, CancelDrain(gate[d]))
             ELSE gate
  /\ UNCHANGED <<volume, call, stop, path, eng, left>>

(* The loop's task ends and drops its listener, which removes the path     *)
(* only while it names this listener's own inode.  The removal is best     *)
(* effort: where the directory lock, the look at the path or remove_file   *)
(* fails, the dead socket stays ("left") and the task ends all the same.   *)
UnlinkPath(d) == IF path = "file" THEN path ELSE "nothing"
DropListener(d) == IF path = d THEN "nothing" ELSE path

LoopEnds(d) ==
  /\ proc[d].loop = "aborting" /\ LiveSessions(d) = 0
  /\ \/ /\ proc' = [proc EXCEPT ![d].loop = "ended"]
        /\ path' = DropListener(d)
        /\ UNCHANGED left
     \/ /\ path = d /\ Fault
        /\ proc' = [proc EXCEPT ![d].loop = "left"]
        /\ UNCHANGED path
  /\ UNCHANGED <<volume, gate, call, sess, stop, eng>>

(* serve_connection: the client closes, times out or breaks the framing.   *)
SessionEnds(s) ==
  /\ sess[s] = "idle"
  /\ sess' = Set(sess, s, "none")
  /\ UNCHANGED <<volume, proc, gate, call, stop, path, eng, left>>

(* A verb: status, metrics, a privileged or unknown one is answered at     *)
(* once and changes nothing.  checkpoint, reload and drain run one at a    *)
(* time, a second one is refused as busy; the first two also enter the     *)
(* gate, or are refused.                                                   *)
Verb(s) ==
  LET d == OwnerOf[s] IN
  /\ sess[s] = "idle" /\ left.verbs > 0 /\ proc[d].busy = NoOne
  /\ left' = [left EXCEPT !.verbs = @ - 1]
  /\ \/ /\ Admits(gate[d])
        /\ gate' = Set(gate, d, Enter(gate[d]))
        /\ sess' = Set(sess, s, "admin")
     \/ sess' = Set(sess, s, "drain") /\ UNCHANGED gate
  /\ proc' = [proc EXCEPT ![d].busy = s]
  /\ UNCHANGED <<volume, call, stop, path, eng>>

(* The admitted checkpoint (or the cache reload, which touches no record)  *)
(* ends, well or not.                                                      *)
AdminEnds(s) ==
  LET d == OwnerOf[s] IN
  /\ sess[s] = "admin"
  /\ gate' = [gate EXCEPT ![d] = Leave(@)]
  /\ sess' = Set(sess, s, "idle")
  /\ proc' = [proc EXCEPT ![d].busy = NoOne]
  /\ \E done \in BOOLEAN :
       eng' = IF done THEN [eng EXCEPT ![volume[d]] = [clean |-> TRUE, unsynced |-> {}]] ELSE eng
  /\ UNCHANGED <<volume, call, stop, path, left>>

-----------------------------------------------------------------------------
(* drain(), run by a session's verb or inside shutdown().  at(c) is where  *)
(* caller c stands; Move sends it on.                                      *)
At(c) == IF c \in Session THEN sess[c] ELSE stop[c]

Move(c, to) ==
  IF c \in Session THEN sess' = Set(sess, c, to) /\ UNCHANGED stop
                   ELSE stop' = Set(stop, c, to) /\ UNCHANGED sess

(* A session answers its client and ends its turn; shutdown() goes on with *)
(* the checkpoint worker, or gives up with the error.                      *)
DrainAnswer(c, ok) ==
  /\ Move(c, IF c \in Session THEN "idle" ELSE IF ok THEN "worker" ELSE "err")
  /\ proc' = [proc EXCEPT ![OwnerOf[c]].busy = IF c \in Session THEN NoOne ELSE @,
                          ![OwnerOf[c]].mutex = IF c \in Stopper /\ ~ok THEN NoOne ELSE @]

DrainLock(c) ==
  LET d == OwnerOf[c] IN
  /\ At(c) = "drain" /\ CanLock(gate[d])
  /\ IF Answered(gate[d])
       THEN DrainAnswer(c, TRUE) /\ UNCHANGED gate
       ELSE /\ gate' = Set(gate, d, CloseGate(gate[d], c))
            /\ Move(c, "register") /\ UNCHANGED proc
  /\ UNCHANGED <<volume, call, path, eng, left>>

DrainRegister(c) ==
  /\ At(c) = "register"
  /\ gate' = [gate EXCEPT ![OwnerOf[c]] = Register(@)]
  /\ Move(c, "check")
  /\ UNCHANGED <<volume, proc, call, path, eng, left>>

DrainCheck(c) ==
  LET d == OwnerOf[c] IN
  /\ At(c) = "check"
  /\ IF gate[d].active = 0
       THEN gate' = Set(gate, d, DropWaiter(gate[d])) /\ Move(c, "flush")
       ELSE Move(c, "await") /\ UNCHANGED gate
  /\ UNCHANGED <<volume, proc, call, path, eng, left>>

DrainAwait(c) ==
  LET d == OwnerOf[c] IN
  /\ At(c) = "await" /\ gate[d].waiter \in {"notified", "taken"}
  /\ gate' = Set(gate, d, Woken(gate[d]))
  /\ Move(c, "register")
  /\ UNCHANGED <<volume, proc, call, path, eng, left>>

DrainFlush(c) ==
  LET d == OwnerOf[c] IN
  /\ At(c) = "flush"
  /\ \/ /\ eng' = [eng EXCEPT ![volume[d]].unsynced = {}]
        /\ Move(c, "checkpoint") /\ UNCHANGED <<proc, gate, left>>
     \/ /\ Fault
        /\ gate' = Set(gate, d, FinishDrain(gate[d], FALSE))
        /\ DrainAnswer(c, FALSE) /\ UNCHANGED eng
  /\ UNCHANGED <<volume, call, path>>

DrainCheckpoint(c) ==
  LET d == OwnerOf[c] IN
  /\ At(c) = "checkpoint"
  /\ \/ /\ eng' = [eng EXCEPT ![volume[d]] = [clean |-> TRUE, unsynced |-> {}]]
        /\ gate' = Set(gate, d, FinishDrain(gate[d], TRUE))
        /\ DrainAnswer(c, TRUE) /\ UNCHANGED left
     \/ /\ Fault
        /\ gate' = Set(gate, d, FinishDrain(gate[d], FALSE))
        /\ DrainAnswer(c, FALSE) /\ UNCHANGED eng
  /\ UNCHANGED <<volume, call, path>>

-----------------------------------------------------------------------------
(* shutdown().  Its own mutex is taken before the state is cloned.         *)
StopCall(u) ==
  /\ stop[u] \in {"no", "err"} /\ proc[OwnerOf[u]].up \in {"ready", "failed"}
  /\ stop' = Set(stop, u, "mutex")
  /\ UNCHANGED <<volume, proc, gate, call, sess, path, eng, left>>

StopMutex(u) ==
  LET d == OwnerOf[u] IN
  /\ stop[u] = "mutex" /\ proc[d].mutex = NoOne
  /\ IF proc[d].state
       THEN stop' = Set(stop, u, "drain") /\ proc' = [proc EXCEPT ![d].mutex = u]
       ELSE stop' = Set(stop, u, "ok") /\ UNCHANGED proc
  /\ UNCHANGED <<volume, gate, call, sess, path, eng, left>>

(* stop_checkpoint_worker has returned, the clone is dropped and the serve *)
(* loop is told to stop.                                                   *)
StopSignal(u) ==
  /\ stop[u] = "worker"
  /\ stop' = Set(stop, u, "join")
  /\ proc' = [proc EXCEPT ![OwnerOf[u]].signal = TRUE]
  /\ UNCHANGED <<volume, gate, call, sess, path, eng, left>>

(* stop_control returns once the loop's task has ended; then the adapter   *)
(* drops its state, and with it the last reference.                        *)
JoinSignalled(d) == proc[d].signal
JoinDone(d) == proc[d].loop \in {"ended", "left"}

StopJoin(u) ==
  LET d == OwnerOf[u] IN
  /\ stop[u] = "join" /\ JoinDone(d)
  /\ stop' = Set(stop, u, "ok")
  /\ proc' = [proc EXCEPT ![d].state = FALSE, ![d].mutex = NoOne]
  /\ UNCHANGED <<volume, gate, call, sess, path, eng, left>>

-----------------------------------------------------------------------------
(* The socket path is removed, or taken by a file, behind the daemon.      *)
PathChanges ==
  /\ Fault
  /\ \/ path # "nothing" /\ path' = "nothing"
     \/ path = "nothing" /\ path' = "file"
  /\ UNCHANGED <<volume, proc, gate, call, sess, stop, eng>>

Start(d) == StartRecover(d) \/ StartBind(d) \/ StartPublish(d)
Running(t) == CallValidate(t) \/ CallRun(t) \/ CallReplied(t)
Loop(d) == LoopBreaks(d) \/ LoopEnds(d)
Draining(c) == \/ DrainRegister(c) \/ DrainCheck(c) \/ DrainAwait(c)
               \/ DrainFlush(c) \/ DrainCheckpoint(c)
Stopping(u) == StopMutex(u) \/ StopSignal(u) \/ StopJoin(u)

(* A daemon that waits for its clients, or is gone, may do so forever.     *)
Quiet(d) ==
  /\ proc[d].up \in {"ready", "exited"}
  /\ \A t \in OfD(d, Thread) : call[t].pc = "idle"
  /\ \A s \in OfD(d, Session) : sess[s] \in {"none", "idle"}
  /\ \A u \in OfD(d, Stopper) : stop[u] \in {"no", "err", "ok"}

Done == (\A d \in Daemon : Quiet(d)) /\ UNCHANGED vars

Next ==
  \/ \E d \in Daemon : Start(d) \/ ProcessEnds(d) \/ Loop(d)
  \/ \E t \in Thread : Running(t) \/ (\E r \in Requests : CallEnter(t, r))
                       \/ (\E e \in {"invalid", "full", "other"} : CallFails(t, e))
  \/ \E s \in Session : LoopAccept(s) \/ LoopAborts(s) \/ SessionEnds(s) \/ Verb(s) \/ AdminEnds(s)
  \/ \E c \in Caller : DrainLock(c) \/ Draining(c)
  \/ \E u \in Stopper : StopCall(u) \/ Stopping(u)
  \/ PathChanges
  \/ Done

(* Engine calls return, tasks and threads run on; clients owe nothing.     *)
Fairness ==
  /\ \A d \in Daemon : WF_vars(Loop(d))
  /\ \A t \in Thread : WF_vars(Running(t))
  /\ \A s \in Session : WF_vars(LoopAborts(s)) /\ WF_vars(AdminEnds(s))
  /\ \A c \in Caller : WF_vars(DrainLock(c) \/ Draining(c))
  /\ \A u \in Stopper : WF_vars(Stopping(u))

Spec == Init /\ [][Next]_vars /\ Fairness

-----------------------------------------------------------------------------
TypeOK ==
  /\ volume \in [Daemon -> Volume]
  /\ \A d \in Daemon : gate[d] \in Gate(Caller)
  /\ \A d \in Daemon : proc[d].mutex \in Stopper \cup {NoOne} /\ proc[d].busy \in Session \cup {NoOne}
  /\ path \in Daemon \cup {"nothing", "dead", "file"}
  /\ \A v \in Volume : eng[v].clean \in BOOLEAN /\ eng[v].unsynced \subseteq Thread

(* An acknowledged drain (drain.rs): the gate counts exactly the callbacks *)
(* and administrative verbs inside it, and from the moment a drain answers *)
(* Ok no callback is inside and every record the daemon ever wrote is      *)
(* covered by the checkpoint it answered with, however callbacks, verbs,   *)
(* cancelled and concurrent drains interleave.                             *)
DrainCovers ==
  /\ TypeOK
  /\ \A d \in Daemon :
       /\ gate[d].active = Cardinality({t \in OfD(d, Thread) : call[t].pc \in {"valid", "run"}})
                             + Cardinality({s \in OfD(d, Session) : sess[s] = "admin"})
       /\ gate[d].phase = "drained" => gate[d].active = 0
       /\ gate[d].phase = "drained" /\ Holds(d) => eng[volume[d]].clean

(* A callback answered with success has done its whole extent and nothing  *)
(* beyond the device, and with FUA every record of it is synced, although  *)
(* it is split into several engine calls (adapter.rs: FUA on the last one) *)
(* that other callbacks interleave with.                                   *)
RepliesEarned ==
  \A t \in Thread :
    call[t].reply = "ok" =>
      LET r == call[t].req
      IN  /\ HasExtent(r) => call[t].done = Blocks(r.off, r.off + r.len)
          /\ call[t].done \subseteq Blocks(0, Size)
          /\ r.fua => t \notin eng[volume[OwnerOf[t]]].unsynced

(* shutdown() that returned Ok has released the volume: no session, serve  *)
(* loop, callback or other shutdown() still holds the Engine, and the      *)
(* daemon's own socket is gone from the path, unless the removal itself    *)
(* failed; and never do two daemons hold one volume.                       *)
StopReleases ==
  /\ \A u \in Stopper :
       stop[u] = "ok" =>
         /\ Refs(OwnerOf[u]) = {}
         /\ path = OwnerOf[u] => proc[OwnerOf[u]].loop = "left"
  /\ \A d, e \in Daemon : Holds(d) /\ Holds(e) /\ volume[d] = volume[e] => d = e

(* No daemon takes the control socket path away from another one that is   *)
(* still listening on it, not by binding and not by dropping its listener  *)
(* (uds.rs: only a dead socket is replaced, only the own inode removed).   *)
SocketKept ==
  [][\A d \in Daemon :
       path = d /\ Listening(d) /\ Listening(d)' => path' = d \/ PathChanges]_vars

(* Every drain and every shutdown() is answered, even while all session    *)
(* slots are taken by clients that stay connected.                         *)
CallersAnswered ==
  /\ \A u \in Stopper : stop[u] = "mutex" ~> stop[u] \in {"ok", "err", "no"}
  /\ \A s \in Session : sess[s] = "drain" ~> sess[s] \in {"idle", "none"}
=============================================================================
