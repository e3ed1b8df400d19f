------------------------------ MODULE DrainGate ------------------------------
(***************************************************************************)
(* The admission gate of one volume (drain.rs): callbacks enter it while   *)
(* it is running and leave it when their guard drops; a drain closes it,   *)
(* waits until no guard is left, flushes and checkpoints.  The drains are  *)
(* serialized by an async mutex and the last guard wakes the one waiting   *)
(* drain through a tokio Notify, whose notify_one stores a permit when     *)
(* nobody is waiting.                                                      *)
(*                                                                         *)
(* A gate is a record; the operators are the critical sections of its      *)
(* mutex and the steps of drain().                                         *)
(***************************************************************************)
EXTENDS Integers

CONSTANT NoOne

Gate(Callers) ==
  [phase : {"running", "draining", "failed", "drained"},
   active : Nat,
   permit : BOOLEAN,                                \* Notify's stored permit
   waiter : {"none", "waiting", "notified", "taken"},  \* the enabled Notified
   drainer : Callers \cup {NoOne}]                  \* holder of the drain mutex

NewGate == [phase |-> "running", active |-> 0, permit |-> FALSE,
            waiter |-> "none", drainer |-> NoOne]

(* A gate that only a finished drain closes.                               *)
AdmitsUntilDrained(g) == g.phase \in {"running", "draining"}

(* enter(): Err unless the gate is running.                                *)
Admits(g) == g.phase = "running"

Enter(g) == [g EXCEPT !.active = @ + 1]

(* Notify::notify_one.                                                     *)
NotifyOne(g) ==
  IF g.waiter = "waiting" THEN [g EXCEPT !.waiter = "notified"]
  ELSE [g EXCEPT !.permit = TRUE]

(* Callback::drop.                                                         *)
Leave(g) ==
  LET left == [g EXCEPT !.active = @ - 1]
  IN  IF left.active = 0 THEN NotifyOne(left) ELSE left

(* drain(), once its mutex is held: a finished drain is answered again,    *)
(* anything else closes the gate.                                          *)
CanLock(g) == g.drainer = NoOne
Answered(g) == g.phase = "drained"
CloseGate(g, c) == [g EXCEPT !.phase = "draining", !.drainer = c]

(* notified() and enable(): takes a stored permit or starts to wait.       *)
Register(g) ==
  IF g.permit THEN [g EXCEPT !.permit = FALSE, !.waiter = "taken"]
  ELSE [g EXCEPT !.waiter = "waiting"]

(* The Notified future is dropped.  A notification it was sent and never   *)
(* awaited would be passed on: to the permit, no one else waits here.      *)
DropWaiter(g) ==
  [g EXCEPT !.waiter = "none", !.permit = @ \/ g.waiter = "notified"]

(* idle.await returned: the loop registers again.                          *)
Woken(g) == [g EXCEPT !.waiter = "none"]

(* The outcome of flush and checkpoint, and the mutex released.            *)
FinishDrain(g, ok) ==
  [g EXCEPT !.phase = IF ok THEN "drained" ELSE "failed", !.drainer = NoOne]

(* A cancelled drain leaves admission closed; a later caller retries.      *)
CancelDrain(g) == [DropWaiter(g) EXCEPT !.drainer = NoOne]
==============================================================================
