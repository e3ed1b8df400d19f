----------------------------- MODULE NbdRequest -----------------------------
(***************************************************************************)
(* What the NBD adapter does with one callback of nbdkit: the extent check *)
(* and the engine calls the callback is split into (adapter.rs, reached    *)
(* through the C shim plugin.rs).  Offsets and lengths are counted in      *)
(* blocks of nbd.minimum_io.                                               *)
(***************************************************************************)
EXTENDS Integers, Sequences

CONSTANTS
  Size,       \* exported size
  Unit,       \* crypto_unit_size
  MaxIo,      \* nbd.maximum_io: the largest single engine read or write
  Align,      \* the alignment validate_extent asks for
  CanTrim     \* the volume was created with discard

ASSUME SizesAssumption ==
  /\ Size \in Nat \ {0} /\ Unit \in Nat \ {0} /\ MaxIo \in Nat \ {0} /\ Align \in Nat \ {0}
  /\ Size % Unit = 0 /\ Size % Align = 0 /\ MaxIo % Align = 0
  /\ CanTrim \in BOOLEAN

(* A callback: pread, pwrite, flush, trim, zero or checkpoint, its extent, *)
(* NBDKIT_FLAG_FUA and, for zero, NBDKIT_FLAG_MAY_TRIM.                     *)
Request == [op : {"pread", "pwrite", "flush", "trim", "zero", "checkpoint"},
            off : Nat, len : Nat, fua : BOOLEAN, may : BOOLEAN]

HasExtent(r) == r.op \in {"pread", "pwrite", "trim", "zero"}

(* validate_extent: the callback is refused with EINVAL otherwise.         *)
ValidExtent(r) ==
  HasExtent(r) => /\ r.len # 0
                  /\ r.len % Align = 0
                  /\ r.off % Align = 0
                  /\ r.off + r.len <= Size

Blocks(lo, hi) == lo .. hi - 1

EngineCall(kind, lo, hi, fua) == [kind |-> kind, lo |-> lo, hi |-> hi, fua |-> fua]

(* lo..hi in engine calls of at most MaxIo; FUA on the last one, whose     *)
(* journal sync covers the earlier ones.                                   *)
Chunks(kind, lo, hi, fua) ==
  LET n == (hi - lo + MaxIo - 1) \div MaxIo
  IN  [i \in 1..n |->
        EngineCall(kind, lo + (i - 1) * MaxIo,
                   IF i = n THEN hi ELSE lo + i * MaxIo, fua /\ i = n)]

(* A tail that inherits no FUA: the trim's sync comes before its record.   *)
ZeroTailUnsynced(r) ==
  LET end  == r.off + r.len
      trims == r.may /\ CanTrim
      from == IF trims THEN ((r.off + Unit - 1) \div Unit) * Unit ELSE end
      to   == IF trims THEN (end \div Unit) * Unit ELSE end
  IN  IF from >= to
        THEN Chunks("write", r.off, end, r.fua)
        ELSE Chunks("write", r.off, from, FALSE)
               \o << EngineCall("trim", from, to, r.fua) >>
               \o Chunks("write", to, end, FALSE)

(* zero: with MAY_TRIM on a discard volume the whole units inside are      *)
(* trimmed and only the edges are written; FUA goes to the last call.      *)
ZeroCalls(r) ==
  LET end  == r.off + r.len
      trims == r.may /\ CanTrim
      from == IF trims THEN ((r.off + Unit - 1) \div Unit) * Unit ELSE end
      to   == IF trims THEN (end \div Unit) * Unit ELSE end
      tail == r.fua /\ to < end
  IN  IF from >= to
        THEN Chunks("write", r.off, end, r.fua)
        ELSE Chunks("write", r.off, from, FALSE)
               \o << EngineCall("trim", from, to, r.fua /\ ~tail) >>
               \o Chunks("write", to, end, tail)

(* The engine calls of one callback, in order.                             *)
CallsOf(r) ==
  CASE r.op = "pread"  -> Chunks("read", r.off, r.off + r.len, FALSE)
    [] r.op = "pwrite" -> Chunks("write", r.off, r.off + r.len, r.fua)
    [] r.op = "trim"   -> << EngineCall("trim", r.off, r.off + r.len, r.fua) >>
    [] r.op = "zero"   -> ZeroCalls(r)
    [] OTHER           -> << EngineCall(r.op, 0, 0, FALSE) >>

(* map_core_error: the errno of a failed engine call (a panic is EIO too). *)
Errno(e) ==
  CASE e = "invalid" -> "EINVAL"
    [] e = "full"    -> "ENOSPC"
    [] OTHER         -> "EIO"
=============================================================================
